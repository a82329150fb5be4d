----------------------- MODULE PBElectionTerms_proofs -----------------------
(***************************************************************************)
(* Proofs about the elector's chain of requests in PBElection: the DCHECKs *)
(* of its continuations hold, and no two elections have the same term.     *)
(***************************************************************************)
EXTENDS PBElection_proofs

-----------------------------------------------------------------------------
(* The inductive invariant, member by member. *)

(* What an elector has exactly one of from the request for LOCK to the result of
   its removal: a request, or a result, of its chain, or an election that waits
   for members or for answers.  In the operators below q are a member's requests,
   p its results, st its state and v its votes. *)
IsToken(r)    == r.op \in {"acquireElector", "increaseTerm", "electorChildren", "removeLock"}
NoToken(q)    == \A i \in 1..Len(q) : ~IsToken(q[i])
OneToken(q)   == \A i, j \in 1..Len(q) : IsToken(q[i]) /\ IsToken(q[j]) => i = j

(* What a member has only once LOCK was its own, up to the election. *)
IsChainReq(r)  == r.op \in {"increaseTerm", "electorChildren"}
IsChainResp(r) == \/ r.op \in {"increaseTerm", "electorChildren"}
                  \/ r.op = "acquireElector" /\ r.ok
IsLeaderResp(r) == r.op = "acquireLeader" /\ r.ok

Tokens(q, p, st, v) ==
  /\ OneToken(q) /\ OneToken(p)
  /\ ~NoToken(q) => NoToken(p)
  /\ Voting(st, v) \/ st \in {"UNINITIALIZED", "FOLLOWER_WAIT_TO_JOIN_GROUP"} =>
       NoToken(q) /\ NoToken(p)
  /\ v # Idle => st = "EC_ELECTION_IN_PROGRESS"

(* The state in which each request and each result of the chain is out. *)
States(q, p, st) ==
  /\ \A i \in 1..Len(q) :
       /\ IsChainReq(q[i]) => st = "EC_ACQUIRE_LOCK"
       /\ q[i].op = "acquireElector" => st # "EC_ELECTION_IN_PROGRESS"
       /\ q[i].op = "removeLock" => st = "EC_ELECTION_IN_PROGRESS"
  /\ \A i \in 1..Len(p) :
       /\ IsChainResp(p[i]) => st = "EC_ACQUIRE_LOCK"
       /\ p[i].op = "removeLock" => st = "EC_ELECTION_IN_PROGRESS"

(* A member that got LOCK as leader is in no election: its own, if it ran one, has
   given LOCK back before. *)
LeaderLast(q, p, st, v) ==
  \A i \in 1..Len(p) : IsLeaderResp(p[i]) =>
    /\ ~Voting(st, v)
    /\ \A j \in 1..Len(q) : ~IsReqClaim(q[j])
    /\ \A j \in 1..Len(p) : ~IsChainResp(p[j]) /\ (p[j].op = "removeLock" => j < i)

(* Children read since the elector took LOCK show LOCK. *)
SeesLock(r) == r.op = "watchChildren" => r.view.hasLock
LockSeen(q, p, st, v) ==
  /\ \A i \in 1..Len(p) : p[i].op = "electorChildren" => p[i].view.hasLock
  /\ Voting(st, v) \/ (\E i \in 1..Len(q) : IsChainReq(q[i])) =>
       \A j \in 1..Len(p) : SeesLock(p[j])
  /\ \A i, j \in 1..Len(p) : IsChainResp(p[i]) /\ i < j => SeesLock(p[j])

Chain(q, p, st, v) ==
  Tokens(q, p, st, v) /\ States(q, p, st) /\ LeaderLast(q, p, st, v) /\ LockSeen(q, p, st, v)

(* The inductive invariant behind DchecksHold. *)
ChainOf(m) == Chain(req[m], resp[m], state[m], votes[m])
Chains == \A m \in Members : ChainOf(m)

-----------------------------------------------------------------------------
(* Queues that grow by one element at the end, or lose their oldest. *)

Grown(a, q, r) ==
  /\ Len(q) \in Nat /\ Len(a) = Len(q) + 1
  /\ a[Len(a)] = r
  /\ \A i \in 1..Len(q) : a[i] = q[i]
Shrunk(t, q) ==
  /\ Len(q) \in Nat \ {0} /\ Len(t) = Len(q) - 1
  /\ \A i \in 1..Len(t) : t[i] = q[i + 1]

(* Append adds the last element. *)
LEMMA AppendGrows ==
  ASSUME NEW S, NEW q \in Seq(S), NEW r \in S
  PROVE  Grown(Append(q, r), q, r)
BY AppendProperties, LenProperties DEF Grown

(* Tail drops the first element, which Head returns. *)
LEMMA TailShrinks ==
  ASSUME NEW S, NEW q \in Seq(S), q # <<>>
  PROVE  Shrunk(Tail(q), q) /\ Head(q) = q[1] /\ Head(q) \in S
BY HeadTailProperties, LenProperties, EmptySeq DEF Shrunk

(* A new element is a token of the longer queue, and the only one if there was none. *)
LEMMA GrownTokens ==
  ASSUME NEW a, NEW q, NEW r, Grown(a, q, r)
  PROVE  /\ ~IsToken(r) => (NoToken(a) <=> NoToken(q))
         /\ ~IsToken(r) /\ OneToken(q) => OneToken(a)
         /\ NoToken(q) => OneToken(a)
<1>1. \A i \in 1..Len(a) : i \in 1..Len(q) \/ i = Len(a)
  BY DEF Grown
<1>2. Len(a) \in 1..Len(a) /\ \A i \in 1..Len(q) : i \in 1..Len(a)
  BY DEF Grown
<1> QED
  BY <1>1, <1>2 DEF Grown, NoToken, OneToken

(* A queue with one token has none left once that token is handled. *)
LEMMA ShrunkTokens ==
  ASSUME NEW t, NEW q, Shrunk(t, q)
  PROVE  /\ NoToken(q) => NoToken(t)
         /\ OneToken(q) => OneToken(t)
         /\ OneToken(q) /\ IsToken(q[1]) => NoToken(t)
         /\ IsToken(q[1]) => ~NoToken(q)
<1>1. 1 \in 1..Len(q) /\ \A i \in 1..Len(t) : i + 1 \in 1..Len(q) /\ i + 1 # 1
  BY DEF Shrunk
<1>2. \A i, j \in 1..Len(t) : i + 1 = j + 1 => i = j
  BY DEF Shrunk
<1> QED
  BY <1>1, <1>2 DEF Shrunk, NoToken, OneToken

-----------------------------------------------------------------------------
(* What one step of the service or of a handler does to one member's chain. *)

(* A request outside the chain is served without a result, or a new one is made. *)
LEMMA RequestOutsideChain ==
  ASSUME NEW q, NEW q1, NEW p, NEW st, NEW v, NEW r, Chain(q, p, st, v), ~IsToken(r),
         Grown(q1, q, r) \/ (Shrunk(q1, q) /\ r = q[1])
  PROVE  Chain(q1, p, st, v)
<1>1. \A i \in 1..Len(q1) : q1[i] = r \/ \E j \in 1..Len(q) : q1[i] = q[j]
  <2>1. CASE Grown(q1, q, r)
    <3>1. \A i \in 1..Len(q1) : i \in 1..Len(q) \/ i = Len(q1)
      BY <2>1 DEF Grown
    <3> QED BY <2>1, <3>1 DEF Grown
  <2>2. CASE Shrunk(q1, q)
    <3>1. \A i \in 1..Len(q1) : i + 1 \in 1..Len(q)
      BY <2>2 DEF Shrunk
    <3> QED BY <2>2, <3>1 DEF Shrunk
  <2> QED BY <2>1, <2>2
<1>2. /\ r.op \notin {"acquireElector", "increaseTerm", "electorChildren", "removeLock"}
      /\ ~IsChainReq(r) /\ ~IsReqClaim(r)
  BY DEF IsToken, IsChainReq, IsReqClaim
<1>3. Tokens(q1, p, st, v)
  BY GrownTokens, ShrunkTokens DEF Chain, Tokens
<1>4. States(q1, p, st)
  BY <1>1, <1>2 DEF Chain, States
<1>5. LeaderLast(q1, p, st, v)
  BY <1>1, <1>2 DEF Chain, LeaderLast
<1>6. LockSeen(q1, p, st, v)
  BY <1>1, <1>2 DEF Chain, LockSeen
<1> QED
  BY <1>3, <1>4, <1>5, <1>6 DEF Chain

(* A request of a chain, or for LOCK as leader, is served and its result waits. *)
LEMMA RequestServed ==
  ASSUME NEW q, NEW q1, NEW p, NEW p1, NEW st, NEW v, NEW r, Chain(q, p, st, v),
         Shrunk(q1, q), Grown(p1, p, r), r.op = q[1].op,
         r.op \in {"acquireElector", "acquireLeader", "increaseTerm", "electorChildren", "removeLock"},
         r.op = "electorChildren" => r.view.hasLock,
         r.op \in {"acquireElector", "acquireLeader"} /\ r.ok =>
           /\ ~Voting(st, v) /\ st \notin LeaderStates /\ st \in MemberStates
           /\ NoReqClaim(q) /\ NoRespClaim(p)
  PROVE  Chain(q1, p1, st, v)
<1>1. 1 \in 1..Len(q) /\ \A i \in 1..Len(q1) : i + 1 \in 1..Len(q) /\ q1[i] = q[i + 1]
  BY DEF Shrunk
<1>2. /\ Len(p1) \in 1..Len(p1) /\ p1[Len(p1)] = r
      /\ \A i \in 1..Len(p1) : i \in 1..Len(p) \/ i = Len(p1)
      /\ \A i \in 1..Len(p) : i < Len(p1) /\ i \in 1..Len(p1) /\ p1[i] = p[i]
  BY DEF Grown
<1>3. Tokens(q1, p1, st, v)
  <2>1. CASE IsToken(r)
    <3>1. IsToken(q[1])
      BY <2>1 DEF IsToken
    <3>2. NoToken(q1) /\ NoToken(p) /\ OneToken(q1)
      BY <3>1, ShrunkTokens DEF Chain, Tokens
    <3>3. OneToken(p1) /\ ~NoToken(q)
      BY <3>1, <3>2, GrownTokens, ShrunkTokens
    <3> QED BY <3>2, <3>3 DEF Chain, Tokens
  <2>2. CASE ~IsToken(r)
    BY <2>2, GrownTokens, ShrunkTokens DEF Chain, Tokens
  <2> QED BY <2>1, <2>2
<1>4. States(q1, p1, st)
  <2>1. IsChainResp(r) => st = "EC_ACQUIRE_LOCK"
    <3>1. CASE r.op = "acquireElector" /\ r.ok
      <4>1. IsToken(q[1])
        BY <3>1 DEF IsToken
      <4>2. ~NoToken(q)
        BY <4>1, ShrunkTokens
      <4>3. st \notin {"UNINITIALIZED", "FOLLOWER_WAIT_TO_JOIN_GROUP", "EC_WAITING_FOR_QUORUM"}
        BY <4>2 DEF Chain, Tokens, Voting
      <4>4. st # "EC_ELECTION_IN_PROGRESS"
        BY <1>1, <3>1 DEF Chain, States
      <4> QED
        BY <3>1, <4>3, <4>4 DEF MemberStates, FollowerStates, ElectorStates, LeaderStates
    <3>2. CASE r.op \in {"increaseTerm", "electorChildren"}
      BY <1>1, <3>2 DEF Chain, States, IsChainReq
    <3> QED BY <3>1, <3>2 DEF IsChainResp
  <2>2. r.op = "removeLock" => st = "EC_ELECTION_IN_PROGRESS"
    BY <1>1 DEF Chain, States
  <2> QED BY <1>1, <1>2, <2>1, <2>2 DEF Chain, States
<1>5. LeaderLast(q1, p1, st, v)
  <2>1. CASE r.op \in {"acquireElector", "acquireLeader"} /\ r.ok
    <3>1. \A i \in 1..Len(p) : ~IsLeaderResp(p[i]) /\ ~IsChainResp(p[i])
      BY <2>1 DEF NoRespClaim, IsRespClaim, IsLeaderResp, IsChainResp
    <3>2. \A j \in 1..Len(q1) : ~IsReqClaim(q1[j])
      BY <1>1, <2>1 DEF NoReqClaim
    <3>3. IsLeaderResp(r) => ~IsChainResp(r) /\ r.op # "removeLock"
      BY DEF IsLeaderResp, IsChainResp
    <3> QED BY <1>2, <2>1, <3>1, <3>2, <3>3 DEF LeaderLast
  <2>2. CASE r.op \in {"acquireElector", "acquireLeader"} /\ ~r.ok
    <3>1. ~IsChainResp(r) /\ ~IsLeaderResp(r) /\ r.op # "removeLock"
      BY <2>2 DEF IsLeaderResp, IsChainResp
    <3> QED BY <1>1, <1>2, <3>1 DEF Chain, LeaderLast
  <2>3. CASE r.op \in {"increaseTerm", "electorChildren", "removeLock"}
    <3>1. IsReqClaim(q[1]) /\ ~IsLeaderResp(r)
      BY <2>3 DEF IsReqClaim, IsLeaderResp
    <3>2. \A i \in 1..Len(p) : ~IsLeaderResp(p[i])
      BY <1>1, <3>1 DEF Chain, LeaderLast
    <3> QED BY <1>2, <3>1, <3>2 DEF LeaderLast
  <2> QED BY <2>1, <2>2, <2>3
<1>6. LockSeen(q1, p1, st, v)
  <2>1. SeesLock(r) /\ \A i \in 1..Len(p1) : ~(Len(p1) < i)
    BY <1>2 DEF SeesLock, Grown
  <2> QED BY <1>1, <1>2, <2>1 DEF Chain, LockSeen
<1> QED
  BY <1>3, <1>4, <1>5, <1>6 DEF Chain

(* watchCb_ has read the children: with LOCK, if the member is in its chain. *)
LEMMA ChildrenReread ==
  ASSUME NEW q, NEW p, NEW p1, NEW st, NEW v, NEW r, Chain(q, p, st, v),
         Grown(p1, p, r), r.op = "watchChildren",
         \/ Voting(st, v)
         \/ \E i \in 1..Len(q) : IsChainReq(q[i])
         \/ \E i \in 1..Len(p) : IsChainResp(p[i])
         => r.view.hasLock
  PROVE  Chain(q, p1, st, v)
<1>1. /\ Len(p1) \in 1..Len(p1) /\ p1[Len(p1)] = r
      /\ \A i \in 1..Len(p1) : i \in 1..Len(p) \/ i = Len(p1)
      /\ \A i \in 1..Len(p) : i < Len(p1) /\ i \in 1..Len(p1) /\ p1[i] = p[i]
      /\ \A i \in 1..Len(p1) : ~(Len(p1) < i)
  BY DEF Grown
<1>2. ~IsToken(r) /\ ~IsChainResp(r) /\ ~IsLeaderResp(r)
  BY DEF IsToken, IsChainResp, IsLeaderResp
<1>3. Tokens(q, p1, st, v)
  BY <1>2, GrownTokens DEF Chain, Tokens
<1>4. States(q, p1, st)
  BY <1>1, <1>2 DEF Chain, States
<1>5. LeaderLast(q, p1, st, v)
  BY <1>1, <1>2 DEF Chain, LeaderLast
<1>6. LockSeen(q, p1, st, v)
  BY <1>1, <1>2 DEF Chain, LockSeen, SeesLock
<1> QED
  BY <1>3, <1>4, <1>5, <1>6 DEF Chain

(* An answer to the election request arrives. *)
LEMMA AnswerArrives ==
  ASSUME NEW q, NEW p, NEW st, NEW v, NEW v1, Chain(q, p, st, v), v # Idle
  PROVE  Chain(q, p, st, v1)
BY DEF Chain, Tokens, LeaderLast, LockSeen, Voting

(* The election request is complete: LOCK is to be removed, or more members are
   needed. *)
LEMMA ElectionComplete ==
  ASSUME NEW q, NEW q1, NEW p, NEW st, NEW st1, NEW v, NEW r, Chain(q, p, st, v), v # Idle,
         st = "EC_ELECTION_IN_PROGRESS",
         \/ Grown(q1, q, r) /\ r.op = "removeLock" /\ st1 = st
         \/ q1 = q /\ st1 = "EC_WAITING_FOR_QUORUM"
  PROVE  Chain(q1, p, st1, Idle)
<1>1. NoToken(q) /\ NoToken(p)
  BY DEF Chain, Tokens, Voting
<1>2. \A i \in 1..Len(p) : /\ ~IsLeaderResp(p[i]) /\ SeesLock(p[i])
                           /\ p[i].op # "electorChildren"
  BY <1>1 DEF Chain, LeaderLast, LockSeen, Voting, NoToken, IsToken
<1>3. (\A i \in 1..Len(p) : ~IsChainResp(p[i]) /\ p[i].op # "removeLock")
  BY <1>1 DEF NoToken, IsToken, IsChainResp
<1>4. CASE Grown(q1, q, r) /\ r.op = "removeLock" /\ st1 = st
  <2>1. OneToken(q1) /\ OneToken(p)
    BY <1>1, <1>4, GrownTokens DEF Chain, Tokens
  <2>2. Tokens(q1, p, st1, Idle)
    BY <1>1, <1>4, <2>1 DEF Tokens, Voting
  <2>3. \A i \in 1..Len(q1) : q1[i] = r \/ \E j \in 1..Len(q) : q1[i] = q[j]
    <3>1. \A i \in 1..Len(q1) : i \in 1..Len(q) \/ i = Len(q1)
      BY <1>4 DEF Grown
    <3> QED BY <1>4, <3>1 DEF Grown
  <2>4. States(q1, p, st1)
    BY <1>1, <1>3, <1>4, <2>3 DEF States, NoToken, IsToken, IsChainReq
  <2> QED
    BY <1>2, <1>3, <2>2, <2>4 DEF Chain, LeaderLast, LockSeen
<1>5. CASE q1 = q /\ st1 = "EC_WAITING_FOR_QUORUM"
  <2>1. Tokens(q1, p, st1, Idle)
    BY <1>1, <1>5 DEF Chain, Tokens
  <2>2. States(q1, p, st1)
    BY <1>1, <1>3, <1>5 DEF States, NoToken, IsToken, IsChainReq
  <2> QED
    BY <1>2, <1>3, <1>5, <2>1, <2>2 DEF Chain, LeaderLast, LockSeen
<1> QED
  BY <1>4, <1>5

(* Handling a result changes neither what the others say nor their order. *)
LEMMA ResultHandled ==
  ASSUME NEW q, NEW p, NEW p1, NEW st, NEW v, Chain(q, p, st, v), Shrunk(p1, p)
  PROVE  Chain(q, p1, st, v)
<1>1. \A i \in 1..Len(p1) : i + 1 \in 1..Len(p) /\ p1[i] = p[i + 1]
  BY DEF Shrunk
<1>2. \A i, j \in 1..Len(p1) : i < j <=> i + 1 < j + 1
  BY DEF Shrunk
<1>3. Tokens(q, p1, st, v)
  BY ShrunkTokens DEF Chain, Tokens
<1>4. States(q, p1, st)
  BY <1>1 DEF Chain, States
<1>5. LeaderLast(q, p1, st, v)
  BY <1>1, <1>2 DEF Chain, LeaderLast
<1>6. LockSeen(q, p1, st, v)
  BY <1>1, <1>2 DEF Chain, LockSeen
<1> QED
  BY <1>3, <1>4, <1>5, <1>6 DEF Chain

(* A follower becomes elector and asks for LOCK. *)
LEMMA ElectorStarts ==
  ASSUME NEW q, NEW q1, NEW p, NEW v, NEW r,
         Chain(q, p, "FOLLOWER_WAIT_TO_JOIN_GROUP", v),
         Grown(q1, q, r), r.op = "acquireElector"
  PROVE  Chain(q1, p, "EC_ACQUIRE_LOCK", v)
<1>1. NoToken(q) /\ NoToken(p) /\ v = Idle /\ OneToken(p)
  BY DEF Chain, Tokens
<1>2. OneToken(q1)
  BY <1>1, GrownTokens
<1>3. \A i \in 1..Len(q1) : q1[i] = r \/ \E j \in 1..Len(q) : q1[i] = q[j]
  <2>1. \A i \in 1..Len(q1) : i \in 1..Len(q) \/ i = Len(q1)
    BY DEF Grown
  <2> QED BY <2>1 DEF Grown
<1>4. ~IsReqClaim(r) /\ ~IsChainReq(r)
  BY DEF IsReqClaim, IsChainReq
<1>5. \A i \in 1..Len(p) : ~IsChainResp(p[i]) /\ p[i].op \notin {"removeLock", "electorChildren"}
  BY <1>1 DEF NoToken, IsToken, IsChainResp
<1>6. \A i \in 1..Len(q1) : ~IsReqClaim(q1[i]) /\ ~IsChainReq(q1[i])
  BY <1>1, <1>3, <1>4 DEF NoToken, IsToken, IsReqClaim, IsChainReq
<1>7. Tokens(q1, p, "EC_ACQUIRE_LOCK", v)
  BY <1>1, <1>2 DEF Tokens, Voting
<1>8. States(q1, p, "EC_ACQUIRE_LOCK")
  BY <1>5, <1>6 DEF States, IsReqClaim
<1> QED
  BY <1>1, <1>5, <1>6, <1>7, <1>8 DEF Chain, LeaderLast, LockSeen, Voting

(* A quorum of members is there: the waiting elector asks them all. *)
LEMMA ElectionStarts ==
  ASSUME NEW q, NEW p, NEW v, NEW v1, Chain(q, p, "EC_WAITING_FOR_QUORUM", v)
  PROVE  Chain(q, p, "EC_ELECTION_IN_PROGRESS", v1)
<1>1. NoToken(q) /\ NoToken(p)
  BY DEF Chain, Tokens, Voting
<1>2. States(q, p, "EC_ELECTION_IN_PROGRESS")
  BY <1>1 DEF States, NoToken, IsToken, IsChainReq, IsChainResp
<1> QED
  BY <1>1, <1>2 DEF Chain, Tokens, LeaderLast, LockSeen, Voting

(* The next request of the chain replaces the result that allows it. *)
LEMMA ChainGoesOn ==
  ASSUME NEW q, NEW q1, NEW p, NEW p1, NEW st, NEW v, NEW r, Chain(q, p, st, v),
         Shrunk(p1, p), IsChainResp(p[1]), Grown(q1, q, r), IsChainReq(r)
  PROVE  Chain(q1, p1, st, v)
<1>1. /\ 1 \in 1..Len(p)
      /\ \A i \in 1..Len(p1) : i + 1 \in 1..Len(p) /\ 1 < i + 1 /\ p1[i] = p[i + 1]
  BY DEF Shrunk
<1>2. IsToken(p[1])
  BY DEF IsToken, IsChainResp
<1>3. NoToken(q) /\ NoToken(p1) /\ ~NoToken(p)
  BY <1>2, ShrunkTokens DEF Chain, Tokens
<1>4. OneToken(q1) /\ OneToken(p1)
  BY <1>3, GrownTokens, ShrunkTokens DEF Chain, Tokens
<1>5. Tokens(q1, p1, st, v)
  BY <1>3, <1>4 DEF Chain, Tokens
<1>6. st = "EC_ACQUIRE_LOCK"
  BY <1>1 DEF Chain, States
<1>7. \A i \in 1..Len(q1) : q1[i] = r \/ \E j \in 1..Len(q) : q1[i] = q[j]
  <2>1. \A i \in 1..Len(q1) : i \in 1..Len(q) \/ i = Len(q1)
    BY DEF Grown
  <2> QED BY <2>1 DEF Grown
<1>8. \A i \in 1..Len(p1) : ~IsChainResp(p1[i]) /\ p1[i].op # "removeLock"
  BY <1>3 DEF NoToken, IsToken, IsChainResp
<1>9. States(q1, p1, st)
  BY <1>3, <1>6, <1>7, <1>8 DEF States, NoToken, IsToken, IsChainReq
<1>10. \A i \in 1..Len(p1) : ~IsLeaderResp(p1[i]) /\ SeesLock(p1[i])
  BY <1>1 DEF Chain, LeaderLast, LockSeen
<1>11. \A i \in 1..Len(p1) : p1[i].op # "electorChildren"
  BY <1>8 DEF IsChainResp
<1> QED
  BY <1>5, <1>8, <1>9, <1>10, <1>11 DEF Chain, LeaderLast, LockSeen

(* The chain is complete: the election starts, or waits for members. *)
LEMMA ChainEnds ==
  ASSUME NEW q, NEW p, NEW p1, NEW st, NEW st1, NEW v, NEW v1, Chain(q, p, st, v),
         Shrunk(p1, p), IsChainResp(p[1]),
         \/ st1 = "EC_ELECTION_IN_PROGRESS"
         \/ st1 = "EC_WAITING_FOR_QUORUM" /\ v1 = v
  PROVE  Chain(q, p1, st1, v1)
<1>1. /\ 1 \in 1..Len(p)
      /\ \A i \in 1..Len(p1) : i + 1 \in 1..Len(p) /\ 1 < i + 1 /\ p1[i] = p[i + 1]
  BY DEF Shrunk
<1>2. IsToken(p[1])
  BY DEF IsToken, IsChainResp
<1>3. NoToken(q) /\ NoToken(p1) /\ ~NoToken(p)
  BY <1>2, ShrunkTokens DEF Chain, Tokens
<1>4. v = Idle
  BY <1>3 DEF Chain, Tokens, Voting
<1>5. OneToken(q) /\ OneToken(p1)
  BY ShrunkTokens DEF Chain, Tokens
<1>6. Tokens(q, p1, st1, v1)
  BY <1>3, <1>4, <1>5 DEF Tokens
<1>7. \A i \in 1..Len(p1) : ~IsChainResp(p1[i]) /\ p1[i].op \notin {"removeLock", "electorChildren"}
  BY <1>3 DEF NoToken, IsToken, IsChainResp
<1>8. States(q, p1, st1)
  BY <1>3, <1>7 DEF States, NoToken, IsToken, IsChainReq
<1>9. \A i \in 1..Len(p1) : ~IsLeaderResp(p1[i]) /\ SeesLock(p1[i])
  BY <1>1 DEF Chain, LeaderLast, LockSeen
<1> QED
  BY <1>6, <1>7, <1>8, <1>9 DEF Chain, LeaderLast, LockSeen

(* LOCK is removed and the elector is a follower again. *)
LEMMA ElectorStepsBack ==
  ASSUME NEW q, NEW p, NEW p1, NEW st, NEW v, Chain(q, p, st, v),
         Shrunk(p1, p), p[1].op = "removeLock"
  PROVE  /\ Chain(q, p1, "FOLLOWER_WAIT_TO_JOIN_GROUP", v)
         /\ NoToken(q) /\ NoToken(p1) /\ v = Idle
<1>1. IsToken(p[1])
  BY DEF IsToken
<1>2. NoToken(q) /\ NoToken(p1) /\ ~NoToken(p)
  BY <1>1, ShrunkTokens DEF Chain, Tokens
<1>3. v = Idle
  BY <1>2 DEF Chain, Tokens, Voting
<1>4. Chain(q, p1, st, v)
  BY ResultHandled
<1>5. Tokens(q, p1, "FOLLOWER_WAIT_TO_JOIN_GROUP", v)
  BY <1>2, <1>3, <1>4 DEF Chain, Tokens
<1>6. \A i \in 1..Len(p1) : ~IsChainResp(p1[i]) /\ p1[i].op # "removeLock"
  BY <1>2 DEF NoToken, IsToken, IsChainResp
<1>7. States(q, p1, "FOLLOWER_WAIT_TO_JOIN_GROUP")
  BY <1>2, <1>6 DEF States, NoToken, IsToken, IsChainReq
<1> QED
  BY <1>2, <1>3, <1>4, <1>5, <1>7 DEF Chain, LeaderLast, LockSeen, Voting

(* A member with LOCK leads. *)
LEMMA LeaderStarts ==
  ASSUME NEW q, NEW p, NEW p1, NEW st, NEW v, NEW st1 \in LeaderStates, Chain(q, p, st, v),
         Shrunk(p1, p), IsLeaderResp(p[1])
  PROVE  Chain(q, p1, st1, v)
<1>1. /\ 1 \in 1..Len(p)
      /\ \A i \in 1..Len(p1) : i + 1 \in 1..Len(p) /\ ~(i + 1 < 1) /\ p1[i] = p[i + 1]
  BY DEF Shrunk
<1>2. Chain(q, p1, st, v)
  BY ResultHandled
<1>3. /\ v = Idle
      /\ \A j \in 1..Len(q) : ~IsReqClaim(q[j])
      /\ \A j \in 1..Len(p1) : ~IsChainResp(p1[j]) /\ p1[j].op # "removeLock"
  BY <1>1 DEF Chain, LeaderLast, Voting
<1>4. /\ st1 \notin {"UNINITIALIZED", "FOLLOWER_WAIT_TO_JOIN_GROUP", "EC_WAITING_FOR_QUORUM"}
      /\ st1 # "EC_ELECTION_IN_PROGRESS"
  BY DEF LeaderStates
<1>5. ~Voting(st1, v)
  BY <1>3, <1>4 DEF Voting
<1>6. Tokens(q, p1, st1, v)
  BY <1>2, <1>3, <1>4, <1>5 DEF Chain, Tokens
<1>7. States(q, p1, st1)
  BY <1>3, <1>4 DEF States, IsReqClaim, IsChainReq
<1> QED
  BY <1>2, <1>3, <1>5, <1>6, <1>7 DEF Chain, LeaderLast, LockSeen

(* A process that starts, or ended, has no chain. *)
LEMMA NoChain ==
  ASSUME NEW q, NEW st, st \in {"UNINITIALIZED", "FOLLOWER_WAIT_TO_JOIN_GROUP"},
         q = <<>> \/ q = <<Request("initChildren", {}), Request("createMember", {})>>
  PROVE  Chain(q, <<>>, st, Idle)
<1>1. \A i \in 1..Len(q) : q[i].op \in {"initChildren", "createMember"}
  BY DEF Request
<1>2. Len(<<>>) = 0
  OBVIOUS
<1>3. Tokens(q, <<>>, st, Idle)
  BY <1>1 DEF Tokens, NoToken, OneToken, IsToken, Voting
<1>4. States(q, <<>>, st)
  BY <1>1 DEF States, IsChainReq
<1> QED
  BY <1>1, <1>3, <1>4 DEF Chain, LeaderLast, LockSeen

-----------------------------------------------------------------------------
(* Every step of the system keeps every member's chain. *)

(* The queues of a member have their types. *)
LEMMA QueueTypes ==
  ASSUME TypeOK, NEW m \in Members
  PROVE  req[m] \in Seq(Requests) /\ resp[m] \in Seq(Results) /\ state[m] \in MemberStates
BY DEF TypeOK

(* A step of one member leaves the chains of the others alone. *)
LEMMA OthersChains ==
  ASSUME Chains, NEW m \in Members, ChainOf(m)',
         \A n \in Members \ {m} : /\ req'[n] = req[n] /\ resp'[n] = resp[n]
                                  /\ state'[n] = state[n] /\ votes'[n] = votes[n]
  PROVE  Chains'
<1> SUFFICES ASSUME NEW n \in Members, n # m PROVE ChainOf(n)'
  BY DEF Chains
<1> QED
  BY DEF Chains, ChainOf

(* An elector that waits for members or answers coordinates the group. *)
LEMMA VotingCoordinates ==
  ASSUME NEW m \in Members, ChainOf(m), Voting(state[m], votes[m])
  PROVE  Coordinates(m)
BY DEF ChainOf, Chain, Tokens, Voting, Coordinates

(* With a live session, a member in its chain sees its own LOCK. *)
LEMMA ChainHasLock ==
  ASSUME TypeOK, LockClaims, NEW m \in Members, ChainOf(m), Live(m),
         \/ Voting(state[m], votes[m])
         \/ \E i \in 1..Len(req[m]) : IsChainReq(req[m][i])
         \/ \E i \in 1..Len(resp[m]) : IsChainResp(resp[m][i])
  PROVE  Children(m).hasLock
<1>1. lock = Session(m)
  <2>1. CASE Voting(state[m], votes[m])
    BY <2>1, VotingCoordinates DEF LockClaims, ClaimsOf
  <2>2. CASE \E i \in 1..Len(req[m]) : IsChainReq(req[m][i])
    <3>1. ~NoReqClaim(req[m])
      BY <2>2 DEF NoReqClaim, IsReqClaim, IsChainReq
    <3> QED BY <3>1 DEF LockClaims, ClaimsOf
  <2>3. CASE \E i \in 1..Len(resp[m]) : IsChainResp(resp[m][i])
    <3>1. ~NoRespClaim(resp[m])
      BY <2>3 DEF NoRespClaim, IsRespClaim, IsChainResp
    <3> QED BY <3>1 DEF LockClaims, ClaimsOf
  <2> QED BY <2>1, <2>2, <2>3
<1>2. Session(m) # NoOwner
  BY NoOwnerAssumption DEF Session, TypeOK
<1> QED
  BY <1>1, <1>2 DEF Children

(* While LOCK is free, a member with a live session has nothing that needs it. *)
LEMMA LockFree ==
  ASSUME TypeOK, LockClaims, NEW m \in Members, ChainOf(m), Live(m), lock = NoOwner
  PROVE  /\ ~Voting(state[m], votes[m]) /\ state[m] \notin LeaderStates
         /\ NoReqClaim(req[m]) /\ NoRespClaim(resp[m])
<1>1. Session(m) # NoOwner
  BY NoOwnerAssumption DEF Session, TypeOK
<1>2. ~Coordinates(m) /\ NoReqClaim(req[m]) /\ NoRespClaim(resp[m])
  BY <1>1 DEF LockClaims, ClaimsOf
<1> QED
  BY <1>2, VotingCoordinates DEF Coordinates, Leads

(* The end of a process ends its chain. *)
LEMMA DieChains ==
  ASSUME TypeOK, Chains, NEW m \in Members, Die(m)
  PROVE  Chains'
<1>1. /\ req'[m] = <<>> /\ resp'[m] = <<>>
      /\ state'[m] = "UNINITIALIZED" /\ votes'[m] = Idle
  BY DEF Die, TypeOK
<1>2. ChainOf(m)'
  BY <1>1, NoChain DEF ChainOf
<1>3. \A n \in Members \ {m} : /\ req'[n] = req[n] /\ resp'[n] = resp[n]
                               /\ state'[n] = state[n] /\ votes'[n] = votes[n]
  BY DEF Die, TypeOK
<1> QED
  BY <1>2, <1>3, OthersChains

(* A request is served and answered: nothing but the two queues changes. *)
LEMMA ServedQueues ==
  ASSUME TypeOK, NEW m \in Members, NEW ops, Serves(m, ops),
         NEW isOk \in BOOLEAN, NEW view \in Views, NEW ver \in Nat, Reply(m, isOk, view, ver), UNCHANGED <<state, votes>>
  PROVE  LET r == Result(Head(req[m]), isOk, view, ver)
         IN  /\ Shrunk(req'[m], req[m]) /\ Grown(resp'[m], resp[m], r)
             /\ r.op = req[m][1].op /\ req[m][1].op \in ops /\ r.ok = isOk /\ r.view = view
             /\ state'[m] = state[m] /\ votes'[m] = votes[m]
             /\ \A n \in Members \ {m} : /\ req'[n] = req[n] /\ resp'[n] = resp[n]
                                         /\ state'[n] = state[n] /\ votes'[n] = votes[n]
<1> DEFINE r == Result(Head(req[m]), isOk, view, ver)
<1>1. r.op = Head(req[m]).op /\ r.ok = isOk /\ r.view = view
  BY DEF Result
<1>a. r \in Results
  BY ServeType, ResultType DEF Requests
<1>2. /\ req[m] # <<>> /\ Head(req[m]).op \in ops
      /\ req' = [req EXCEPT ![m] = Tail(@)] /\ resp' = [resp EXCEPT ![m] = Append(@, r)]
  BY DEF Serves, Reply
<1> HIDE DEF r
<1>3. /\ req'[m] = Tail(req[m]) /\ resp'[m] = Append(resp[m], r)
      /\ \A n \in Members \ {m} : req'[n] = req[n] /\ resp'[n] = resp[n]
  BY <1>2 DEF TypeOK
<1>4. Shrunk(req'[m], req[m]) /\ Head(req[m]) = req[m][1]
  BY <1>2, <1>3, TailShrinks, QueueTypes
<1>5. Grown(resp'[m], resp[m], r)
  BY <1>a, <1>3, QueueTypes, AppendGrows
<1> QED
  BY <1>1, <1>2, <1>3, <1>4, <1>5 DEF r

(* A continuation consumes the oldest result. *)
LEMMA HandledQueue ==
  ASSUME TypeOK, NEW m \in Members, NEW op, Handles(m, op), Pop(m)
  PROVE  /\ Shrunk(resp'[m], resp[m]) /\ Head(resp[m]) = resp[m][1] /\ resp[m][1].op = op
         /\ \A n \in Members \ {m} : resp'[n] = resp[n]
<1>1. /\ resp[m] # <<>> /\ Head(resp[m]).op = op
      /\ resp'[m] = Tail(resp[m])
      /\ \A n \in Members \ {m} : resp'[n] = resp[n]
  BY DEF Handles, Pop, TypeOK
<1> QED
  BY <1>1, TailShrinks, QueueTypes

(* A continuation issues a request. *)
LEMMA IssuedQueue ==
  ASSUME TypeOK, NEW m \in Members, NEW r \in Requests,
         req' = [req EXCEPT ![m] = Append(@, r)]
  PROVE  /\ Grown(req'[m], req[m], r)
         /\ \A n \in Members \ {m} : req'[n] = req[n]
<1>1. /\ req'[m] = Append(req[m], r)
      /\ \A n \in Members \ {m} : req'[n] = req[n]
  BY DEF TypeOK
<1> QED
  BY <1>1, AppendGrows, QueueTypes

(* Every step keeps the chains of requests and results in order. *)
LEMMA NextChains ==
  ASSUME TypeOK, LockClaims, Chains, [Next]_vars
  PROVE  Chains'
<1> USE ViewType
<1>1. ASSUME UNCHANGED <<req, resp, state, votes>> PROVE Chains'
  BY <1>1 DEF Chains, ChainOf
<1>2. ASSUME NEW m \in Members, ServeInitChildren(m) \/ ServeCreateMember(m) PROVE Chains'
  <2>1. /\ req[m] # <<>> /\ Head(req[m]).op \in {"initChildren", "createMember"}
        /\ req' = [req EXCEPT ![m] = Tail(@)]
        /\ UNCHANGED <<resp, state, votes>>
    BY <1>2 DEF ServeInitChildren, ServeCreateMember, Serves, procVars
  <2>2. /\ req'[m] = Tail(req[m])
        /\ \A n \in Members \ {m} : req'[n] = req[n]
    BY <2>1 DEF TypeOK
  <2>3. Shrunk(req'[m], req[m]) /\ Head(req[m]) = req[m][1]
    BY <2>1, <2>2, TailShrinks, QueueTypes
  <2>4. ~IsToken(req[m][1])
    BY <2>1, <2>3 DEF IsToken
  <2>5. ChainOf(m)'
    BY <2>1, <2>3, <2>4, RequestOutsideChain DEF Chains, ChainOf
  <2> QED BY <2>1, <2>2, <2>5, OthersChains
(* The service answers a request. *)
<1>3. ASSUME NEW m \in Members, NEW ops, Serves(m, ops),
             NEW isOk \in BOOLEAN, NEW view \in Views, NEW ver \in Nat, Reply(m, isOk, view, ver),
             UNCHANGED <<state, votes>>,
             ops \subseteq {"acquireElector", "acquireLeader", "increaseTerm", "electorChildren", "removeLock"},
             "electorChildren" \in ops => view = Children(m),
             ops \cap {"acquireElector", "acquireLeader"} # {} /\ isOk => lock = NoOwner
      PROVE  Chains'
  <2> DEFINE r == Result(Head(req[m]), isOk, view, ver)
  <2>1. /\ Shrunk(req'[m], req[m]) /\ Grown(resp'[m], resp[m], r)
        /\ r.op = req[m][1].op /\ req[m][1].op \in ops /\ r.ok = isOk /\ r.view = view
        /\ state'[m] = state[m] /\ votes'[m] = votes[m]
        /\ \A n \in Members \ {m} : /\ req'[n] = req[n] /\ resp'[n] = resp[n]
                                    /\ state'[n] = state[n] /\ votes'[n] = votes[n]
    BY <1>3, ServedQueues
  <2> HIDE DEF r
  <2>2. Live(m) /\ ChainOf(m)
    BY <1>3 DEF Serves, Chains
  <2>3. r.op = "electorChildren" => r.view.hasLock
    <3>1. SUFFICES ASSUME r.op = "electorChildren" PROVE Children(m).hasLock
      BY <1>3, <2>1
    <3>2. 1 \in 1..Len(req[m]) /\ IsChainReq(req[m][1])
      BY <2>1, <3>1 DEF Shrunk, IsChainReq
    <3> QED BY <2>2, <3>2, ChainHasLock
  <2>4. r.op \in {"acquireElector", "acquireLeader"} /\ r.ok =>
           /\ ~Voting(state[m], votes[m]) /\ state[m] \notin LeaderStates
           /\ state[m] \in MemberStates
           /\ NoReqClaim(req[m]) /\ NoRespClaim(resp[m])
    <3>1. SUFFICES ASSUME r.op \in {"acquireElector", "acquireLeader"}, r.ok
                   PROVE  lock = NoOwner
      BY <2>2, LockFree, QueueTypes
    <3> QED BY <1>3, <2>1, <3>1
  <2>5. ChainOf(m)'
    BY <1>3, <2>1, <2>2, <2>3, <2>4, RequestServed DEF ChainOf
  <2> QED BY <2>1, <2>5, OthersChains
<1>4. ASSUME NEW m \in Members, ServeElectorChildren(m) PROVE Chains'
  <2>1. /\ Serves(m, {"electorChildren"}) /\ Reply(m, TRUE, Children(m), 0)
        /\ UNCHANGED <<state, votes>>
    BY <1>4 DEF ServeElectorChildren, procVars
  <2>2. {"electorChildren"} \cap {"acquireElector", "acquireLeader"} = {}
    OBVIOUS
  <2> QED BY <2>1, <2>2, <1>3
<1>5. ASSUME NEW m \in Members, ServeAcquireLock(m) PROVE Chains'
  <2>1. /\ Serves(m, {"acquireElector", "acquireLeader"}) /\ UNCHANGED <<state, votes>>
        /\ \/ lock = NoOwner /\ Reply(m, TRUE, NoView, 0)
           \/ Reply(m, FALSE, NoView, 0)
    BY <1>5 DEF ServeAcquireLock, procVars
  <2>a. "electorChildren" \notin {"acquireElector", "acquireLeader"}
    OBVIOUS
  <2>2. CASE lock = NoOwner /\ Reply(m, TRUE, NoView, 0)
    BY <2>1, <2>2, <2>a, <1>3
  <2>3. CASE Reply(m, FALSE, NoView, 0)
    BY <2>1, <2>3, <2>a, <1>3
  <2> QED BY <2>1, <2>2, <2>3
<1>6. ASSUME NEW m \in Members, ServeIncreaseTerm(m) PROVE Chains'
  <2>1. version + 1 \in Nat
    BY DEF TypeOK
  <2>2. /\ Serves(m, {"increaseTerm"}) /\ Reply(m, TRUE, NoView, version + 1)
        /\ UNCHANGED <<state, votes>>
    BY <1>6 DEF ServeIncreaseTerm, procVars
  <2>3. {"increaseTerm"} \cap {"acquireElector", "acquireLeader"} = {}
    OBVIOUS
  <2> QED BY <2>1, <2>2, <2>3, <1>3
<1>7. ASSUME NEW m \in Members, ServeRemoveLock(m) PROVE Chains'
  <2>1. /\ Serves(m, {"removeLock"}) /\ Reply(m, lock # NoOwner, NoView, 0)
        /\ UNCHANGED <<state, votes>>
    BY <1>7 DEF ServeRemoveLock, procVars
  <2>2. {"removeLock"} \cap {"acquireElector", "acquireLeader"} = {}
    OBVIOUS
  <2>3. (lock # NoOwner) \in BOOLEAN
    OBVIOUS
  <2> QED BY <2>1, <2>2, <2>3, <1>3
<1>8. ASSUME NEW m \in Members, ServeWatchCb(m) PROVE Chains'
  <2> DEFINE r == Result([op |-> "watchChildren", who |-> {}], TRUE, Children(m), 0)
  <2>1. /\ Live(m) /\ resp' = [resp EXCEPT ![m] = Append(@, r)]
        /\ UNCHANGED <<req, state, votes>>
    BY <1>8 DEF ServeWatchCb, procVars
  <2>2. r \in Results /\ r.op = "watchChildren" /\ r.view = Children(m)
    BY ResultType DEF Result
  <2> HIDE DEF r
  <2>3. /\ resp'[m] = Append(resp[m], r)
        /\ \A n \in Members \ {m} : resp'[n] = resp[n]
    BY <2>1 DEF TypeOK
  <2>4. Grown(resp'[m], resp[m], r)
    BY <2>2, <2>3, AppendGrows, QueueTypes
  <2>5. ChainOf(m)
    BY DEF Chains
  <2>6. \/ Voting(state[m], votes[m])
        \/ \E i \in 1..Len(req[m]) : IsChainReq(req[m][i])
        \/ \E i \in 1..Len(resp[m]) : IsChainResp(resp[m][i])
        => r.view.hasLock
    BY <2>1, <2>2, <2>5, ChainHasLock
  <2>7. Chain(req[m], resp'[m], state[m], votes[m])
    BY <2>2, <2>4, <2>5, <2>6, ChildrenReread DEF ChainOf
  <2>8. ChainOf(m)'
    BY <2>1, <2>7 DEF ChainOf
  <2> QED BY <2>1, <2>3, <2>8, OthersChains
<1>9. ASSUME NEW s \in alive, ExpireSession(s) PROVE Chains'
  BY <1>9, <1>1 DEF ExpireSession, procVars
<1>10. ASSUME NEW m \in Members, StartMember(m) PROVE Chains'
  <2>1. resp[m] = <<>> /\ votes[m] = Idle
    BY <1>10 DEF StartMember, LockClaims, DownOf
  <2>2. /\ req'[m] = <<Request("initChildren", {}), Request("createMember", {})>>
        /\ state'[m] = "FOLLOWER_WAIT_TO_JOIN_GROUP"
        /\ UNCHANGED <<resp, votes>>
        /\ \A n \in Members \ {m} : req'[n] = req[n] /\ state'[n] = state[n]
    BY <1>10 DEF StartMember, TypeOK
  <2>3. ChainOf(m)'
    BY <2>1, <2>2, NoChain DEF ChainOf
  <2> QED BY <2>2, <2>3, OthersChains
<1>11. ASSUME NEW m \in Members, Crash(m) \/ AbortOnExpiry(m) PROVE Chains'
  BY <1>11, DieChains DEF Crash, AbortOnExpiry
<1>12. ASSUME NEW m \in Members, GroupWatchTimer(m) \/ CoolDown(m) PROVE Chains'
  BY <1>12, <1>1 DEF GroupWatchTimer, CoolDown, netVars
<1>13. ASSUME NEW e \in Members, NEW m \in Members,
              handleGetMemberStateMsg(e, m) \/ GetMemberStateFails(e, m)
       PROVE  Chains'
  <2>1. /\ votes[e][m] = "pending"
        /\ UNCHANGED <<req, resp, state>>
        /\ \A n \in Members \ {e} : votes'[n] = votes[n]
    BY <1>13 DEF handleGetMemberStateMsg, GetMemberStateFails, netVars, TypeOK
  <2>2. votes[e] # Idle
    BY <2>1 DEF Idle
  <2>3. ChainOf(e)'
    BY <2>1, <2>2, AnswerArrives DEF Chains, ChainOf
  <2> QED BY <2>1, <2>3, OthersChains
<1>14. ASSUME NEW e \in Members, handleElectionResponse(e) PROVE Chains'
  <2> DEFINE bucket == ElectionBucket({m \in Members : votes[e][m] = "ok"})
             r == Request("removeLock", bucket)
  <2>1. r \in Requests /\ r.op = "removeLock"
    BY RequestType DEF Ops, ElectionBucket, Request
  <2>2. /\ state[e] = "EC_ELECTION_IN_PROGRESS" /\ votes[e][e] \in {"ok", "fail"}
        /\ votes' = [votes EXCEPT ![e] = Idle] /\ resp' = resp
    BY <1>14 DEF handleElectionResponse
  <2>3. \/ /\ req' = [req EXCEPT ![e] = Append(@, r)]
           /\ state' = state
        \/ /\ req' = req
           /\ state' = [state EXCEPT ![e] = "EC_WAITING_FOR_QUORUM"]
    BY <1>14 DEF handleElectionResponse
  <2> HIDE DEF r
  <2>4. votes[e] # Idle
    BY <2>2 DEF Idle
  <2>5. /\ votes'[e] = Idle
        /\ \A n \in Members \ {e} : /\ req'[n] = req[n] /\ state'[n] = state[n]
                                    /\ votes'[n] = votes[n]
    BY <2>2, <2>3 DEF TypeOK
  <2>6. \/ Grown(req'[e], req[e], r) /\ state'[e] = state[e]
        \/ req'[e] = req[e] /\ state'[e] = "EC_WAITING_FOR_QUORUM"
    BY <2>1, <2>3, IssuedQueue DEF TypeOK
  <2>7. Chain(req'[e], resp[e], state'[e], Idle)
    BY <2>1, <2>2, <2>4, <2>6, ElectionComplete DEF Chains, ChainOf
  <2>8. ChainOf(e)'
    BY <2>2, <2>5, <2>7 DEF ChainOf
  <2> QED BY <2>2, <2>5, <2>8, OthersChains
<1>15. ASSUME NEW msg \in msgs, handleBecomeLeaderMsg(msg) PROVE Chains'
  <2> DEFINE m == msg.to
             r == Request("acquireLeader", msg.functionalMembers)
  <2>1. m \in Members /\ r \in Requests
    BY RequestType DEF TypeOK, BecomeLeaderMsgs, Ops
  <2>2. ~IsToken(r)
    BY DEF Request, IsToken
  <2>3. /\ req' = req \/ req' = [req EXCEPT ![m] = Append(@, r)]
        /\ UNCHANGED <<state, votes, resp>>
    BY <1>15 DEF handleBecomeLeaderMsg, procVars
  <2> HIDE DEF r, m
  <2>4. CASE req' = req
    BY <2>3, <2>4, <1>1
  <2>5. CASE req' = [req EXCEPT ![m] = Append(@, r)]
    <3>1. /\ Grown(req'[m], req[m], r)
          /\ \A n \in Members \ {m} : req'[n] = req[n]
      BY <2>1, <2>5, IssuedQueue
    <3>2. ChainOf(m)'
      BY <2>1, <2>2, <2>3, <3>1, RequestOutsideChain DEF Chains, ChainOf
    <3> QED BY <2>1, <2>3, <3>1, <3>2, OthersChains
  <2> QED BY <2>3, <2>4, <2>5
<1>16. ASSUME NEW msg \in msgs, BecomeLeaderMsgLost(msg) PROVE Chains'
  BY <1>16, <1>1 DEF BecomeLeaderMsgLost, procVars
(* The continuations. *)
<1>17. ASSUME NEW m \in Members, handleGroupWatchEvent(m) PROVE Chains'
  <2> DEFINE r == Request("acquireElector", {})
  <2>1. r \in Requests /\ r.op = "acquireElector"
    BY RequestType DEF Ops, Request
  <2>2. \/ /\ state[m] = "FOLLOWER_WAIT_TO_JOIN_GROUP"
           /\ state' = [state EXCEPT ![m] = "EC_ACQUIRE_LOCK"]
           /\ req' = [req EXCEPT ![m] = Append(@, r)]
           /\ votes' = votes
        \/ /\ state[m] = "EC_WAITING_FOR_QUORUM"
           /\ state' = [state EXCEPT ![m] = "EC_ELECTION_IN_PROGRESS"]
           /\ votes' = [votes EXCEPT ![m] = Asked]
           /\ req' = req
        \/ UNCHANGED <<state, votes, req>>
    BY <1>17 DEF handleGroupWatchEvent, Issue
  <2>3. Shrunk(resp'[m], resp[m]) /\ \A n \in Members \ {m} : resp'[n] = resp[n]
    BY <1>17, HandledQueue DEF handleGroupWatchEvent
  <2> HIDE DEF r
  <2>4. \A n \in Members \ {m} : /\ req'[n] = req[n] /\ state'[n] = state[n]
                                 /\ votes'[n] = votes[n]
    BY <2>2 DEF TypeOK
  <2>5. Chain(req[m], resp'[m], state[m], votes[m])
    BY <2>3, ResultHandled DEF Chains, ChainOf
  <2>6. \/ /\ state[m] = "FOLLOWER_WAIT_TO_JOIN_GROUP"
           /\ state'[m] = "EC_ACQUIRE_LOCK"
           /\ Grown(req'[m], req[m], r)
           /\ votes'[m] = votes[m]
        \/ /\ state[m] = "EC_WAITING_FOR_QUORUM"
           /\ state'[m] = "EC_ELECTION_IN_PROGRESS"
           /\ req'[m] = req[m]
        \/ state'[m] = state[m] /\ votes'[m] = votes[m] /\ req'[m] = req[m]
    BY <2>1, <2>2, IssuedQueue DEF TypeOK
  <2>7. Chain(req'[m], resp'[m], state'[m], votes'[m])
    BY <2>1, <2>5, <2>6, ElectorStarts, ElectionStarts
  <2> QED BY <2>3, <2>4, <2>7, OthersChains DEF ChainOf
<1>18. ASSUME NEW m \in Members, NEW op, Handles(m, op), Pop(m), NEW r \in Requests,
              IsChainResp(Head(resp[m])), IsChainReq(r),
              req' = [req EXCEPT ![m] = Append(@, r)], UNCHANGED <<state, votes>>
       PROVE  Chains'
  <2>1. /\ Shrunk(resp'[m], resp[m]) /\ IsChainResp(resp[m][1])
        /\ \A n \in Members \ {m} : resp'[n] = resp[n]
    BY <1>18, HandledQueue
  <2>2. Grown(req'[m], req[m], r) /\ \A n \in Members \ {m} : req'[n] = req[n]
    BY <1>18, IssuedQueue
  <2>3. ChainOf(m)'
    BY <1>18, <2>1, <2>2, ChainGoesOn DEF Chains, ChainOf
  <2> QED BY <1>18, <2>1, <2>2, <2>3, OthersChains
<1>19. ASSUME NEW m \in Members, AcquireElectorResult(m) PROVE Chains'
  <2>1. CASE Head(resp[m]).ok
    <3>1. Request("increaseTerm", {}) \in Requests /\ IsChainReq(Request("increaseTerm", {}))
      BY RequestType DEF Ops, Request, IsChainReq
    <3>2. IsChainResp(Head(resp[m]))
      BY <1>19, <2>1 DEF AcquireElectorResult, Handles, IsChainResp
    <3> QED BY <1>19, <2>1, <3>1, <3>2, <1>18 DEF AcquireElectorResult, Issue, procVars
  <2>2. CASE ~Head(resp[m]).ok
    BY <1>19, <2>2, DieChains DEF AcquireElectorResult
  <2> QED BY <2>1, <2>2
<1>20. ASSUME NEW m \in Members, IncreaseTermResult(m) PROVE Chains'
  <2>1. Request("electorChildren", {}) \in Requests /\ IsChainReq(Request("electorChildren", {}))
    BY RequestType DEF Ops, Request, IsChainReq
  <2>2. IsChainResp(Head(resp[m]))
    BY <1>20 DEF IncreaseTermResult, Handles, IsChainResp
  <2> QED BY <1>20, <2>1, <2>2, <1>18 DEF IncreaseTermResult, Issue
<1>21. ASSUME NEW m \in Members, ElectorChildrenResult(m) PROVE Chains'
  <2>1. Shrunk(resp'[m], resp[m]) /\ IsChainResp(resp[m][1])
    BY <1>21, HandledQueue DEF ElectorChildrenResult, IsChainResp
  <2>2. /\ req'[m] = req[m]
        /\ \/ state'[m] = "EC_ELECTION_IN_PROGRESS"
           \/ state'[m] = "EC_WAITING_FOR_QUORUM" /\ votes'[m] = votes[m]
    BY <1>21 DEF ElectorChildrenResult, TypeOK
  <2>3. \A n \in Members \ {m} : /\ req'[n] = req[n] /\ resp'[n] = resp[n]
                                 /\ state'[n] = state[n] /\ votes'[n] = votes[n]
    BY <1>21 DEF ElectorChildrenResult, Pop, TypeOK
  <2>4. ChainOf(m)'
    BY <2>1, <2>2, ChainEnds DEF Chains, ChainOf
  <2> QED BY <2>3, <2>4, OthersChains
<1>22. ASSUME NEW m \in Members, RemoveLockResult(m) PROVE Chains'
  <2>1. CASE Head(resp[m]).ok
    <3>1. /\ Handles(m, "removeLock") /\ Pop(m)
          /\ state' = [state EXCEPT ![m] = "FOLLOWER_WAIT_TO_JOIN_GROUP"]
          /\ UNCHANGED <<votes, req>>
      BY <1>22, <2>1 DEF RemoveLockResult
    <3>2. /\ Shrunk(resp'[m], resp[m]) /\ resp[m][1].op = "removeLock"
          /\ \A n \in Members \ {m} : resp'[n] = resp[n]
      BY <3>1, HandledQueue
    <3>3. /\ state'[m] = "FOLLOWER_WAIT_TO_JOIN_GROUP"
          /\ \A n \in Members \ {m} : state'[n] = state[n]
      BY <3>1 DEF TypeOK
    <3>4. ChainOf(m)'
      BY <3>1, <3>2, <3>3, ElectorStepsBack DEF Chains, ChainOf
    <3> QED BY <3>1, <3>2, <3>3, <3>4, OthersChains
  <2>2. CASE ~Head(resp[m]).ok
    BY <1>22, <2>2, DieChains DEF RemoveLockResult
  <2> QED BY <2>1, <2>2
<1>23. ASSUME NEW m \in Members, AcquireLeaderResult(m) PROVE Chains'
  <2>1. CASE Head(resp[m]).ok
    <3>1. /\ Handles(m, "acquireLeader") /\ Pop(m)
          /\ state'[m] \in LeaderStates
          /\ \A n \in Members \ {m} : state'[n] = state[n]
          /\ UNCHANGED <<votes, req>>
      BY <1>23, <2>1 DEF AcquireLeaderResult, TypeOK, LeaderStates
    <3>2. /\ Shrunk(resp'[m], resp[m]) /\ IsLeaderResp(resp[m][1])
          /\ \A n \in Members \ {m} : resp'[n] = resp[n]
      BY <2>1, <3>1, HandledQueue DEF IsLeaderResp
    <3>3. ChainOf(m)'
      BY <3>1, <3>2, LeaderStarts DEF Chains, ChainOf
    <3> QED BY <3>1, <3>2, <3>3, OthersChains
  <2>2. CASE ~Head(resp[m]).ok
    BY <1>23, <2>2, DieChains DEF AcquireLeaderResult
  <2> QED BY <2>1, <2>2
<1>24. CASE UNCHANGED vars
  BY <1>24, <1>1 DEF vars, procVars, netVars
<1> QED
  BY <1>2, <1>4, <1>5, <1>6, <1>7, <1>8, <1>9, <1>10, <1>11, <1>12, <1>13, <1>14, <1>15,
     <1>16, <1>17, <1>19, <1>20, <1>21, <1>22, <1>23, <1>24
     DEF Next, Serve, Continue

(* Before any process runs there is no chain. *)
LEMMA InitChains == Init => Chains
BY NoChain DEF Init, Chains, ChainOf

(* The elector's chain is in order in every reachable state: one request, result or
   election at a time, in the state its continuation expects, with LOCK in sight. *)
THEOREM ChainsCorrect == Spec => []Chains
<1>1. TypeOK /\ LockClaims /\ Chains /\ [Next]_vars => Chains'
  BY NextChains
<1> QED
  BY <1>1, InitChains, TypeCorrect, ClaimsCorrect, PTL DEF Spec

(* No continuation of the elector ever runs into one of its DCHECKs, for any group,
   quorum, and order of requests, watches, crashes and expiring sessions. *)
THEOREM DchecksCorrect == Spec => []DchecksHold
<1>1. TypeOK /\ Chains => DchecksHold
  <2> SUFFICES ASSUME TypeOK, Chains, NEW m \in Members PROVE
        /\ resp[m] # <<>> =>
             LET r == Head(resp[m])
             IN  /\ \/ r.op = "acquireElector" /\ r.ok
                    \/ r.op \in {"increaseTerm", "electorChildren"}
                    => state[m] = "EC_ACQUIRE_LOCK"
                 /\ \/ r.op = "electorChildren"
                    \/ r.op = "watchChildren" /\ state[m] = "EC_WAITING_FOR_QUORUM"
                    => hasLock(r.view)
        /\ votes[m] # Idle => state[m] = "EC_ELECTION_IN_PROGRESS"
    BY DEF DchecksHold
  <2>1. resp[m] # <<>> => 1 \in 1..Len(resp[m]) /\ Head(resp[m]) = resp[m][1]
    BY QueueTypes, TailShrinks DEF Shrunk
  <2>2. Chain(req[m], resp[m], state[m], votes[m])
    BY DEF Chains, ChainOf
  <2>3. votes[m] # Idle => state[m] = "EC_ELECTION_IN_PROGRESS"
    BY <2>2 DEF Chain, Tokens
  <2>4. \A i \in 1..Len(resp[m]) :
          \/ resp[m][i].op = "acquireElector" /\ resp[m][i].ok
          \/ resp[m][i].op \in {"increaseTerm", "electorChildren"}
          => state[m] = "EC_ACQUIRE_LOCK"
    BY <2>2 DEF Chain, States, IsChainResp
  <2>5. \A i \in 1..Len(resp[m]) :
          \/ resp[m][i].op = "electorChildren"
          \/ resp[m][i].op = "watchChildren" /\ state[m] = "EC_WAITING_FOR_QUORUM"
          => resp[m][i].view.hasLock
    BY <2>2 DEF Chain, LockSeen, SeesLock, Voting
  <2> QED BY <2>1, <2>3, <2>4, <2>5 DEF hasLock
<1> QED
  BY <1>1, ChainsCorrect, TypeCorrect, PTL

-----------------------------------------------------------------------------
(* Terms. *)

(* The terms that results of increaseTerm_ hold and the member has not handled. *)
Offers(p)   == {p[i].ver : i \in {k \in 1..Len(p) : p[k].op = "increaseTerm"}}
OffersOf(m) == Offers(resp[m])

TermsBelow ==
  /\ \A m \in Members : termId[m] <= version
  /\ \A m \in Members : \A t \in OffersOf(m) : t \in Nat /\ t > 0 /\ t <= version
  /\ \A a \in msgs : a.termId <= version

TermsDistinct ==
  /\ \A m, n \in Members : Electing(m) /\ Electing(n) /\ termId[m] = termId[n] => m = n
  /\ \A m, n \in Members : Electing(n) => termId[n] \notin OffersOf(m)
  /\ \A m, n \in Members : \A t \in OffersOf(m) : t \in OffersOf(n) => m = n
  /\ \A m \in Members, a \in msgs : a.termId \notin OffersOf(m)

TermsUsedOnce ==
  /\ \A a, b \in msgs : a.termId = b.termId => a = b
  /\ \A m \in Members : Electing(m) =>
       termId[m] # INVALID_VALUE /\ \A a \in msgs : a.termId # termId[m]

(* The inductive invariant behind UniqueTerms: a term is on its way to one elector,
   or known to one, or in one message, and never above the version of groupKey_. *)
Terms == TermsBelow /\ TermsDistinct /\ TermsUsedOnce

(* A longer queue of results offers the term of its new result at most. *)
LEMMA GrownOffers ==
  ASSUME NEW a, NEW p, NEW r, Grown(a, p, r)
  PROVE  /\ r.op # "increaseTerm" => Offers(a) \subseteq Offers(p)
         /\ Offers(a) \subseteq Offers(p) \cup {r.ver}
         /\ HasOpen(a) => HasOpen(p) \/ IsOpen(r)
<1>1. \A i \in 1..Len(a) : (i \in 1..Len(p) /\ a[i] = p[i]) \/ a[i] = r
  BY DEF Grown
<1> QED
  BY <1>1 DEF Offers, HasOpen

(* A shorter queue of results offers no term that was not offered. *)
LEMMA ShrunkOffers ==
  ASSUME NEW t, NEW p, Shrunk(t, p)
  PROVE  /\ Offers(t) \subseteq Offers(p)
         /\ HasOpen(t) => HasOpen(p)
         /\ IsOpen(p[1]) => HasOpen(p)
         /\ p[1].op = "increaseTerm" => p[1].ver \in Offers(p)
<1>1. 1 \in 1..Len(p) /\ \A i \in 1..Len(t) : i + 1 \in 1..Len(p) /\ t[i] = p[i + 1]
  BY DEF Shrunk
<1> QED
  BY <1>1 DEF Offers, HasOpen

(* Without a token there is no offer and nothing open. *)
LEMMA NoTokenOffers ==
  ASSUME NEW p, NoToken(p)
  PROVE  Offers(p) = {} /\ ~HasOpen(p)
BY DEF NoToken, IsToken, Offers, HasOpen, IsOpen

(* A step that makes no term, moves none to an elector and sends none. *)
LEMMA QuietStep ==
  ASSUME TypeOK, Terms, version' = version, msgs' \subseteq msgs,
         \A m \in Members :
           /\ OffersOf(m)' \subseteq OffersOf(m)
           /\ \/ termId'[m] = termId[m] /\ (Electing(m)' => Electing(m))
              \/ termId'[m] = INVALID_VALUE /\ ~Electing(m)'
  PROVE  Terms'
<1>1. INVALID_VALUE <= version /\ \A t \in Nat : t # INVALID_VALUE
  BY DEF INVALID_VALUE, TypeOK
<1>2. TermsBelow'
  <2>1. \A m \in Members : termId'[m] <= version
    BY <1>1 DEF Terms, TermsBelow
  <2>2. \A m \in Members : \A t \in OffersOf(m)' : t \in Nat /\ t > 0 /\ t <= version
    BY DEF Terms, TermsBelow
  <2>3. \A a \in msgs' : a.termId <= version
    BY DEF Terms, TermsBelow
  <2> QED BY <2>1, <2>2, <2>3 DEF TermsBelow
<1>3. TermsDistinct'
  <2>1. \A m, n \in Members : Electing(m)' /\ Electing(n)' /\ termId'[m] = termId'[n] => m = n
    BY DEF Terms, TermsDistinct
  <2>2. \A m, n \in Members : Electing(n)' => termId'[n] \notin OffersOf(m)'
    BY DEF Terms, TermsDistinct
  <2>3. \A m, n \in Members : \A t \in OffersOf(m)' : t \in OffersOf(n)' => m = n
    BY DEF Terms, TermsDistinct
  <2>4. \A m \in Members, a \in msgs' : a.termId \notin OffersOf(m)'
    BY DEF Terms, TermsDistinct
  <2> QED BY <2>1, <2>2, <2>3, <2>4 DEF TermsDistinct
<1>4. TermsUsedOnce'
  <2>1. \A a, b \in msgs' : a.termId = b.termId => a = b
    BY DEF Terms, TermsUsedOnce
  <2>2. \A m \in Members : Electing(m)' =>
          termId'[m] # INVALID_VALUE /\ \A a \in msgs' : a.termId # termId'[m]
    BY DEF Terms, TermsUsedOnce
  <2> QED BY <2>1, <2>2 DEF TermsUsedOnce
<1> QED
  BY <1>2, <1>3, <1>4 DEF Terms

(* The service increases the version: the new term is above all others. *)
LEMMA TermMade ==
  ASSUME TypeOK, Terms, NEW m \in Members, version' = version + 1,
         OffersOf(m)' \subseteq OffersOf(m) \cup {version + 1},
         \A n \in Members \ {m} : OffersOf(n)' = OffersOf(n),
         \A n \in Members : Electing(n)' => Electing(n),
         UNCHANGED <<termId, msgs>>
  PROVE  Terms'
<1>1. /\ version \in Nat /\ \A n \in Members : termId[n] \in Int
      /\ \A a \in msgs : a.termId \in Int
  BY DEF TypeOK, BecomeLeaderMsgs
<1>2. /\ \A n \in Members : termId[n] # version + 1
      /\ \A n \in Members : version + 1 \notin OffersOf(n)
      /\ \A a \in msgs : a.termId # version + 1
  BY <1>1 DEF Terms, TermsBelow
<1>3. TermsBelow'
  <2>1. \A n \in Members : termId[n] <= version + 1
    BY <1>1 DEF Terms, TermsBelow
  <2>2. \A n \in Members : \A t \in OffersOf(n)' : t \in OffersOf(n) \/ t = version + 1
    OBVIOUS
  <2>3. \A n \in Members : \A t \in OffersOf(n) : t \in Nat /\ t > 0 /\ t <= version + 1
    BY <1>1 DEF Terms, TermsBelow
  <2>4. \A n \in Members : \A t \in OffersOf(n)' : t \in Nat /\ t > 0 /\ t <= version + 1
    BY <1>1, <2>2, <2>3
  <2>5. \A a \in msgs : a.termId <= version + 1
    BY <1>1 DEF Terms, TermsBelow
  <2> QED BY <2>1, <2>4, <2>5 DEF TermsBelow
<1>4. TermsDistinct'
  <2>1. /\ \A n, k \in Members : Electing(n)' /\ Electing(k)' /\ termId[n] = termId[k] => n = k
        /\ \A n, k \in Members : Electing(k)' => termId[k] \notin OffersOf(n)'
    BY <1>2 DEF Terms, TermsDistinct
  <2>2. \A n, k \in Members : \A t \in OffersOf(n)' : t \in OffersOf(k)' => n = k
    BY <1>2 DEF Terms, TermsDistinct
  <2>3. \A n \in Members, a \in msgs : a.termId \notin OffersOf(n)'
    BY <1>2 DEF Terms, TermsDistinct
  <2> QED BY <2>1, <2>2, <2>3 DEF Terms, TermsDistinct
<1>5. TermsUsedOnce'
  BY DEF Terms, TermsUsedOnce
<1> QED
  BY <1>3, <1>4, <1>5 DEF Terms

(* The elector takes the term it was offered. *)
LEMMA TermTaken ==
  ASSUME TypeOK, Terms, NEW m \in Members, NEW t \in OffersOf(m), OffersOf(m)' = {},
         termId' = [termId EXCEPT ![m] = t],
         \A n \in Members \ {m} : OffersOf(n)' = OffersOf(n),
         \A n \in Members \ {m} : Electing(n)' => Electing(n),
         UNCHANGED <<version, msgs>>
  PROVE  Terms'
<1>1. termId'[m] = t /\ \A n \in Members \ {m} : termId'[n] = termId[n]
  BY DEF TypeOK
<1>2. t \in Nat /\ t <= version /\ t # INVALID_VALUE
  BY DEF Terms, TermsBelow, INVALID_VALUE
<1>3. /\ \A n \in Members : Electing(n) => termId[n] # t
      /\ \A n \in Members \ {m} : t \notin OffersOf(n)'
      /\ \A a \in msgs : a.termId # t
  BY DEF Terms, TermsDistinct
<1>4. TermsBelow'
  <2>1. \A n \in Members : termId'[n] <= version
    BY <1>1, <1>2 DEF Terms, TermsBelow
  <2> QED BY <2>1 DEF Terms, TermsBelow
<1>5. TermsDistinct'
  <2>1. \A n, k \in Members : Electing(n)' /\ Electing(k)' /\ termId'[n] = termId'[k] => n = k
    BY <1>1, <1>3 DEF Terms, TermsDistinct
  <2>2. \A n, k \in Members : Electing(k)' => termId'[k] \notin OffersOf(n)'
    BY <1>1, <1>3 DEF Terms, TermsDistinct
  <2> QED BY <2>1, <2>2 DEF Terms, TermsDistinct
<1>6. TermsUsedOnce'
  BY <1>1, <1>2, <1>3 DEF Terms, TermsUsedOnce
<1> QED
  BY <1>4, <1>5, <1>6 DEF Terms

(* The elector tells the leader its term, and has no election after it. *)
LEMMA TermSent ==
  ASSUME TypeOK, Terms, NEW m \in Members, NEW a, Electing(m), ~Electing(m)',
         a.termId = termId[m], msgs' = msgs \cup {a},
         \A n \in Members : OffersOf(n)' \subseteq OffersOf(n),
         \A n \in Members \ {m} : Electing(n)' => Electing(n),
         UNCHANGED <<version, termId>>
  PROVE  Terms'
<1>1. termId[m] # INVALID_VALUE /\ \A b \in msgs : b.termId # termId[m]
  BY DEF Terms, TermsUsedOnce
<1>2. TermsBelow'
  <2>1. \A n \in Members : \A t \in OffersOf(n)' : t \in Nat /\ t > 0 /\ t <= version
    BY DEF Terms, TermsBelow
  <2>2. \A b \in msgs' : b.termId <= version
    BY DEF Terms, TermsBelow
  <2> QED BY <2>1, <2>2 DEF Terms, TermsBelow
<1>3. TermsDistinct'
  <2>1. /\ \A n, k \in Members : Electing(n)' /\ Electing(k)' /\ termId[n] = termId[k] => n = k
        /\ \A n, k \in Members : Electing(k)' => termId[k] \notin OffersOf(n)'
    BY DEF Terms, TermsDistinct
  <2>2. \A n, k \in Members : \A t \in OffersOf(n)' : t \in OffersOf(k)' => n = k
    BY DEF Terms, TermsDistinct
  <2>3. \A n \in Members, b \in msgs' : b.termId \notin OffersOf(n)'
    BY DEF Terms, TermsDistinct
  <2> QED BY <2>1, <2>2, <2>3 DEF Terms, TermsDistinct
<1>4. TermsUsedOnce'
  <2>1. \A b, c \in msgs' : b.termId = c.termId => b = c
    BY <1>1 DEF Terms, TermsUsedOnce
  <2>2. \A n \in Members : Electing(n)' =>
          termId[n] # INVALID_VALUE /\ \A b \in msgs' : b.termId # termId[n]
    BY <1>1 DEF Terms, TermsUsedOnce, TermsDistinct
  <2> QED BY <2>1, <2>2 DEF Terms, TermsUsedOnce
<1> QED
  BY <1>2, <1>3, <1>4 DEF Terms

(* A step of one member leaves the terms of the others alone. *)
LEMMA OthersTerms ==
  ASSUME NEW m \in Members,
         \A n \in Members \ {m} : /\ req'[n] = req[n] /\ resp'[n] = resp[n]
                                  /\ state'[n] = state[n] /\ votes'[n] = votes[n]
  PROVE  \A n \in Members \ {m} : OffersOf(n)' = OffersOf(n) /\ (Electing(n)' <=> Electing(n))
BY DEF OffersOf, Electing

(* A quiet step of one member. *)
LEMMA QuietMember ==
  ASSUME TypeOK, Terms, NEW m \in Members, version' = version, msgs' \subseteq msgs,
         OffersOf(m)' \subseteq OffersOf(m),
         \/ termId'[m] = termId[m] /\ (Electing(m)' => Electing(m))
         \/ termId'[m] = INVALID_VALUE /\ ~Electing(m)',
         \A n \in Members \ {m} : termId'[n] = termId[n],
         \A n \in Members \ {m} : /\ req'[n] = req[n] /\ resp'[n] = resp[n]
                                  /\ state'[n] = state[n] /\ votes'[n] = votes[n]
  PROVE  Terms'
BY OthersTerms, QuietStep

(* The end of a process ends its election. *)
LEMMA DieTerms ==
  ASSUME TypeOK, Terms, NEW m \in Members, Die(m)
  PROVE  Terms'
<1>1. /\ req'[m] = <<>> /\ resp'[m] = <<>> /\ termId'[m] = INVALID_VALUE
      /\ state'[m] = "UNINITIALIZED" /\ votes'[m] = Idle
      /\ version' = version /\ msgs' = msgs
  BY DEF Die, TypeOK, zkVars
<1>2. OffersOf(m)' = {} /\ ~Electing(m)'
  BY <1>1 DEF OffersOf, Offers, Electing, HasOpen, Voting
<1>3. \A n \in Members \ {m} : /\ req'[n] = req[n] /\ resp'[n] = resp[n]
                               /\ state'[n] = state[n] /\ votes'[n] = votes[n]
                               /\ termId'[n] = termId[n]
  BY DEF Die, TypeOK
<1> QED
  BY <1>1, <1>2, <1>3, QuietMember

(* Every step keeps the terms apart. *)
LEMMA NextTerms ==
  ASSUME TypeOK, Chains, LockClaims, Terms, [Next]_vars
  PROVE  Terms'
<1> USE ViewType
<1>1. ASSUME UNCHANGED <<req, resp, state, votes, termId, version>>, msgs' \subseteq msgs
      PROVE  Terms'
  BY <1>1, QuietStep DEF OffersOf, Electing
<1>2. ASSUME NEW m \in Members, ServeInitChildren(m) \/ ServeCreateMember(m) PROVE Terms'
  <2>1. /\ req[m] # <<>> /\ req' = [req EXCEPT ![m] = Tail(@)]
        /\ UNCHANGED <<resp, state, votes, termId, version, msgs>>
    BY <1>2 DEF ServeInitChildren, ServeCreateMember, Serves, procVars, zkVars
  <2>2. /\ req'[m] = Tail(req[m])
        /\ \A n \in Members \ {m} : req'[n] = req[n]
    BY <2>1 DEF TypeOK
  <2>3. HasOpen(req'[m]) => HasOpen(req[m])
    BY <2>1, <2>2, TailShrinks, QueueTypes, ShrunkOffers
  <2>4. OffersOf(m)' = OffersOf(m) /\ (Electing(m)' => Electing(m))
    BY <2>1, <2>3 DEF OffersOf, Electing
  <2> QED BY <2>1, <2>2, <2>4, QuietMember
(* The service answers a request. *)
<1>3. ASSUME NEW m \in Members, NEW ops, Serves(m, ops),
             NEW isOk \in BOOLEAN, NEW view \in Views, NEW ver \in Nat, Reply(m, isOk, view, ver),
             UNCHANGED <<state, votes>>
      PROVE  /\ OffersOf(m)' \subseteq OffersOf(m) \cup {ver}
             /\ "increaseTerm" \notin ops => OffersOf(m)' \subseteq OffersOf(m)
             /\ Electing(m)' => Electing(m)
             /\ \A n \in Members \ {m} : /\ req'[n] = req[n] /\ resp'[n] = resp[n]
                                         /\ state'[n] = state[n] /\ votes'[n] = votes[n]
  <2> DEFINE r == Result(Head(req[m]), isOk, view, ver)
  <2>1. /\ Shrunk(req'[m], req[m]) /\ Grown(resp'[m], resp[m], r)
        /\ r.op = req[m][1].op /\ req[m][1].op \in ops
        /\ state'[m] = state[m] /\ votes'[m] = votes[m]
        /\ \A n \in Members \ {m} : /\ req'[n] = req[n] /\ resp'[n] = resp[n]
                                    /\ state'[n] = state[n] /\ votes'[n] = votes[n]
    BY <1>3, ServedQueues
  <2>2. r.ver = ver
    BY DEF Result
  <2> HIDE DEF r
  <2>3. /\ OffersOf(m)' \subseteq OffersOf(m) \cup {ver}
        /\ "increaseTerm" \notin ops => OffersOf(m)' \subseteq OffersOf(m)
    BY <2>1, <2>2, GrownOffers DEF OffersOf
  <2>4. HasOpen(resp'[m]) => HasOpen(resp[m]) \/ HasOpen(req[m])
    BY <2>1, GrownOffers, ShrunkOffers DEF IsOpen
  <2>5. Electing(m)' => Electing(m)
    BY <2>1, <2>4, ShrunkOffers DEF Electing
  <2> QED BY <2>1, <2>3, <2>5
<1>4. ASSUME NEW m \in Members, NEW ops, Serves(m, ops), "increaseTerm" \notin ops,
             NEW isOk \in BOOLEAN, NEW view \in Views, NEW ver \in Nat, Reply(m, isOk, view, ver),
             UNCHANGED <<state, votes, termId, version, msgs>>
      PROVE  Terms'
  BY <1>3, <1>4, QuietMember
<1>5. ASSUME NEW m \in Members, ServeElectorChildren(m) PROVE Terms'
  <2>1. /\ Serves(m, {"electorChildren"}) /\ Reply(m, TRUE, Children(m), 0)
        /\ UNCHANGED <<state, votes, termId, version, msgs>>
    BY <1>5 DEF ServeElectorChildren, procVars, zkVars
  <2>2. "increaseTerm" \notin {"electorChildren"}
    OBVIOUS
  <2> QED BY <2>1, <2>2, <1>4
<1>6. ASSUME NEW m \in Members, ServeAcquireLock(m) PROVE Terms'
  <2>1. /\ Serves(m, {"acquireElector", "acquireLeader"})
        /\ UNCHANGED <<state, votes, termId, version, msgs>>
        /\ Reply(m, TRUE, NoView, 0) \/ Reply(m, FALSE, NoView, 0)
    BY <1>6 DEF ServeAcquireLock, procVars
  <2>2. "increaseTerm" \notin {"acquireElector", "acquireLeader"}
    OBVIOUS
  <2> QED BY <2>1, <2>2, <1>4
<1>7. ASSUME NEW m \in Members, ServeRemoveLock(m) PROVE Terms'
  <2>1. /\ Serves(m, {"removeLock"}) /\ Reply(m, lock # NoOwner, NoView, 0)
        /\ UNCHANGED <<state, votes, termId, version, msgs>>
    BY <1>7 DEF ServeRemoveLock, procVars
  <2>2. "increaseTerm" \notin {"removeLock"} /\ (lock # NoOwner) \in BOOLEAN
    OBVIOUS
  <2> QED BY <2>1, <2>2, <1>4
<1>8. ASSUME NEW m \in Members, ServeIncreaseTerm(m) PROVE Terms'
  <2>1. /\ Serves(m, {"increaseTerm"}) /\ Reply(m, TRUE, NoView, version + 1)
        /\ version' = version + 1
        /\ UNCHANGED <<state, votes, termId, msgs>>
    BY <1>8 DEF ServeIncreaseTerm, procVars
  <2>2. version + 1 \in Nat
    BY DEF TypeOK
  <2>3. /\ OffersOf(m)' \subseteq OffersOf(m) \cup {version + 1}
        /\ Electing(m)' => Electing(m)
        /\ \A n \in Members \ {m} : /\ req'[n] = req[n] /\ resp'[n] = resp[n]
                                    /\ state'[n] = state[n] /\ votes'[n] = votes[n]
    BY <2>1, <2>2, <1>3
  <2>4. \A n \in Members \ {m} : OffersOf(n)' = OffersOf(n) /\ (Electing(n)' <=> Electing(n))
    BY <2>3, OthersTerms
  <2> QED BY <2>1, <2>3, <2>4, TermMade
<1>9. ASSUME NEW m \in Members, ServeWatchCb(m) PROVE Terms'
  <2> DEFINE r == Result([op |-> "watchChildren", who |-> {}], TRUE, Children(m), 0)
  <2>1. /\ resp' = [resp EXCEPT ![m] = Append(@, r)]
        /\ UNCHANGED <<req, state, votes, termId, version, msgs>>
    BY <1>9 DEF ServeWatchCb, procVars, zkVars
  <2>2. r \in Results /\ r.op = "watchChildren"
    BY ResultType DEF Result
  <2> HIDE DEF r
  <2>3. /\ resp'[m] = Append(resp[m], r)
        /\ \A n \in Members \ {m} : resp'[n] = resp[n]
    BY <2>1 DEF TypeOK
  <2>4. Grown(resp'[m], resp[m], r)
    BY <2>2, <2>3, AppendGrows, QueueTypes
  <2>5. OffersOf(m)' \subseteq OffersOf(m) /\ (HasOpen(resp'[m]) => HasOpen(resp[m]))
    BY <2>2, <2>4, GrownOffers DEF OffersOf, IsOpen
  <2>6. Electing(m)' => Electing(m)
    BY <2>1, <2>5 DEF Electing
  <2> QED BY <2>1, <2>3, <2>5, <2>6, QuietMember
<1>10. ASSUME NEW s \in alive, ExpireSession(s) PROVE Terms'
  BY <1>10, <1>1 DEF ExpireSession, procVars
<1>11. ASSUME NEW m \in Members, StartMember(m) PROVE Terms'
  <2>1. resp[m] = <<>> /\ votes[m] = Idle
    BY <1>11 DEF StartMember, LockClaims, DownOf
  <2>2. /\ req'[m] = <<Request("initChildren", {}), Request("createMember", {})>>
        /\ state'[m] = "FOLLOWER_WAIT_TO_JOIN_GROUP"
        /\ UNCHANGED <<resp, votes, termId, version, msgs>>
        /\ \A n \in Members \ {m} : req'[n] = req[n] /\ state'[n] = state[n]
    BY <1>11 DEF StartMember, TypeOK
  <2>3. ~HasOpen(req'[m]) /\ ~HasOpen(resp'[m])
    BY <2>1, <2>2 DEF HasOpen, IsOpen, Request
  <2>4. OffersOf(m)' = OffersOf(m) /\ ~Electing(m)'
    BY <2>1, <2>2, <2>3 DEF OffersOf, Electing, Voting
  <2> QED BY <2>2, <2>4, QuietMember
<1>12. ASSUME NEW m \in Members, Crash(m) \/ AbortOnExpiry(m) PROVE Terms'
  BY <1>12, DieTerms DEF Crash, AbortOnExpiry
<1>13. ASSUME NEW m \in Members, GroupWatchTimer(m) \/ CoolDown(m) PROVE Terms'
  BY <1>13, <1>1 DEF GroupWatchTimer, CoolDown, netVars, zkVars
<1>14. ASSUME NEW e \in Members, NEW m \in Members,
              handleGetMemberStateMsg(e, m) \/ GetMemberStateFails(e, m)
       PROVE  Terms'
  <2>1. /\ votes[e][m] = "pending"
        /\ UNCHANGED <<req, resp, state, termId, version, msgs>>
        /\ \A n \in Members \ {e} : votes'[n] = votes[n]
    BY <1>14 DEF handleGetMemberStateMsg, GetMemberStateFails, netVars, zkVars, TypeOK
  <2>2. Electing(e)
    BY <2>1 DEF Idle, Electing, Voting
  <2>3. OffersOf(e)' = OffersOf(e)
    BY <2>1 DEF OffersOf
  <2> QED BY <2>1, <2>2, <2>3, QuietMember
<1>15. ASSUME NEW e \in Members, handleElectionResponse(e) PROVE Terms'
  <2>1. /\ votes[e][e] \in {"ok", "fail"}
        /\ votes' = [votes EXCEPT ![e] = Idle]
        /\ UNCHANGED <<resp, termId, version, msgs>>
    BY <1>15 DEF handleElectionResponse, zkVars
  <2>2. \A n \in Members \ {e} : /\ req'[n] = req[n] /\ state'[n] = state[n]
                                 /\ votes'[n] = votes[n]
    BY <1>15 DEF handleElectionResponse, TypeOK
  <2>3. Electing(e)
    BY <2>1 DEF Idle, Electing, Voting
  <2>4. OffersOf(e)' = OffersOf(e)
    BY <2>1 DEF OffersOf
  <2> QED BY <2>1, <2>2, <2>3, <2>4, QuietMember
<1>16. ASSUME NEW msg \in msgs, handleBecomeLeaderMsg(msg) PROVE Terms'
  <2> DEFINE m == msg.to
             r == Request("acquireLeader", msg.functionalMembers)
  <2>1. m \in Members /\ r \in Requests
    BY RequestType DEF TypeOK, BecomeLeaderMsgs, Ops
  <2>2. ~IsOpen(r)
    BY DEF Request, IsOpen
  <2>3. /\ req' = req \/ req' = [req EXCEPT ![m] = Append(@, r)]
        /\ UNCHANGED <<state, votes, resp, termId, version>>
        /\ msgs' \subseteq msgs
    BY <1>16 DEF handleBecomeLeaderMsg, procVars, zkVars
  <2> HIDE DEF r, m
  <2>4. CASE req' = req
    BY <2>3, <2>4, <1>1
  <2>5. CASE req' = [req EXCEPT ![m] = Append(@, r)]
    <3>1. /\ Grown(req'[m], req[m], r)
          /\ \A n \in Members \ {m} : req'[n] = req[n]
      BY <2>1, <2>5, IssuedQueue
    <3>2. OffersOf(m)' = OffersOf(m) /\ (Electing(m)' => Electing(m))
      BY <2>2, <2>3, <3>1, GrownOffers DEF OffersOf, Electing
    <3> QED BY <2>1, <2>3, <3>1, <3>2, QuietMember
  <2> QED BY <2>3, <2>4, <2>5
<1>17. ASSUME NEW msg \in msgs, BecomeLeaderMsgLost(msg) PROVE Terms'
  BY <1>17, <1>1 DEF BecomeLeaderMsgLost, procVars, zkVars
(* The continuations. *)
<1>18. ASSUME NEW m \in Members, handleGroupWatchEvent(m) PROVE Terms'
  <2> DEFINE r == Request("acquireElector", {})
  <2>1. r \in Requests /\ ~IsOpen(r)
    BY RequestType DEF Ops, Request, IsOpen
  <2>2. /\ \/ /\ state' = [state EXCEPT ![m] = "EC_ACQUIRE_LOCK"]
              /\ req' = [req EXCEPT ![m] = Append(@, r)]
              /\ votes' = votes
           \/ /\ state[m] = "EC_WAITING_FOR_QUORUM"
              /\ state' = [state EXCEPT ![m] = "EC_ELECTION_IN_PROGRESS"]
              /\ votes' = [votes EXCEPT ![m] = Asked]
              /\ req' = req
           \/ UNCHANGED <<state, votes, req>>
        /\ UNCHANGED <<termId, version, msgs>>
    BY <1>18 DEF handleGroupWatchEvent, Issue, zkVars
  <2>3. Shrunk(resp'[m], resp[m]) /\ \A n \in Members \ {m} : resp'[n] = resp[n]
    BY <1>18, HandledQueue DEF handleGroupWatchEvent
  <2> HIDE DEF r
  <2>4. \A n \in Members \ {m} : /\ req'[n] = req[n] /\ state'[n] = state[n]
                                 /\ votes'[n] = votes[n]
    BY <2>2 DEF TypeOK
  <2>5. \/ state'[m] = "EC_ACQUIRE_LOCK" /\ Grown(req'[m], req[m], r) /\ votes'[m] = votes[m]
        \/ state[m] = "EC_WAITING_FOR_QUORUM"
        \/ state'[m] = state[m] /\ votes'[m] = votes[m] /\ req'[m] = req[m]
    BY <2>1, <2>2, IssuedQueue DEF TypeOK
  <2>6. OffersOf(m)' \subseteq OffersOf(m) /\ (HasOpen(resp'[m]) => HasOpen(resp[m]))
    BY <2>3, ShrunkOffers DEF OffersOf
  <2>7. Electing(m)' => Electing(m)
    BY <2>1, <2>5, <2>6, GrownOffers DEF Electing, Voting
  <2> QED BY <2>2, <2>3, <2>4, <2>6, <2>7, QuietMember
<1>19. ASSUME NEW m \in Members, AcquireElectorResult(m) PROVE Terms'
  <2>1. CASE Head(resp[m]).ok
    <3> DEFINE r == Request("increaseTerm", {})
    <3>1. r \in Requests /\ ~IsOpen(r)
      BY RequestType DEF Ops, Request, IsOpen
    <3>2. /\ Handles(m, "acquireElector") /\ Pop(m) /\ req' = [req EXCEPT ![m] = Append(@, r)]
          /\ UNCHANGED <<state, votes, termId, version, msgs>>
      BY <1>19, <2>1 DEF AcquireElectorResult, Issue, procVars, zkVars
    <3> HIDE DEF r
    <3>3. Shrunk(resp'[m], resp[m]) /\ \A n \in Members \ {m} : resp'[n] = resp[n]
      BY <3>2, HandledQueue
    <3>4. Grown(req'[m], req[m], r) /\ \A n \in Members \ {m} : req'[n] = req[n]
      BY <3>1, <3>2, IssuedQueue
    <3>5. OffersOf(m)' \subseteq OffersOf(m) /\ (Electing(m)' => Electing(m))
      BY <3>1, <3>2, <3>3, <3>4, GrownOffers, ShrunkOffers DEF OffersOf, Electing
    <3> QED BY <3>2, <3>3, <3>4, <3>5, QuietMember
  <2>2. CASE ~Head(resp[m]).ok
    BY <1>19, <2>2, DieTerms DEF AcquireElectorResult
  <2> QED BY <2>1, <2>2
<1>20. ASSUME NEW m \in Members, IncreaseTermResult(m) PROVE Terms'
  <2>1. /\ Handles(m, "increaseTerm") /\ Pop(m) /\ Issue(m, "electorChildren")
        /\ termId' = [termId EXCEPT ![m] = Head(resp[m]).ver]
        /\ UNCHANGED <<state, votes, version, msgs>>
    BY <1>20 DEF IncreaseTermResult, zkVars
  <2>2. /\ Shrunk(resp'[m], resp[m]) /\ resp[m][1].op = "increaseTerm"
        /\ Head(resp[m]) = resp[m][1]
        /\ \A n \in Members \ {m} : resp'[n] = resp[n]
    BY <2>1, HandledQueue
  <2>3. Head(resp[m]).ver \in OffersOf(m)
    BY <2>2, ShrunkOffers DEF OffersOf
  <2>4. NoToken(resp'[m])
    BY <2>2, ShrunkTokens DEF IsToken, Chains, ChainOf, Chain, Tokens
  <2>5. OffersOf(m)' = {}
    BY <2>4, NoTokenOffers DEF OffersOf
  <2>6. \A n \in Members \ {m} : req'[n] = req[n]
    BY <2>1 DEF Issue, TypeOK
  <2>7. \A n \in Members \ {m} : OffersOf(n)' = OffersOf(n) /\ (Electing(n)' <=> Electing(n))
    BY <2>1, <2>2, <2>6, OthersTerms
  <2> QED BY <2>1, <2>3, <2>5, <2>7, TermTaken
<1>21. ASSUME NEW m \in Members, ElectorChildrenResult(m) PROVE Terms'
  <2>1. /\ Handles(m, "electorChildren") /\ Pop(m)
        /\ UNCHANGED <<req, termId, version, msgs>>
        /\ \A n \in Members \ {m} : state'[n] = state[n] /\ votes'[n] = votes[n]
    BY <1>21 DEF ElectorChildrenResult, TypeOK, zkVars
  <2>2. /\ Shrunk(resp'[m], resp[m]) /\ IsOpen(resp[m][1])
        /\ \A n \in Members \ {m} : resp'[n] = resp[n]
    BY <2>1, HandledQueue DEF IsOpen
  <2>3. OffersOf(m)' \subseteq OffersOf(m) /\ Electing(m)
    BY <2>2, ShrunkOffers DEF OffersOf, Electing
  <2> QED BY <2>1, <2>2, <2>3, QuietMember
<1>22. ASSUME NEW m \in Members, RemoveLockResult(m) PROVE Terms'
  <2>1. CASE Head(resp[m]).ok
    <3>1. /\ Handles(m, "removeLock") /\ Pop(m)
          /\ state' = [state EXCEPT ![m] = "FOLLOWER_WAIT_TO_JOIN_GROUP"]
          /\ UNCHANGED <<votes, req, termId, version>>
      BY <1>22, <2>1 DEF RemoveLockResult, zkVars
    <3>2. PICK a : a.termId = termId[m] /\ msgs' = msgs \cup {a}
      <4>1. PICK first \in Head(resp[m]).who :
              msgs' = msgs \cup {[to |-> first, termId |-> termId[m],
                                  functionalMembers |-> Head(resp[m]).who]}
        BY <1>22, <2>1 DEF RemoveLockResult
      <4> QED BY <4>1
    <3>3. /\ Shrunk(resp'[m], resp[m]) /\ resp[m][1].op = "removeLock"
          /\ \A n \in Members \ {m} : resp'[n] = resp[n]
      BY <3>1, HandledQueue
    <3>4. /\ state'[m] = "FOLLOWER_WAIT_TO_JOIN_GROUP"
          /\ \A n \in Members \ {m} : state'[n] = state[n]
      BY <3>1 DEF TypeOK
    <3>5. NoToken(req[m]) /\ NoToken(resp'[m]) /\ votes[m] = Idle
      BY <3>3, ElectorStepsBack DEF Chains, ChainOf
    <3>6. ~Electing(m)'
      BY <3>1, <3>4, <3>5, NoTokenOffers DEF Electing, Voting
    <3>7. Electing(m) /\ OffersOf(m)' \subseteq OffersOf(m)
      BY <3>3, ShrunkOffers DEF Electing, IsOpen, OffersOf
    <3>8. \A n \in Members \ {m} : OffersOf(n)' = OffersOf(n) /\ (Electing(n)' <=> Electing(n))
      BY <3>1, <3>3, <3>4, OthersTerms
    <3>9. \A n \in Members : OffersOf(n)' \subseteq OffersOf(n)
      BY <3>7, <3>8
    <3> QED BY <3>1, <3>2, <3>6, <3>7, <3>8, <3>9, TermSent
  <2>2. CASE ~Head(resp[m]).ok
    BY <1>22, <2>2, DieTerms DEF RemoveLockResult
  <2> QED BY <2>1, <2>2
<1>23. ASSUME NEW m \in Members, AcquireLeaderResult(m) PROVE Terms'
  <2>1. CASE Head(resp[m]).ok
    <3>1. /\ Handles(m, "acquireLeader") /\ Pop(m)
          /\ state'[m] # "EC_WAITING_FOR_QUORUM"
          /\ \A n \in Members \ {m} : state'[n] = state[n]
          /\ UNCHANGED <<votes, req, termId, version, msgs>>
      BY <1>23, <2>1 DEF AcquireLeaderResult, TypeOK, zkVars
    <3>2. /\ Shrunk(resp'[m], resp[m])
          /\ \A n \in Members \ {m} : resp'[n] = resp[n]
      BY <3>1, HandledQueue
    <3>3. OffersOf(m)' \subseteq OffersOf(m) /\ (Electing(m)' => Electing(m))
      BY <3>1, <3>2, ShrunkOffers DEF OffersOf, Electing, Voting
    <3> QED BY <3>1, <3>2, <3>3, QuietMember
  <2>2. CASE ~Head(resp[m]).ok
    BY <1>23, <2>2, DieTerms DEF AcquireLeaderResult
  <2> QED BY <2>1, <2>2
<1>24. CASE UNCHANGED vars
  BY <1>24, <1>1 DEF vars, procVars, netVars, zkVars
<1> QED
  BY <1>2, <1>5, <1>6, <1>7, <1>8, <1>9, <1>10, <1>11, <1>12, <1>13, <1>14, <1>15,
     <1>16, <1>17, <1>18, <1>19, <1>20, <1>21, <1>22, <1>23, <1>24
     DEF Next, Serve, Continue

(* Before any process runs there is no term. *)
LEMMA InitTerms == Init => Terms
<1> SUFFICES ASSUME Init PROVE Terms
  OBVIOUS
<1>1. /\ \A m \in Members : /\ resp[m] = <<>> /\ req[m] = <<>> /\ termId[m] = INVALID_VALUE
                            /\ state[m] = "UNINITIALIZED" /\ votes[m] = Idle
      /\ msgs = {} /\ version = 0
  BY DEF Init
<1>2. \A m \in Members : OffersOf(m) = {} /\ ~Electing(m)
  BY <1>1 DEF OffersOf, Offers, Electing, HasOpen, Voting
<1> QED
  BY <1>1, <1>2 DEF Terms, TermsBelow, TermsDistinct, TermsUsedOnce, INVALID_VALUE

(* Every term is below the version of groupKey_ and in one place at a time. *)
THEOREM TermsCorrect == Spec => []Terms
<1>1. TypeOK /\ Chains /\ LockClaims /\ Terms /\ [Next]_vars => Terms'
  BY NextTerms
<1> QED
  BY <1>1, InitTerms, TypeCorrect, ClaimsCorrect, ChainsCorrect, PTL DEF Spec

(* For any group, quorum and order of events: an open election shares its term with
   no other open election and with no BecomeLeaderMsg in flight, and no two of those
   share one.  The version of groupKey_ numbers the elections. *)
THEOREM TermsUnique == Spec => []UniqueTerms
<1>1. Terms => UniqueTerms
  BY DEF Terms, TermsDistinct, TermsUsedOnce, UniqueTerms
<1> QED
  BY <1>1, TermsCorrect, PTL
=============================================================================
