------------------------------- MODULE PBGroup -------------------------------
(***************************************************************************)
(* Replication in one primary/backup group: the leader's view of its peers *)
(* and its writes (infra/PBMember.cpp, PBMember.tcc), the journal and the  *)
(* database of every member and the protocol by which a member joins the   *)
(* group again (volumeserver/VolumeServer.cpp, infra/Journal.cpp).         *)
(*                                                                         *)
(* The election itself is PBElection; here ElectLeader is one step with    *)
(* the election's effect.  A member runs on one event base, so each        *)
(* handler is one atomic action.  Requests to a peer arrive in any order:  *)
(* ConnectionItem::update closes the channel and opens another whenever it *)
(* is called, and a request on the old one may already be at the peer.     *)
(***************************************************************************)
EXTENDS Integers, Sequences, FiniteSets

CONSTANTS
  Members,       \* memberIds_, as numbers: the list order is the number order
  Quorum,        \* quorum_
  Writes,        \* the clients' writes (bound: each is issued once)
  Versions,      \* what version_ may hold: PBMember never initializes it
  MaxElections,  \* bound: leaders elected
  MaxCrashes,    \* bound: processes killed from outside
  MaxJoins,      \* bound: GroupInfoUpdateMsgs that make a member synchronize
  RpcFaults,     \* may a message between running members fail?
  DbFaults       \* may a database write fail?

INVALID_VALUE == -1

ASSUME MembersAssumption == IsFiniteSet(Members) /\ Members \subseteq Nat
ASSUME QuorumAssumption == Quorum \in Nat \ {0}
ASSUME VersionsAssumption == Versions \subseteq Int /\ 0 \in Versions
ASSUME BoundsAssumption ==
  /\ MaxElections \in Nat
  /\ MaxCrashes \in Nat
  /\ MaxJoins \in Nat
  /\ {RpcFaults, DbFaults} \subseteq BOOLEAN

VARIABLES
  \* The member processes.
  crashes,   \* processes killed so far
  joins,     \* runs of the sync protocol so far
  up,        \* is the process running?
  state,     \* state_
  termId,    \* termId_
  leaderId,  \* leaderId_
  version,   \* version_
  sync,      \* where runSyncProtocol is
  journal,   \* journal_, in memory
  db,        \* db_, on disk: the writes applied to it
  \* The leader's context.
  peers,     \* leaderCtx_->peers
  lastId,    \* leaderCtx_->commitId (opId always has the same value)
  writes,    \* the WriteCtx of each write
  out,       \* each write's request to each peer, as the leader waits for it
  \* Between the members.
  inbox,     \* requests to peers that may still be handled
  adds,      \* AddToGroupMsgs in flight
  term       \* version of groupKey_: elections so far

memberVars == <<crashes, joins, up, state, termId, leaderId, version, sync, journal, db>>
leaderVars == <<peers, lastId, writes, out>>
netVars    == <<inbox, adds, term>>
vars       == <<memberVars, leaderVars, netVars>>

-----------------------------------------------------------------------------
(* Types. *)

FollowerStates == {"FOLLOWER_WAIT_TO_JOIN_GROUP", "FOLLOWER_SYNCING", "FOLLOWER_FUNCTIONAL"}
LeaderStates   == {"LEADER_WAITING_FOR_QUORUM", "LEADER_FUNCTIONAL"}
MemberStates   == {"UNINITIALIZED"} \cup FollowerStates \cup LeaderStates

isFollowerState(m) == state[m] \in FollowerStates
isLeaderState(m)   == state[m] \in LeaderStates

PeerInfo == [state : FollowerStates, version : Int]
NoPeer   == [state |-> "FOLLOWER_WAIT_TO_JOIN_GROUP", version |-> INVALID_VALUE]
NoPeers  == [p \in Members |-> NoPeer]

Entries == [id : Int, w : Writes]

(* reply is what the client knows: "unused" before it writes, "none" until the
   promise is fulfilled, "lost" if the leader's process, and with it the caller
   of updateBlobMeta, ended before. *)
WriteCtx == [by : Members \cup {INVALID_VALUE}, id : Int, nAcked : Nat, nSuccess : Nat, nPeers : Nat,
             reply : {"unused", "none", "ok", "error", "lost"}]
NoWrite  == [by |-> INVALID_VALUE, id |-> INVALID_VALUE, nAcked |-> 0, nSuccess |-> 0,
             nPeers |-> 0, reply |-> "unused"]

(* A request the leader waits for: the peer's version when it was sent
   (peerPrior), and whether the peer has answered. *)
Slots  == [st : {"idle", "sent", "applied", "rejected"}, prior : Int]
NoSlot == [st |-> "idle", prior |-> INVALID_VALUE]
NoOut  == [p \in Members |-> NoSlot]

AddToGroupMsgs == [from : Members, to : Members, termId : Int, version : Int,
                   state : FollowerStates, awaited : BOOLEAN]

-----------------------------------------------------------------------------
(* Journal. *)

addEntryOk(j, id) == j # <<>> => j[Len(j)].id + 1 = id

-----------------------------------------------------------------------------
(* The leader's peers. *)

FunctionalPeers(l) == {p \in Members \ {l} : peers[l][p].state = "FOLLOWER_FUNCTIONAL"}

getWritablePeers(l) ==
  {p \in Members \ {l} : peers[l][p].state \in {"FOLLOWER_FUNCTIONAL", "FOLLOWER_SYNCING"}}

(* May a peer go to the target state with the incoming version? *)
Accepts(peer, incoming, target) ==
  CASE target = "FOLLOWER_WAIT_TO_JOIN_GROUP" ->
         peer.state # "FOLLOWER_WAIT_TO_JOIN_GROUP" /\ incoming >= peer.version
    [] target = "FOLLOWER_SYNCING" ->
         \/ incoming = peer.version /\ peer.state = "FOLLOWER_WAIT_TO_JOIN_GROUP"
         \/ incoming > peer.version
    [] target = "FOLLOWER_FUNCTIONAL" ->
         \/ incoming = peer.version /\ peer.state # "FOLLOWER_FUNCTIONAL"
         \/ incoming > peer.version

(* Mutant: the group's state is not adjusted. *)
changePeerStateOnly(l, p, incoming, target) ==
  /\ peers' = IF p # l /\ Accepts(peers[l][p], incoming, target)
              THEN [peers EXCEPT ![l][p] = [state |-> target, version |-> incoming]]
              ELSE peers
  /\ state' = state

(* Adjust the peer, count again, adjust the group.  The leader itself is not
   among its peers.  The DCHECK at the end (PBMember.cpp:604) is QuorumStateExact
   for a member in a leader state; one that a completing sync turned into a follower
   would fail it in a debug build and goes on here. *)
changePeerState(l, p, incoming, target) ==
  /\ peers' = IF p # l /\ Accepts(peers[l][p], incoming, target)
              THEN [peers EXCEPT ![l][p] = [state |-> target, version |-> incoming]]
              ELSE peers
  /\ LET nFunctional == Cardinality(FunctionalPeers(l)')
     IN  state' = IF p = l THEN state ELSE [state EXCEPT ![l] =
           IF @ = "LEADER_FUNCTIONAL" /\ nFunctional < Quorum - 1
           THEN "LEADER_WAITING_FOR_QUORUM"
           ELSE IF @ = "LEADER_WAITING_FOR_QUORUM" /\ nFunctional >= Quorum - 1
           THEN "LEADER_FUNCTIONAL" ELSE @]

-----------------------------------------------------------------------------
(* Processes. *)

Init ==
  /\ crashes = 0
  /\ joins = 0
  /\ up = [m \in Members |-> TRUE]
  /\ state = [m \in Members |-> "FOLLOWER_WAIT_TO_JOIN_GROUP"]
  /\ termId = [m \in Members |-> INVALID_VALUE]
  /\ leaderId = [m \in Members |-> INVALID_VALUE]
  /\ version \in [Members -> Versions]
  /\ sync = [m \in Members |-> "idle"]
  /\ journal = [m \in Members |-> <<>>]
  /\ db = [m \in Members |-> {}]
  /\ peers = [m \in Members |-> NoPeers]
  /\ lastId = [m \in Members |-> INVALID_VALUE]
  /\ writes = [w \in Writes |-> NoWrite]
  /\ out = [w \in Writes |-> NoOut]
  /\ inbox = {}
  /\ adds = {}
  /\ term = 0

(* The process of m ends: the database stays, the journal does not, requests it
   has not handled are lost and answers to its own find nobody. *)
Die(m) ==
  /\ up' = [up EXCEPT ![m] = FALSE]
  /\ state' = [state EXCEPT ![m] = "UNINITIALIZED"]
  /\ termId' = [termId EXCEPT ![m] = INVALID_VALUE]
  /\ leaderId' = [leaderId EXCEPT ![m] = INVALID_VALUE]
  /\ sync' = [sync EXCEPT ![m] = "idle"]
  /\ journal' = [journal EXCEPT ![m] = <<>>]
  /\ peers' = [peers EXCEPT ![m] = NoPeers]
  /\ lastId' = [lastId EXCEPT ![m] = INVALID_VALUE]
  /\ out' = [w \in Writes |-> IF writes[w].by = m THEN NoOut ELSE out[w]]
  /\ writes' = [w \in Writes |->
       IF writes[w].by = m /\ writes[w].reply = "none"
       THEN [writes[w] EXCEPT !.reply = "lost"] ELSE writes[w]]
  /\ inbox' = {r \in inbox : r[2] # m}
  /\ UNCHANGED <<joins, version, db, term>>

Orphaned(msgs, m) == {[a EXCEPT !.awaited = @ /\ a.from # m] : a \in msgs}

Crash(m) ==
  /\ up[m]
  /\ crashes < MaxCrashes
  /\ crashes' = crashes + 1
  /\ adds' = Orphaned(adds, m)
  /\ Die(m)

(* Constructor and init().  version_ holds whatever was in memory. *)
Restart(m) ==
  /\ ~up[m]
  /\ up' = [up EXCEPT ![m] = TRUE]
  /\ state' = [state EXCEPT ![m] = "FOLLOWER_WAIT_TO_JOIN_GROUP"]
  /\ \E v \in Versions : version' = [version EXCEPT ![m] = v]
  /\ UNCHANGED <<crashes, joins, termId, leaderId, sync, journal, db, leaderVars, netVars>>

(* Only a leader sets leaderId_ to itself.  It holds LOCK while its process runs. *)
HoldsLock(m) == up[m] /\ leaderId[m] = m

(* An election run by e ends: the members S answered and the first of them takes
   LOCK, which nobody holds, and leads.  It counts the members of S as functional,
   whatever state they reported, and numbers its writes from 0. *)
ElectLeader(e, S) ==
  /\ term < MaxElections
  /\ \A m \in Members : ~HoldsLock(m)
  /\ up[e] /\ state[e] = "FOLLOWER_WAIT_TO_JOIN_GROUP"
  /\ \A m \in S : up[m]
  /\ Cardinality(S) >= Quorum
  /\ term' = term + 1
  /\ termId' = [termId EXCEPT ![e] = term + 1]
  /\ \E l \in S :
       /\ \A m \in S : l <= m
       /\ leaderId' = [leaderId EXCEPT ![l] = l]
       /\ lastId' = [lastId EXCEPT ![l] = INVALID_VALUE]
       /\ peers' = [peers EXCEPT ![l] = [p \in Members |->
            IF p \in S \ {l} THEN [state |-> "FOLLOWER_FUNCTIONAL", version |-> 0] ELSE NoPeer]]
       /\ state' = [state EXCEPT ![l] = "LEADER_FUNCTIONAL"]
  /\ UNCHANGED <<crashes, joins, up, version, sync, journal, db, writes, out, inbox, adds>>

-----------------------------------------------------------------------------
(* Writes. *)

(* updateBlobMeta: journal, apply, then write to the peers.  A local failure is
   the client's error; the commit id stays consumed.  A member that is not a
   functional leader rejects the write and changes nothing. *)
groupWrite(l, w) ==
  /\ up[l] /\ state[l] = "LEADER_FUNCTIONAL"
  /\ writes[w].reply = "unused"
  /\ LET id == lastId[l] + 1
         targets == getWritablePeers(l)
         ctx(n, reply) == [by |-> l, id |-> id, nAcked |-> 0, nSuccess |-> 0,
                           nPeers |-> n, reply |-> reply]
     IN  /\ lastId' = [lastId EXCEPT ![l] = id]
         /\ \/ /\ addEntryOk(journal[l], id)
               /\ journal' = [journal EXCEPT ![l] = Append(@, [id |-> id, w |-> w])]
               /\ db' = [db EXCEPT ![l] = @ \cup {w}]
               /\ writes' = [writes EXCEPT ![w] = ctx(Cardinality(targets), "none")]
               /\ out' = [out EXCEPT ![w] = [p \in Members |->
                    IF p \in targets THEN [st |-> "sent", prior |-> peers[l][p].version]
                    ELSE NoSlot]]
               /\ inbox' = inbox \cup {<<w, p>> : p \in {q \in targets : up[q]}}
            \/ /\ ~addEntryOk(journal[l], id) \/ DbFaults
               /\ writes' = [writes EXCEPT ![w] = ctx(0, "error")]
               /\ UNCHANGED <<journal, db, out, inbox>>
  /\ UNCHANGED <<crashes, joins, up, state, termId, leaderId, version, sync, peers, adds, term>>

(* What the leader that still waits for the request will be told. *)
Answered(w, p, st) ==
  out' = [out EXCEPT ![w][p].st = IF @ = "sent" THEN st ELSE @]

(* Mutant: the journal is not asked whether the entry follows its last one. *)
handleMetadataWriteUnordered(w, p) ==
  /\ <<w, p>> \in inbox
  /\ inbox' = inbox \ {<<w, p>>}
  /\ journal' = [journal EXCEPT ![p] = Append(@, [id |-> writes[w].id, w |-> w])]
  /\ db' = [db EXCEPT ![p] = @ \cup {w}]
  /\ Answered(w, p, "applied")
  /\ UNCHANGED <<crashes, joins, up, state, termId, leaderId, version, sync, peers, lastId, writes, adds, term>>

(* Mutant: a write the journal refuses is acknowledged. *)
handleMetadataWriteAlwaysOk(w, p) ==
  /\ <<w, p>> \in inbox
  /\ inbox' = inbox \ {<<w, p>>}
  /\ Answered(w, p, "applied")
  /\ \/ /\ addEntryOk(journal[p], writes[w].id)
        /\ journal' = [journal EXCEPT ![p] = Append(@, [id |-> writes[w].id, w |-> w])]
        /\ db' = [db EXCEPT ![p] = @ \cup {w}]
     \/ /\ ~addEntryOk(journal[p], writes[w].id) \/ DbFaults
        /\ UNCHANGED <<journal, db>>
  /\ UNCHANGED <<crashes, joins, up, state, termId, leaderId, version, sync, peers, lastId, writes, adds, term>>

(* A peer handles a write, whatever state it is in and whoever sent it.  When
   the database fails the entry is taken off the journal again. *)
handleMetadataWrite(w, p) ==
  /\ <<w, p>> \in inbox
  /\ inbox' = inbox \ {<<w, p>>}
  /\ \/ /\ addEntryOk(journal[p], writes[w].id)
        /\ journal' = [journal EXCEPT ![p] = Append(@, [id |-> writes[w].id, w |-> w])]
        /\ db' = [db EXCEPT ![p] = @ \cup {w}]
        /\ Answered(w, p, "applied")
     \/ /\ ~addEntryOk(journal[p], writes[w].id) \/ DbFaults
        /\ Answered(w, p, "rejected")
        /\ UNCHANGED <<journal, db>>
  /\ UNCHANGED <<crashes, joins, up, state, termId, leaderId, version, sync, peers, lastId, writes, adds, term>>

(* The WriteCtx after one more success, or one more failure.  The promise is
   fulfilled once. *)
Succeeded(c) ==
  [c EXCEPT !.nAcked = c.nAcked + 1,
            !.nSuccess = c.nSuccess + 1,
            !.reply = IF c.reply = "none" /\ c.nSuccess + 1 = Quorum - 1 THEN "ok" ELSE c.reply]

(* Mutant: the last failure fails a write already answered. *)
FailedAlways(c) ==
  [c EXCEPT !.nAcked = c.nAcked + 1,
            !.reply = IF c.nAcked + 1 = c.nPeers THEN "error" ELSE c.reply]

(* Mutant: the last failure does not fail the write. *)
FailedSilently(c) == [c EXCEPT !.nAcked = c.nAcked + 1]

Failed(c) ==
  [c EXCEPT !.nAcked = c.nAcked + 1,
            !.reply = IF c.reply = "none" /\ c.nAcked + 1 = c.nPeers THEN "error" ELSE c.reply]

(* writeToPeers, the answer of p arrived. *)
WriteAcked(w, p) ==
  /\ out[w][p].st = "applied"
  /\ out' = [out EXCEPT ![w][p] = NoSlot]
  /\ writes' = [writes EXCEPT ![w] = Succeeded(writes[w])]
  /\ UNCHANGED <<memberVars, peers, lastId, netVars>>

(* Mutant: a peer whose write failed stays in the group. *)
WriteFailedKeepsPeer(w, p) ==
  /\ out[w][p].st # "idle"
  /\ out[w][p].st = "rejected" \/ RpcFaults \/ ~up[p]
  /\ out' = [out EXCEPT ![w][p] = NoSlot]
  /\ writes' = [writes EXCEPT ![w] = Failed(writes[w])]
  /\ UNCHANGED <<memberVars, peers, lastId, netVars>>

(* writeToPeers, p rejected the write or its connection failed.  The request
   may still be on its way, or applied: p leaves the group all the same. *)
WriteFailed(w, p) ==
  /\ out[w][p].st # "idle"
  /\ out[w][p].st = "rejected" \/ RpcFaults \/ ~up[p]
  /\ out' = [out EXCEPT ![w][p] = NoSlot]
  /\ writes' = [writes EXCEPT ![w] = Failed(writes[w])]
  /\ changePeerState(writes[w].by, p, out[w][p].prior, "FOLLOWER_WAIT_TO_JOIN_GROUP")
  /\ UNCHANGED <<crashes, joins, up, termId, leaderId, version, sync, journal, db, lastId, netVars>>

-----------------------------------------------------------------------------
(* Joining the group again. *)

notifyLeader(m, to, t, st, awaited) ==
  [from |-> m, to |-> to, termId |-> t, version |-> version[m], state |-> st, awaited |-> awaited]

(* Mutant: the member does not remember who leads. *)
handleGroupInfoUpdateMsgNoLeader(m, l) ==
  /\ joins < MaxJoins
  /\ joins' = joins + 1
  /\ up[l] /\ isLeaderState(l)
  /\ up[m] /\ isFollowerState(m) /\ state[m] # "FOLLOWER_SYNCING"
  /\ termId[l] >= termId[m]
  /\ state' = [state EXCEPT ![m] = "FOLLOWER_SYNCING"]
  /\ termId' = [termId EXCEPT ![m] = termId[l]]
  /\ sync' = [sync EXCEPT ![m] = "asked"]
  /\ adds' = adds \cup {notifyLeader(m, l, termId[l], "FOLLOWER_SYNCING", TRUE)}
  /\ UNCHANGED <<crashes, up, leaderId, version, journal, db, leaderVars, inbox, term>>

(* A list of functional members that leaves m out, from the leader l.  Nothing
   in src/ sends one: it comes as pbapi.thrift describes it. *)
handleGroupInfoUpdateMsg(m, l) ==
  /\ joins < MaxJoins
  /\ joins' = joins + 1
  /\ up[l] /\ isLeaderState(l)
  /\ up[m] /\ isFollowerState(m) /\ state[m] # "FOLLOWER_SYNCING"
  /\ termId[l] >= termId[m]
  /\ leaderId' = [leaderId EXCEPT ![m] = l]
  /\ state' = [state EXCEPT ![m] = "FOLLOWER_SYNCING"]
  /\ termId' = [termId EXCEPT ![m] = termId[l]]
  /\ sync' = [sync EXCEPT ![m] = "asked"]
  /\ adds' = adds \cup {notifyLeader(m, l, termId[l], "FOLLOWER_SYNCING", TRUE)}
  /\ UNCHANGED <<crashes, up, version, journal, db, leaderVars, inbox, term>>

(* The leader accepts: the response's syncCommitId is its commitId_. *)
handleAddToGroupMsg(a) ==
  /\ up[a.to] /\ isLeaderState(a.to) /\ a.termId >= termId[a.to]
  /\ adds' = adds \ {a}
  /\ changePeerState(a.to, a.from, a.version, a.state)
  /\ sync' = IF a.awaited THEN [sync EXCEPT ![a.from] = "joined"] ELSE sync
  /\ UNCHANGED <<crashes, joins, up, termId, leaderId, version, journal, db, lastId, writes, out, inbox, term>>

(* The request failed or the receiver threw: CHECK(false) in runSyncProtocol;
   the result of the second notification is dropped. *)
AddToGroupFails(a) ==
  /\ \/ RpcFaults \/ ~up[a.to]
     \/ ~isLeaderState(a.to) \/ a.termId < termId[a.to]
  /\ IF a.awaited
     THEN Die(a.from) /\ adds' = Orphaned(adds \ {a}, a.from) /\ UNCHANGED crashes
     ELSE adds' = adds \ {a}
          /\ UNCHANGED <<memberVars, leaderVars, inbox, term>>

(* Mutant: the sync is left unfinished. *)
SyncCompletedSilently(m) ==
  /\ sync[m] = "joined"
  /\ sync' = [sync EXCEPT ![m] = "idle"]
  /\ UNCHANGED <<crashes, joins, up, state, termId, leaderId, version, journal, db, leaderVars, netVars>>

(* commitId_ is -1 at both ends, so the pull of [commitId_, syncCommitId] is
   finished before it starts: the member is functional and says so. *)
SyncCompleted(m) ==
  /\ sync[m] = "joined"
  /\ sync' = [sync EXCEPT ![m] = "idle"]
  /\ state' = [state EXCEPT ![m] = "FOLLOWER_FUNCTIONAL"]
  /\ adds' = adds \cup {notifyLeader(m, leaderId[m], termId[m], "FOLLOWER_FUNCTIONAL", FALSE)}
  /\ UNCHANGED <<crashes, joins, up, termId, leaderId, version, journal, db, leaderVars, inbox, term>>

(* The continuation runs on the event base of the connection to the leader.  If
   that is not the member's own, pullJournalEntries_'s DCHECK ends the process. *)
SyncOffEventBase(m) ==
  /\ sync[m] = "joined"
  /\ adds' = Orphaned(adds, m)
  /\ Die(m)
  /\ UNCHANGED crashes

-----------------------------------------------------------------------------
Answer(w, p) == WriteAcked(w, p) \/ WriteFailed(w, p)

Next ==
  \/ \E m \in Members :
       \/ Crash(m) \/ Restart(m) \/ SyncCompleted(m) \/ SyncOffEventBase(m)
       \/ \E S \in SUBSET Members : ElectLeader(m, S)
       \/ \E l \in Members : handleGroupInfoUpdateMsg(m, l)
       \/ \E w \in Writes : groupWrite(m, w) \/ handleMetadataWrite(w, m) \/ Answer(w, m)
  \/ \E a \in adds : handleAddToGroupMsg(a) \/ AddToGroupFails(a)

Spec == Init /\ [][Next]_vars

(* A request reaches a running peer, an answer or a failure reaches the leader,
   and the event base runs it; joins are answered or fail and their
   continuations run. *)
Fairness ==
  /\ \A w \in Writes, p \in Members :
       /\ WF_vars(handleMetadataWrite(w, p))
       /\ WF_vars(Answer(w, p))
  /\ \A m \in Members :
       /\ WF_vars(SyncCompleted(m) \/ SyncOffEventBase(m))
       /\ WF_vars(\E a \in adds : a.from = m /\ (handleAddToGroupMsg(a) \/ AddToGroupFails(a)))

FairSpec == Spec /\ Fairness

-----------------------------------------------------------------------------
(* Properties. *)

TypeOK ==
  /\ crashes \in Nat
  /\ joins \in Nat
  /\ up \in [Members -> BOOLEAN]
  /\ state \in [Members -> MemberStates]
  /\ termId \in [Members -> Int]
  /\ leaderId \in [Members -> Members \cup {INVALID_VALUE}]
  /\ version \in [Members -> Versions]
  /\ sync \in [Members -> {"idle", "asked", "joined"}]
  /\ journal \in [Members -> Seq(Entries)]
  /\ db \in [Members -> SUBSET Writes]
  /\ peers \in [Members -> [Members -> PeerInfo]]
  /\ lastId \in [Members -> Int]
  /\ writes \in [Writes -> WriteCtx]
  /\ out \in [Writes -> [Members -> Slots]]
  /\ inbox \subseteq Writes \X Members
  /\ adds \subseteq AddToGroupMsgs
  /\ term \in Nat

(* The leader's state tells whether it has a quorum: LEADER_FUNCTIONAL exactly
   when Quorum - 1 peers are functional (the DCHECK at the end of
   changePeerState_, and its converse), after every failed write and every join,
   in whatever order they come. *)
QuorumStateExact ==
  \A l \in Members : isLeaderState(l) =>
    (state[l] = "LEADER_FUNCTIONAL" <=> Cardinality(FunctionalPeers(l)) >= Quorum - 1)

Holders(w) == {m \in Members : w \in db[m]}

(* A write whose client was told it succeeded is in the databases of a quorum,
   also after crashes and late or lost answers. *)
AckedOnQuorum ==
  \A w \in Writes : writes[w].reply = "ok" => Cardinality(Holders(w)) >= Quorum

(* The invariants behind TypeOK and AckedOnQuorum.  A member that synchronizes
   knows its leader.  A request the leader waits for is one of its own to
   another member.  nSuccess counts no more than the peers that have the write
   and of which the leader waits for no answer; with the leader itself, which
   applies a write before it sends it, they are the holders of the write. *)
LeadersKnown ==
  /\ \A m \in Members : sync[m] # "idle" => leaderId[m] \in Members
  /\ \A a \in adds : a.awaited => leaderId[a.from] \in Members
WaitsForPeers ==
  \A w \in Writes, p \in Members :
    out[w][p].st # "idle" => writes[w].by \in Members \ {p} /\ writes[w].reply # "unused"
Settled(w) == {p \in Members \ {writes[w].by} : w \in db[p] /\ out[w][p].st = "idle"}
Accounted(w) ==
  /\ writes[w].reply \in {"none", "ok"} => writes[w].by \in Members /\ w \in db[writes[w].by]
  /\ \A p \in Members : out[w][p].st = "applied" => w \in db[p]
  /\ writes[w].nSuccess <= Cardinality(Settled(w))
WritesAccounted == \A w \in Writes : Accounted(w)

(* The group implements ReplicatedWrites: a write is never undone and its one
   answer is "ok" only if a quorum has it, under crashes, re-election, failing
   databases, rejoining members and requests lost, late or out of order. *)
Promise == INSTANCE ReplicatedWrites WITH
  applied <- [w \in Writes |-> Holders(w)],
  answer  <- [w \in Writes |-> IF writes[w].reply \in {"ok", "error"}
                                THEN writes[w].reply ELSE "none"]
ImplementsPromise == Promise!AbsSpec

(* Within one leader's term and without rejoining members: a peer the leader
   counts as functional, and of which it waits for no answer, has applied
   every write the leader applied. *)
FunctionalPeersCurrent ==
  \A l \in Members : isLeaderState(l) =>
    \A p \in FunctionalPeers(l), w \in Writes :
      writes[w].by = l /\ w \in db[l] /\ (\A v \in Writes : out[v][p] = NoSlot) => w \in db[p]

(* Within one leader's term, with members that join or without, every journal is a
   run of consecutive entries of the leader's journal: no gap, no reordering,
   whatever order requests arrive in. *)
JournalsFollowLeader ==
  \A l, m \in Members : up[l] /\ isLeaderState(l) =>
    \A i \in 1..Len(journal[m]) :
      \E k \in 1..Len(journal[l]) :
        /\ journal[l][k] = journal[m][i]
        /\ i < Len(journal[m]) => k < Len(journal[l]) /\ journal[l][k + 1] = journal[m][i + 1]

(* Every write is answered: by a success once Quorum - 1 peers have it, by an
   error once every peer has answered, or its leader ends. *)
EveryWriteAnswered ==
  \A w \in Writes : (writes[w].reply = "none") ~> (writes[w].reply # "none")

(* A member that began to synchronize becomes functional, or its process ends. *)
SyncEnds ==
  \A m \in Members : (state[m] = "FOLLOWER_SYNCING") ~> (state[m] # "FOLLOWER_SYNCING")

(* PBMember.cpp: "leader is the entity with latest state": a member that becomes
   leader has every write a client was told succeeded. *)
LeaderHasLatestState ==
  [][\A l \in Members :
       isLeaderState(l)' /\ ~isLeaderState(l) =>
         \A w \in Writes : writes[w].reply = "ok" => w \in db[l]]_vars
=============================================================================
