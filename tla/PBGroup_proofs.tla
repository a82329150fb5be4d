--------------------------- MODULE PBGroup_proofs ---------------------------
(***************************************************************************)
(* Proofs about PBGroup, for every group, quorum, set of writes and bound. *)
(***************************************************************************)
EXTENDS PBGroup, FiniteSetTheorems, SequenceTheorems, TLAPS

TypeInv == TypeOK /\ LeadersKnown /\ WaitsForPeers

-----------------------------------------------------------------------------
(* Types. *)

(* State names are in the sets the code's ranges FOLLOWER_BEGIN..FOLLOWER_END and
   LEADER_BEGIN..LEADER_END delimit. *)
LEMMA StateNames ==
  /\ "FOLLOWER_WAIT_TO_JOIN_GROUP" \in FollowerStates
  /\ "FOLLOWER_SYNCING" \in FollowerStates
  /\ "FOLLOWER_FUNCTIONAL" \in FollowerStates
  /\ "LEADER_WAITING_FOR_QUORUM" \in MemberStates
  /\ "LEADER_FUNCTIONAL" \in MemberStates
  /\ "UNINITIALIZED" \in MemberStates
  /\ FollowerStates \subseteq MemberStates
BY DEF FollowerStates, LeaderStates, MemberStates

(* The initial values of the leader's context are typed. *)
LEMMA DefaultTypes ==
  /\ INVALID_VALUE \in Int
  /\ NoPeers \in [Members -> PeerInfo]
  /\ NoWrite \in WriteCtx
  /\ NoSlot \in Slots
  /\ NoOut \in [Members -> Slots]
BY StateNames DEF INVALID_VALUE, NoPeers, NoPeer, PeerInfo, NoWrite, WriteCtx, NoSlot, Slots, NoOut

(* changePeerState_ keeps the peers and the states typed. *)
LEMMA ChangeType ==
  ASSUME TypeOK, NEW l \in Members, NEW p \in Members, NEW incoming \in Int,
         NEW target \in FollowerStates, changePeerState(l, p, incoming, target)
  PROVE  /\ peers' \in [Members -> [Members -> PeerInfo]]
         /\ state' \in [Members -> MemberStates]
<1>1. [state |-> target, version |-> incoming] \in PeerInfo
  BY DEF PeerInfo
<1>2. peers' \in [Members -> [Members -> PeerInfo]]
  BY <1>1 DEF TypeOK, changePeerState
<1>3. state' \in [Members -> MemberStates]
  BY StateNames DEF TypeOK, changePeerState
<1> QED
  BY <1>2, <1>3

(* Orphaned messages keep their sender and are awaited only if they were. *)
LEMMA OrphanedType ==
  ASSUME NEW S \in SUBSET AddToGroupMsgs, NEW m \in Members
  PROVE  /\ Orphaned(S, m) \subseteq AddToGroupMsgs
         /\ \A b \in Orphaned(S, m) :
              b.awaited => b.from # m /\ \E a \in S : a.from = b.from /\ a.awaited
<1> SUFFICES ASSUME NEW b \in Orphaned(S, m)
             PROVE  /\ b \in AddToGroupMsgs
                    /\ b.awaited => b.from # m /\ \E a \in S : a.from = b.from /\ a.awaited
  OBVIOUS
<1>1. PICK a \in S : b = [a EXCEPT !.awaited = @ /\ a.from # m]
  BY DEF Orphaned
<1>2. a \in AddToGroupMsgs
  OBVIOUS
<1>3. (a.awaited /\ a.from # m) \in BOOLEAN
  OBVIOUS
<1>4. b \in AddToGroupMsgs /\ b.from = a.from /\ b.awaited = (a.awaited /\ a.from # m)
  BY <1>1, <1>2, <1>3 DEF AddToGroupMsgs
<1> QED
  BY <1>4

(* The end of a process keeps the invariant, if its messages are orphaned. *)
LEMMA DieType ==
  ASSUME TypeInv, NEW m \in Members, Die(m), NEW S \in SUBSET adds,
         adds' = Orphaned(S, m), crashes' \in Nat
  PROVE  TypeInv'
<1>1. adds' \subseteq AddToGroupMsgs /\ \A b \in adds' :
         b.awaited => b.from # m /\ \E a \in S : a.from = b.from /\ a.awaited
  BY OrphanedType DEF TypeInv, TypeOK
<1>2. ASSUME NEW w \in Writes
      PROVE  /\ [writes[w] EXCEPT !.reply = "lost"] \in WriteCtx
             /\ [writes[w] EXCEPT !.reply = "lost"].by = writes[w].by
             /\ [writes[w] EXCEPT !.reply = "lost"].reply = "lost"
  <2>1. writes[w] \in WriteCtx
    BY DEF TypeInv, TypeOK
  <2> QED
    BY <2>1 DEF WriteCtx
<1>3. /\ out' \in [Writes -> [Members -> Slots]]
      /\ \A w \in Writes : out'[w] = IF writes[w].by = m THEN NoOut ELSE out[w]
  BY DefaultTypes DEF TypeInv, TypeOK, Die
<1>4. \A w \in Writes : /\ writes'[w].by = writes[w].by
                        /\ writes'[w].reply = "unused" => writes[w].reply = "unused"
  BY <1>2 DEF TypeInv, TypeOK, Die
<1>8. writes' \in [Writes -> WriteCtx]
  BY <1>2 DEF TypeInv, TypeOK, Die
<1>9. /\ peers' \in [Members -> [Members -> PeerInfo]]
      /\ lastId' \in [Members -> Int] /\ termId' \in [Members -> Int]
      /\ leaderId' \in [Members -> Members \cup {INVALID_VALUE}]
      /\ state' \in [Members -> MemberStates]
  BY DefaultTypes, StateNames DEF TypeInv, TypeOK, Die
<1>10. /\ up' \in [Members -> BOOLEAN]
       /\ sync' \in [Members -> {"idle", "asked", "joined"}]
       /\ inbox' \subseteq Writes \X Members
       /\ joins' \in Nat /\ version' \in [Members -> Versions]
       /\ db' \in [Members -> SUBSET Writes] /\ term' \in Nat
  BY DEF TypeInv, TypeOK, Die
<1>11. journal' \in [Members -> Seq(Entries)]
  <2>1. <<>> \in Seq(Entries)
    OBVIOUS
  <2> QED
    BY <2>1 DEF TypeInv, TypeOK, Die
<1>5. TypeOK'
  BY <1>1, <1>3, <1>8, <1>9, <1>10, <1>11 DEF TypeOK
<1>6. LeadersKnown'
  BY <1>1 DEF TypeInv, TypeOK, LeadersKnown, Die, AddToGroupMsgs
<1>7. WaitsForPeers'
  BY <1>3, <1>4 DEF TypeInv, WaitsForPeers, NoOut, NoSlot
<1> QED
  BY <1>5, <1>6, <1>7 DEF TypeInv

(* Every initial state is typed. *)
LEMMA InitTypeInv == Init => TypeInv
BY DefaultTypes, StateNames DEF Init, TypeInv, TypeOK, LeadersKnown, WaitsForPeers, NoOut, NoSlot

(* The answer to a request goes to the leader only while it waits for it. *)
LEMMA AnsweredType ==
  ASSUME TypeOK, NEW w \in Writes, NEW p \in Members, NEW st \in {"applied", "rejected"},
         Answered(w, p, st)
  PROVE  /\ out' \in [Writes -> [Members -> Slots]]
         /\ \A v \in Writes, q \in Members :
              /\ <<v, q>> # <<w, p>> => out'[v][q] = out[v][q]
              /\ out'[v][q].st = "idle" <=> out[v][q].st = "idle"
         /\ out'[w][p].st \in {out[w][p].st, st}
<1>1. out[w][p] \in Slots
  BY DEF TypeOK
<1> DEFINE new == [out[w][p] EXCEPT !.st = IF @ = "sent" THEN st ELSE @]
<1>2. /\ new \in Slots
      /\ new.st = "idle" <=> out[w][p].st = "idle"
      /\ new.st \in {out[w][p].st, st}
  BY <1>1 DEF Slots
<1>3. out' = [out EXCEPT ![w] = [out[w] EXCEPT ![p] = new]]
  BY DEF Answered, TypeOK
<1> HIDE DEF new
<1> QED
  BY <1>2, <1>3 DEF TypeOK

(* A handled answer leaves nothing to wait for. *)
LEMMA SlotCleared ==
  ASSUME TypeOK, NEW w \in Writes, NEW p \in Members, out' = [out EXCEPT ![w][p] = NoSlot]
  PROVE  /\ out' \in [Writes -> [Members -> Slots]]
         /\ \A v \in Writes, q \in Members :
              out'[v][q] = IF v = w /\ q = p THEN NoSlot ELSE out[v][q]
BY DefaultTypes DEF TypeOK

(* What an answer does to the WriteCtx. *)
LEMMA CtxType ==
  ASSUME NEW c \in WriteCtx
  PROVE  /\ Succeeded(c) \in WriteCtx
         /\ Succeeded(c).by = c.by
         /\ Succeeded(c).nSuccess = c.nSuccess + 1
         /\ Succeeded(c).reply =
              IF c.reply = "none" /\ c.nSuccess + 1 = Quorum - 1 THEN "ok" ELSE c.reply
         /\ Failed(c) \in WriteCtx
         /\ Failed(c).by = c.by
         /\ Failed(c).nSuccess = c.nSuccess
         /\ Failed(c).reply =
              IF c.reply = "none" /\ c.nAcked + 1 = c.nPeers THEN "error" ELSE c.reply
<1> DEFINE acked == c.nAcked + 1
           good == c.nSuccess + 1
           replyS == IF c.reply = "none" /\ good = Quorum - 1 THEN "ok" ELSE c.reply
           replyF == IF c.reply = "none" /\ acked = c.nPeers THEN "error" ELSE c.reply
<1>1. /\ acked \in Nat /\ good \in Nat
      /\ replyS \in {"unused", "none", "ok", "error", "lost"}
      /\ replyF \in {"unused", "none", "ok", "error", "lost"}
  BY DEF WriteCtx
<1>2. /\ Succeeded(c) = [c EXCEPT !.nAcked = acked, !.nSuccess = good, !.reply = replyS]
      /\ Failed(c) = [c EXCEPT !.nAcked = acked, !.reply = replyF]
  BY DEF Succeeded, Failed
<1> HIDE DEF acked, good, replyS, replyF
<1>3. /\ Succeeded(c) \in WriteCtx /\ Succeeded(c).by = c.by
      /\ Succeeded(c).nSuccess = good /\ Succeeded(c).reply = replyS
  BY <1>1, <1>2 DEF WriteCtx
<1>4. /\ Failed(c) \in WriteCtx /\ Failed(c).by = c.by
      /\ Failed(c).nSuccess = c.nSuccess /\ Failed(c).reply = replyF
  BY <1>1, <1>2 DEF WriteCtx
<1> QED
  BY <1>3, <1>4 DEF acked, good, replyS, replyF

(* A set of members is finite and no larger than a set of members around it. *)
LEMMA MemberSets ==
  ASSUME NEW S \in SUBSET Members
  PROVE  /\ IsFiniteSet(S)
         /\ Cardinality(S) \in Nat
         /\ \A R \in SUBSET S : Cardinality(R) \in Nat /\ Cardinality(R) <= Cardinality(S)
BY MembersAssumption, FS_Subset, FS_CardinalityType

(* An appended entry keeps a journal typed. *)
LEMMA JournalType ==
  ASSUME TypeOK, NEW m \in Members, NEW w \in Writes, NEW id \in Int,
         journal' = [journal EXCEPT ![m] = Append(@, [id |-> id, w |-> w])]
  PROVE  journal' \in [Members -> Seq(Entries)]
<1>1. [id |-> id, w |-> w] \in Entries
  BY DEF Entries
<1>2. Append(journal[m], [id |-> id, w |-> w]) \in Seq(Entries)
  BY <1>1, AppendProperties DEF TypeOK
<1> QED
  BY <1>2 DEF TypeOK

(* groupWrite: what the write's context and its requests are afterwards. *)
LEMMA GroupWriteType ==
  ASSUME TypeInv, NEW l \in Members, NEW w \in Writes, groupWrite(l, w)
  PROVE  /\ writes' \in [Writes -> WriteCtx]
         /\ \A v \in Writes : v # w => writes'[v] = writes[v] /\ out'[v] = out[v]
         /\ writes'[w].by = l /\ writes'[w].nSuccess = 0
         /\ out' \in [Writes -> [Members -> Slots]]
         /\ inbox' \subseteq Writes \X Members
         /\ \A p \in Members : out'[w][p].st \in {"idle", "sent"}
                              /\ (out'[w][p].st = "sent" => p # l)
         /\ \/ writes'[w].reply = "none" /\ db' = [db EXCEPT ![l] = @ \cup {w}]
            \/ writes'[w].reply = "error" /\ db' = db
         /\ journal' \in [Members -> Seq(Entries)]
         /\ lastId' \in [Members -> Int]
<1> DEFINE id == lastId[l] + 1
           targets == getWritablePeers(l)
           ctx(n, reply) == [by |-> l, id |-> id, nAcked |-> 0, nSuccess |-> 0,
                             nPeers |-> n, reply |-> reply]
<1>1. id \in Int /\ lastId' = [lastId EXCEPT ![l] = id] /\ writes[w].reply = "unused"
  BY DEF groupWrite, TypeInv, TypeOK
<1>2. targets \in SUBSET Members /\ l \notin targets /\ Cardinality(targets) \in Nat
  BY MemberSets DEF getWritablePeers
<1>3. \A n \in Nat : \A r \in {"none", "error"} :
        ctx(n, r) \in WriteCtx /\ ctx(n, r).by = l /\ ctx(n, r).nSuccess = 0 /\ ctx(n, r).reply = r
  BY <1>1 DEF WriteCtx
<1>4. CASE /\ journal' = [journal EXCEPT ![l] = Append(@, [id |-> id, w |-> w])]
           /\ db' = [db EXCEPT ![l] = @ \cup {w}]
           /\ writes' = [writes EXCEPT ![w] = ctx(Cardinality(targets), "none")]
           /\ out' = [out EXCEPT ![w] = [p \in Members |->
                IF p \in targets THEN [st |-> "sent", prior |-> peers[l][p].version] ELSE NoSlot]]
           /\ inbox' = inbox \cup {<<w, p>> : p \in {q \in targets : up[q]}}
  <2> HIDE DEF id, targets, ctx
  <2>1. journal' \in [Members -> Seq(Entries)]
    BY <1>1, <1>4, JournalType DEF TypeInv
  <2>2. ASSUME NEW p \in Members PROVE [st |-> "sent", prior |-> peers[l][p].version] \in Slots
    <3>1. peers[l][p] \in PeerInfo
      BY DEF TypeInv, TypeOK
    <3>2. peers[l][p].version \in Int
      BY <3>1 DEF PeerInfo
    <3> QED
      BY <3>2 DEF Slots
  <2>3. out' \in [Writes -> [Members -> Slots]]
    <3>1. [p \in Members |-> IF p \in targets
             THEN [st |-> "sent", prior |-> peers[l][p].version] ELSE NoSlot]
            \in [Members -> Slots]
      BY <2>2, DefaultTypes
    <3> QED
      BY <1>4, <3>1 DEF TypeInv, TypeOK
  <2>4. \A p \in Members : (out'[w])[p] =
          IF p \in targets THEN [st |-> "sent", prior |-> peers[l][p].version] ELSE NoSlot
    BY <1>4 DEF TypeInv, TypeOK
  <2>5. ASSUME NEW p \in Members
        PROVE  out'[w][p].st \in {"idle", "sent"} /\ (out'[w][p].st = "sent" => p # l)
    <3>1. CASE p \in targets
      <4>1. out'[w][p] = [st |-> "sent", prior |-> peers[l][p].version]
        BY <2>4, <3>1
      <4> QED
        BY <1>2, <3>1, <4>1
    <3>2. CASE p \notin targets
      <4>1. out'[w][p] = NoSlot
        BY <2>4, <3>2
      <4> QED
        BY <4>1 DEF NoSlot
    <3> QED
      BY <3>1, <3>2
  <2>6. /\ writes' \in [Writes -> WriteCtx]
        /\ writes'[w].by = l /\ writes'[w].nSuccess = 0 /\ writes'[w].reply = "none"
    BY <1>2, <1>3, <1>4 DEF TypeInv, TypeOK
  <2>7. inbox' \subseteq Writes \X Members
    BY <1>2, <1>4 DEF TypeInv, TypeOK
  <2>8. \A v \in Writes : v # w => writes'[v] = writes[v] /\ out'[v] = out[v]
    BY <1>4 DEF TypeInv, TypeOK
  <2>9. lastId' \in [Members -> Int]
    BY <1>1 DEF TypeInv, TypeOK
  <2> QED
    BY <1>4, <2>1, <2>3, <2>5, <2>6, <2>7, <2>8, <2>9
<1>5. CASE /\ writes' = [writes EXCEPT ![w] = ctx(0, "error")]
           /\ UNCHANGED <<journal, db, out, inbox>>
  <2> HIDE DEF id, targets, ctx
  <2>1. /\ writes' \in [Writes -> WriteCtx]
        /\ writes'[w].by = l /\ writes'[w].nSuccess = 0 /\ writes'[w].reply = "error"
        /\ \A v \in Writes : v # w => writes'[v] = writes[v]
    BY <1>3, <1>5 DEF TypeInv, TypeOK
  <2>2. \A p \in Members : out'[w][p].st = "idle"
    BY <1>1, <1>5 DEF TypeInv, WaitsForPeers
  <2> QED
    BY <1>1, <1>5, <2>1, <2>2 DEF TypeInv, TypeOK
<1> QED
  BY <1>4, <1>5 DEF groupWrite

(* Every step keeps the types. *)
LEMMA NextTypeInv ==
  ASSUME TypeInv, [Next]_vars
  PROVE  TypeInv'
<1> USE DEF TypeInv
<1>1. ASSUME NEW m \in Members, Crash(m) PROVE TypeInv'
  <2>1. crashes' \in Nat
    BY <1>1 DEF Crash, TypeOK
  <2> QED
    BY <1>1, <2>1, DieType DEF Crash
<1>2. ASSUME NEW m \in Members, Restart(m) PROVE TypeInv'
  <2>1. TypeOK'
    BY <1>2, StateNames DEF Restart, TypeOK, leaderVars, netVars
  <2>2. LeadersKnown' /\ WaitsForPeers'
    BY <1>2 DEF Restart, LeadersKnown, WaitsForPeers, leaderVars, netVars
  <2> QED
    BY <2>1, <2>2
<1>3. ASSUME NEW e \in Members, NEW S \in SUBSET Members, ElectLeader(e, S) PROVE TypeInv'
  <2>1. PICK l \in S :
          /\ leaderId' = [leaderId EXCEPT ![l] = l]
          /\ lastId' = [lastId EXCEPT ![l] = INVALID_VALUE]
          /\ peers' = [peers EXCEPT ![l] = [p \in Members |->
               IF p \in S \ {l} THEN [state |-> "FOLLOWER_FUNCTIONAL", version |-> 0] ELSE NoPeer]]
          /\ state' = [state EXCEPT ![l] = "LEADER_FUNCTIONAL"]
    BY <1>3 DEF ElectLeader
  <2>2. l \in Members
    OBVIOUS
  <2>3. [state |-> "FOLLOWER_FUNCTIONAL", version |-> 0] \in PeerInfo /\ NoPeer \in PeerInfo
    BY StateNames DEF PeerInfo, NoPeer, INVALID_VALUE
  <2>4. peers' \in [Members -> [Members -> PeerInfo]]
    BY <2>1, <2>3 DEF TypeOK
  <2>5. /\ leaderId' \in [Members -> Members \cup {INVALID_VALUE}]
        /\ state' \in [Members -> MemberStates]
        /\ lastId' \in [Members -> Int]
    BY <2>1, <2>2, StateNames, DefaultTypes DEF TypeOK
  <2>6. term' \in Nat /\ termId' \in [Members -> Int]
    BY <1>3 DEF ElectLeader, TypeOK
  <2>7. UNCHANGED <<crashes, joins, up, version, sync, journal, db, writes, out, inbox, adds>>
    BY <1>3 DEF ElectLeader
  <2>8. TypeOK'
    BY <2>4, <2>5, <2>6, <2>7 DEF TypeOK
  <2>9. LeadersKnown' /\ WaitsForPeers'
    BY <2>1, <2>2, <2>7 DEF LeadersKnown, WaitsForPeers, TypeOK, AddToGroupMsgs
  <2> QED
    BY <2>8, <2>9
<1>4. ASSUME NEW l \in Members, NEW w \in Writes, groupWrite(l, w) PROVE TypeInv'
  <2>1. /\ writes' \in [Writes -> WriteCtx]
        /\ \A v \in Writes : v # w => writes'[v] = writes[v] /\ out'[v] = out[v]
        /\ writes'[w].by = l
        /\ out' \in [Writes -> [Members -> Slots]]
        /\ inbox' \subseteq Writes \X Members
        /\ \A p \in Members : /\ out'[w][p].st \in {"idle", "sent"}
                              /\ out'[w][p].st = "sent" => p # l
        /\ journal' \in [Members -> Seq(Entries)]
        /\ lastId' \in [Members -> Int]
    BY <1>4, GroupWriteType
  <2>2. /\ writes'[w].reply \in {"none", "error"}
        /\ db' \in [Members -> SUBSET Writes]
    BY <1>4, GroupWriteType DEF TypeOK
  <2>3. UNCHANGED <<crashes, joins, up, state, termId, leaderId, version, sync, peers, adds, term>>
    BY <1>4 DEF groupWrite
  <2>4. TypeOK'
    BY <2>1, <2>2, <2>3 DEF TypeOK
  <2>5. LeadersKnown'
    BY <2>3 DEF LeadersKnown
  <2>6. WaitsForPeers'
    <3> SUFFICES ASSUME NEW v \in Writes, NEW q \in Members, out'[v][q].st # "idle"
                 PROVE  writes'[v].by \in Members \ {q} /\ writes'[v].reply # "unused"
      BY DEF WaitsForPeers
    <3>1. CASE v = w
      <4>1. /\ out'[w][q].st \in {"idle", "sent"}
            /\ out'[w][q].st = "sent" => q # l
        BY <2>1
      <4>2. writes'[w].by = l
        BY <2>1
      <4> HIDE DEF TypeInv
      <4> QED
        BY <2>2, <3>1, <4>1, <4>2
    <3>2. CASE v # w
      <4>1. writes'[v] = writes[v] /\ out'[v] = out[v]
        BY <2>1, <3>2
      <4> QED
        BY <4>1 DEF WaitsForPeers
    <3> QED
      BY <3>1, <3>2
  <2> QED
    BY <2>4, <2>5, <2>6
<1>5. ASSUME NEW w \in Writes, NEW p \in Members, handleMetadataWrite(w, p) PROVE TypeInv'
  <2>1. /\ inbox' \subseteq Writes \X Members
        /\ UNCHANGED <<crashes, joins, up, state, termId, leaderId, version, sync, peers, lastId,
                       writes, adds, term>>
    BY <1>5 DEF handleMetadataWrite, TypeOK
  <2>2. PICK st \in {"applied", "rejected"} : Answered(w, p, st)
    BY <1>5 DEF handleMetadataWrite
  <2>3. /\ out' \in [Writes -> [Members -> Slots]]
        /\ \A v \in Writes, q \in Members : out'[v][q].st = "idle" <=> out[v][q].st = "idle"
    BY <2>2, AnsweredType
  <2>4. writes[w].id \in Int
    BY DEF TypeOK, WriteCtx
  <2>5. journal' \in [Members -> Seq(Entries)]
    BY <1>5, <2>4, JournalType DEF handleMetadataWrite, TypeOK
  <2>6. db' \in [Members -> SUBSET Writes]
    <3>1. db' = db \/ db' = [db EXCEPT ![p] = @ \cup {w}]
      BY <1>5 DEF handleMetadataWrite
    <3>2. db \in [Members -> SUBSET Writes] /\ db[p] \cup {w} \in SUBSET Writes
      BY DEF TypeOK
    <3> HIDE DEF TypeInv
    <3> QED
      BY <3>1, <3>2
  <2>7. TypeOK'
    BY <2>1, <2>3, <2>5, <2>6 DEF TypeOK
  <2>8. LeadersKnown' /\ WaitsForPeers'
    BY <2>1, <2>3 DEF LeadersKnown, WaitsForPeers
  <2> QED
    BY <2>7, <2>8
<1>6. ASSUME NEW w \in Writes, NEW p \in Members, Answer(w, p) PROVE TypeInv'
  <2>1. /\ out' = [out EXCEPT ![w][p] = NoSlot]
        /\ out[w][p].st # "idle"
        /\ UNCHANGED <<crashes, joins, up, termId, leaderId, version, sync, journal, db, lastId,
                       inbox, adds, term>>
    BY <1>6 DEF Answer, WriteAcked, WriteFailed, memberVars, netVars
  <2>2. /\ out' \in [Writes -> [Members -> Slots]]
        /\ \A v \in Writes, q \in Members :
             out'[v][q] = IF v = w /\ q = p THEN NoSlot ELSE out[v][q]
    BY <2>1, SlotCleared
  <2>3. writes[w] \in WriteCtx /\ out[w][p] \in Slots
    BY DEF TypeOK
  <2>4. /\ writes' \in [Writes -> WriteCtx]
        /\ \A v \in Writes : /\ writes'[v].by = writes[v].by
                             /\ writes'[v].reply = "unused" => writes[v].reply = "unused"
    <3>1. PICK c \in {Succeeded(writes[w]), Failed(writes[w])} : writes' = [writes EXCEPT ![w] = c]
      BY <1>6 DEF Answer, WriteAcked, WriteFailed
    <3>2. c \in WriteCtx /\ c.by = writes[w].by /\ (c.reply = "unused" => writes[w].reply = "unused")
      BY <2>3, CtxType
    <3> QED
      BY <3>1, <3>2 DEF TypeOK
  <2>5. /\ peers' \in [Members -> [Members -> PeerInfo]]
        /\ state' \in [Members -> MemberStates]
    <3>1. CASE WriteAcked(w, p)
      BY <3>1 DEF WriteAcked, memberVars, TypeOK
    <3>2. CASE WriteFailed(w, p)
      <4>1. writes[w].by \in Members /\ out[w][p].prior \in Int
        BY <2>1, <2>3 DEF WaitsForPeers, Slots
      <4> QED
        BY <3>2, <4>1, ChangeType, StateNames DEF WriteFailed
    <3> QED
      BY <1>6, <3>1, <3>2 DEF Answer
  <2>6. TypeOK'
    BY <2>1, <2>2, <2>4, <2>5 DEF TypeOK
  <2>7. LeadersKnown'
    BY <2>1 DEF LeadersKnown
  <2>8. WaitsForPeers'
    <3> SUFFICES ASSUME NEW v \in Writes, NEW q \in Members, out'[v][q].st # "idle"
                 PROVE  writes'[v].by \in Members \ {q} /\ writes'[v].reply # "unused"
      BY DEF WaitsForPeers
    <3>1. NoSlot.st = "idle"
      BY DEF NoSlot
    <3>2. out'[v][q] = out[v][q]
      BY <2>2, <3>1
    <3>3. writes[v].by \in Members \ {q} /\ writes[v].reply # "unused"
      BY <3>2 DEF WaitsForPeers
    <3>4. /\ writes'[v].by = writes[v].by
          /\ writes'[v].reply = "unused" => writes[v].reply = "unused"
      BY <2>4
    <3> HIDE DEF TypeInv
    <3> QED
      BY <3>3, <3>4
  <2> QED
    BY <2>6, <2>7, <2>8
<1>7. ASSUME NEW m \in Members, NEW l \in Members, handleGroupInfoUpdateMsg(m, l) PROVE TypeInv'
  <2> DEFINE a == notifyLeader(m, l, termId[l], "FOLLOWER_SYNCING", TRUE)
  <2>1. a \in AddToGroupMsgs /\ a.from = m
    BY StateNames, VersionsAssumption DEF notifyLeader, AddToGroupMsgs, TypeOK
  <2>2. adds' = adds \cup {a} /\ leaderId' = [leaderId EXCEPT ![m] = l]
    BY <1>7 DEF handleGroupInfoUpdateMsg
  <2> HIDE DEF a
  <2>6. /\ joins' \in Nat
        /\ state' \in [Members -> MemberStates]
        /\ termId' \in [Members -> Int]
        /\ leaderId' \in [Members -> Members \cup {INVALID_VALUE}]
        /\ sync' \in [Members -> {"idle", "asked", "joined"}]
        /\ \A n \in Members : n # m => sync'[n] = sync[n]
    BY <1>7, StateNames DEF handleGroupInfoUpdateMsg, TypeOK
  <2>7. UNCHANGED <<crashes, up, version, journal, db, peers, lastId, writes, out, inbox, term>>
    BY <1>7 DEF handleGroupInfoUpdateMsg, leaderVars
  <2>3. TypeOK'
    BY <2>1, <2>2, <2>6, <2>7 DEF TypeOK
  <2>8. \A n \in Members : /\ n # m => leaderId'[n] = leaderId[n]
                           /\ leaderId'[m] = l
    BY <2>2 DEF TypeOK
  <2>9. \A b \in adds : b.from \in Members
    BY DEF TypeOK, AddToGroupMsgs
  <2>4. LeadersKnown'
    BY <2>1, <2>2, <2>6, <2>8, <2>9 DEF LeadersKnown
  <2>5. WaitsForPeers'
    BY <1>7 DEF handleGroupInfoUpdateMsg, WaitsForPeers, leaderVars
  <2> QED
    BY <2>3, <2>4, <2>5
<1>8. ASSUME NEW a \in adds, handleAddToGroupMsg(a) PROVE TypeInv'
  <2>1. /\ a.from \in Members /\ a.to \in Members
        /\ a.version \in Int /\ a.state \in FollowerStates
    BY DEF TypeOK, AddToGroupMsgs
  <2>2. /\ peers' \in [Members -> [Members -> PeerInfo]]
        /\ state' \in [Members -> MemberStates]
    BY <1>8, <2>1, ChangeType DEF handleAddToGroupMsg
  <2>3. /\ adds' = adds \ {a}
        /\ sync' = IF a.awaited THEN [sync EXCEPT ![a.from] = "joined"] ELSE sync
        /\ UNCHANGED <<crashes, joins, up, termId, leaderId, version, journal, db, lastId, writes,
                       out, inbox, term>>
    BY <1>8 DEF handleAddToGroupMsg
  <2>4. TypeOK'
    BY <2>1, <2>2, <2>3 DEF TypeOK
  <2>5. LeadersKnown' /\ WaitsForPeers'
    BY <2>1, <2>3 DEF LeadersKnown, WaitsForPeers, TypeOK
  <2> QED
    BY <2>4, <2>5
<1>9. ASSUME NEW a \in adds, AddToGroupFails(a) PROVE TypeInv'
  <2>1. CASE a.awaited
    <3>1. a.from \in Members /\ (adds \ {a}) \in SUBSET adds
      BY DEF TypeOK, AddToGroupMsgs
    <3>2. /\ Die(a.from) /\ adds' = Orphaned(adds \ {a}, a.from)
          /\ crashes' \in Nat
      BY <1>9, <2>1 DEF AddToGroupFails, TypeOK
    <3> QED
      BY <3>1, <3>2, DieType
  <2>2. CASE ~a.awaited
    <3>1. adds' = adds \ {a} /\ UNCHANGED <<memberVars, leaderVars, inbox, term>>
      BY <1>9, <2>2 DEF AddToGroupFails
    <3> QED
      BY <3>1 DEF TypeOK, LeadersKnown, WaitsForPeers, memberVars, leaderVars
  <2> QED
    BY <2>1, <2>2
<1>10. ASSUME NEW m \in Members, SyncCompleted(m) PROVE TypeInv'
  <2> DEFINE a == notifyLeader(m, leaderId[m], termId[m], "FOLLOWER_FUNCTIONAL", FALSE)
  <2>1. leaderId[m] \in Members
    BY <1>10 DEF SyncCompleted, LeadersKnown
  <2>2. a \in AddToGroupMsgs /\ ~a.awaited
    BY <2>1, StateNames, VersionsAssumption DEF notifyLeader, AddToGroupMsgs, TypeOK
  <2>3. adds' = adds \cup {a}
    BY <1>10 DEF SyncCompleted
  <2> HIDE DEF a
  <2>4. TypeOK'
    BY <1>10, <2>2, <2>3, StateNames DEF SyncCompleted, TypeOK, leaderVars
  <2>5. LeadersKnown' /\ WaitsForPeers'
    BY <1>10, <2>2, <2>3 DEF SyncCompleted, LeadersKnown, WaitsForPeers, TypeOK, leaderVars
  <2> QED
    BY <2>4, <2>5
<1>11. ASSUME NEW m \in Members, SyncOffEventBase(m) PROVE TypeInv'
  BY <1>11, DieType DEF SyncOffEventBase, TypeOK
<1>12. CASE UNCHANGED vars
  BY <1>12 DEF vars, memberVars, leaderVars, netVars, TypeOK, LeadersKnown, WaitsForPeers
<1> QED
  BY <1>1, <1>2, <1>3, <1>4, <1>5, <1>6, <1>7, <1>8, <1>9, <1>10, <1>11, <1>12 DEF Next

(* Type correctness, with what it rests on: a synchronizing member knows its
   leader, a leader waits only for requests of its own to other members. *)
THEOREM TypeCorrect == Spec => []TypeOK
<1>1. TypeInv => TypeOK
  BY DEF TypeInv
<1> QED
  BY <1>1, InitTypeInv, NextTypeInv, PTL DEF Spec

-----------------------------------------------------------------------------
(* The leader's state and its quorum. *)

QuorumExactFor(l) ==
  isLeaderState(l) =>
    (state[l] = "LEADER_FUNCTIONAL" <=> Cardinality(FunctionalPeers(l)) >= Quorum - 1)

(* The quorum state is exact for a member whose state and peers do not change. *)
LEMMA QuorumFrame ==
  ASSUME NEW n \in Members, QuorumExactFor(n), state'[n] = state[n], peers'[n] = peers[n]
  PROVE  QuorumExactFor(n)'
BY DEF QuorumExactFor, FunctionalPeers, isLeaderState

(* ... and for one that does not lead. *)
LEMMA QuorumVacuous ==
  ASSUME NEW n \in Members, state'[n] \notin LeaderStates
  PROVE  QuorumExactFor(n)'
BY DEF QuorumExactFor, isLeaderState

(* changePeerState_ counts again and adjusts the state in both directions. *)
LEMMA ChangeQuorum ==
  ASSUME TypeOK, QuorumStateExact, NEW l \in Members, NEW p \in Members,
         NEW incoming, NEW target, changePeerState(l, p, incoming, target)
  PROVE  QuorumStateExact'
<1> DEFINE nFunctional == Cardinality(FunctionalPeers(l)')
<1>1. nFunctional \in Nat /\ Quorum \in Nat
  BY MemberSets, QuorumAssumption DEF FunctionalPeers
<1>2. CASE p = l
  <2>1. UNCHANGED <<state, peers>>
    BY <1>2 DEF changePeerState
  <2> QED
    BY <2>1, QuorumFrame DEF QuorumStateExact, QuorumExactFor
<1>3. CASE p # l
  <2>1. state' = [state EXCEPT ![l] =
           IF @ = "LEADER_FUNCTIONAL" /\ nFunctional < Quorum - 1
           THEN "LEADER_WAITING_FOR_QUORUM"
           ELSE IF @ = "LEADER_WAITING_FOR_QUORUM" /\ nFunctional >= Quorum - 1
           THEN "LEADER_FUNCTIONAL" ELSE @]
    BY <1>3 DEF changePeerState
  <2>2. QuorumExactFor(l)'
    <3> HIDE DEF nFunctional
    <3>1. state'[l] \in LeaderStates =>
            (state'[l] = "LEADER_FUNCTIONAL" <=> nFunctional >= Quorum - 1)
      BY <1>1, <2>1 DEF TypeOK, LeaderStates
    <3> QED
      BY <3>1 DEF nFunctional, QuorumExactFor, isLeaderState
  <2>3. ASSUME NEW n \in Members, n # l PROVE QuorumExactFor(n)'
    <3>1. state'[n] = state[n]
      BY <2>1, <2>3 DEF TypeOK
    <3>2. peers'[n] = peers[n]
      BY <2>3 DEF changePeerState, TypeOK
    <3> QED
      BY <3>1, <3>2, QuorumFrame DEF QuorumStateExact, QuorumExactFor
  <2> QED
    BY <2>2, <2>3 DEF QuorumStateExact, QuorumExactFor
<1> QED
  BY <1>2, <1>3

(* The end of a process leaves the other members' contexts alone. *)
LEMMA DieQuorum ==
  ASSUME TypeOK, QuorumStateExact, NEW m \in Members, Die(m)
  PROVE  QuorumStateExact'
<1>1. QuorumExactFor(m)'
  <2>1. state'[m] = "UNINITIALIZED"
    BY DEF Die, TypeOK
  <2> QED
    BY <2>1, QuorumVacuous DEF LeaderStates
<1>2. ASSUME NEW n \in Members, n # m PROVE QuorumExactFor(n)'
  <2>1. state'[n] = state[n] /\ peers'[n] = peers[n]
    BY <1>2 DEF Die, TypeOK
  <2> QED
    BY <2>1, QuorumFrame DEF QuorumStateExact, QuorumExactFor
<1> QED
  BY <1>1, <1>2 DEF QuorumStateExact, QuorumExactFor

(* Every step keeps the leader's state exact. *)
LEMMA NextQuorum ==
  ASSUME TypeInv, QuorumStateExact, [Next]_vars
  PROVE  QuorumStateExact'
<1>1. TypeOK /\ WaitsForPeers
  BY DEF TypeInv
<1>2. ASSUME NEW m \in Members, NEW s, s \notin LeaderStates,
             state' = [state EXCEPT ![m] = s], peers' = peers
      PROVE  QuorumStateExact'
  <2>1. QuorumExactFor(m)'
    BY <1>1, <1>2, QuorumVacuous DEF TypeOK
  <2>2. ASSUME NEW n \in Members, n # m PROVE QuorumExactFor(n)'
    BY <1>1, <1>2, <2>2, QuorumFrame DEF TypeOK, QuorumStateExact, QuorumExactFor
  <2> QED
    BY <2>1, <2>2 DEF QuorumStateExact, QuorumExactFor
<1>3. ASSUME UNCHANGED <<state, peers>> PROVE QuorumStateExact'
  BY <1>3, QuorumFrame DEF QuorumStateExact, QuorumExactFor
<1>4. ASSUME NEW m \in Members, Restart(m) PROVE QuorumStateExact'
  BY <1>2, <1>4 DEF Restart, LeaderStates, leaderVars
<1>5. ASSUME NEW m \in Members, SyncCompleted(m) PROVE QuorumStateExact'
  BY <1>2, <1>5 DEF SyncCompleted, LeaderStates, leaderVars
<1>6. ASSUME NEW m \in Members, NEW l \in Members, handleGroupInfoUpdateMsg(m, l)
      PROVE  QuorumStateExact'
  BY <1>2, <1>6 DEF handleGroupInfoUpdateMsg, LeaderStates, leaderVars
<1>7. ASSUME NEW e \in Members, NEW S \in SUBSET Members, ElectLeader(e, S)
      PROVE  QuorumStateExact'
  <2>1. PICK l \in S :
          /\ peers' = [peers EXCEPT ![l] = [p \in Members |->
               IF p \in S \ {l} THEN [state |-> "FOLLOWER_FUNCTIONAL", version |-> 0] ELSE NoPeer]]
          /\ state' = [state EXCEPT ![l] = "LEADER_FUNCTIONAL"]
    BY <1>7 DEF ElectLeader
  <2>2. l \in Members /\ Cardinality(S) >= Quorum
    BY <1>7 DEF ElectLeader
  <2>3. \A p \in Members : peers'[l][p].state = "FOLLOWER_FUNCTIONAL" <=> p \in S \ {l}
    BY <1>1, <2>1, <2>2 DEF TypeOK, NoPeer
  <2>4. FunctionalPeers(l)' = S \ {l}
    BY <2>3 DEF FunctionalPeers
  <2>5. Cardinality(S \ {l}) = Cardinality(S) - 1 /\ Cardinality(S) \in Nat
    BY MemberSets, FS_RemoveElement
  <2>6. state'[l] = "LEADER_FUNCTIONAL"
    BY <1>1, <2>1, <2>2 DEF TypeOK
  <2>7. QuorumExactFor(l)'
    BY <2>2, <2>4, <2>5, <2>6, QuorumAssumption DEF QuorumExactFor
  <2>8. ASSUME NEW n \in Members, n # l PROVE QuorumExactFor(n)'
    <3>1. state'[n] = state[n] /\ peers'[n] = peers[n]
      BY <1>1, <2>1, <2>8 DEF TypeOK
    <3> QED
      BY <3>1, QuorumFrame DEF QuorumStateExact, QuorumExactFor
  <2> QED
    BY <2>2, <2>7, <2>8 DEF QuorumStateExact, QuorumExactFor
<1>8. ASSUME NEW m \in Members, NEW w \in Writes,
             groupWrite(m, w) \/ handleMetadataWrite(w, m) \/ WriteAcked(w, m)
      PROVE  QuorumStateExact'
  BY <1>3, <1>8 DEF groupWrite, handleMetadataWrite, WriteAcked, memberVars
<1>9. ASSUME NEW p \in Members, NEW w \in Writes, WriteFailed(w, p) PROVE QuorumStateExact'
  <2>1. writes[w].by \in Members
    BY <1>1, <1>9 DEF WriteFailed, WaitsForPeers
  <2> QED
    BY <1>1, <1>9, <2>1, ChangeQuorum DEF WriteFailed
<1>10. ASSUME NEW a \in adds, handleAddToGroupMsg(a) PROVE QuorumStateExact'
  <2>1. a.from \in Members /\ a.to \in Members
    BY <1>1 DEF TypeOK, AddToGroupMsgs
  <2> QED
    BY <1>1, <1>10, <2>1, ChangeQuorum DEF handleAddToGroupMsg
<1>11. ASSUME NEW a \in adds, AddToGroupFails(a) PROVE QuorumStateExact'
  <2>1. a.from \in Members
    BY <1>1 DEF TypeOK, AddToGroupMsgs
  <2> QED
    BY <1>1, <1>3, <1>11, <2>1, DieQuorum DEF AddToGroupFails, memberVars, leaderVars
<1>12. ASSUME NEW m \in Members, Crash(m) \/ SyncOffEventBase(m) PROVE QuorumStateExact'
  BY <1>1, <1>12, DieQuorum DEF Crash, SyncOffEventBase
<1>13. CASE UNCHANGED vars
  BY <1>3, <1>13 DEF vars, memberVars, leaderVars
<1> QED
  BY <1>4, <1>5, <1>6, <1>7, <1>8, <1>9, <1>10, <1>11, <1>12, <1>13 DEF Next, Answer

(* A leader is LEADER_FUNCTIONAL exactly while Quorum - 1 of its peers are
   functional, for every group and quorum: the DCHECK of changePeerState_ never
   fails in the leader role, and no write is refused while there is a quorum. *)
THEOREM QuorumStateCorrect == Spec => []QuorumStateExact
<1>1. Init => QuorumStateExact
  BY DEF Init, QuorumStateExact, isLeaderState, LeaderStates
<1> QED
  BY <1>1, InitTypeInv, NextTypeInv, NextQuorum, PTL DEF Spec

-----------------------------------------------------------------------------
(* Writes. *)

Promised(w) == writes[w].reply = "ok" => Cardinality(Holders(w)) >= Quorum
WriteInv(w) == Accounted(w) /\ Promised(w)

(* A step that takes the write from no database, opens no request and counts no
   success keeps what is known of the write. *)
LEMMA WriteFrame ==
  ASSUME NEW w \in Writes, WriteInv(w), writes[w].nSuccess \in Nat,
         writes'[w].by = writes[w].by,
         writes'[w].nSuccess = writes[w].nSuccess,
         writes'[w].reply \in {"none", "ok"} => writes'[w].reply = writes[w].reply,
         \A p \in Members : w \in db[p] => w \in db'[p],
         \A p \in Members : out[w][p].st = "idle" => out'[w][p].st = "idle",
         \A p \in Members : out'[w][p].st = "applied" => w \in db'[p]
  PROVE  WriteInv(w)'
<1>1. Settled(w) \in SUBSET Settled(w)' /\ Settled(w)' \in SUBSET Members
  BY DEF Settled
<1>2. Holders(w) \in SUBSET Holders(w)' /\ Holders(w)' \in SUBSET Members
  BY DEF Holders
<1>3. /\ Cardinality(Settled(w)) \in Nat /\ Cardinality(Settled(w)') \in Nat
      /\ Cardinality(Settled(w)) <= Cardinality(Settled(w)')
  BY <1>1, MemberSets
<1>4. /\ Cardinality(Holders(w)) \in Nat /\ Cardinality(Holders(w)') \in Nat
      /\ Cardinality(Holders(w)) <= Cardinality(Holders(w)')
  BY <1>2, MemberSets
<1>5. writes'[w].nSuccess <= Cardinality(Settled(w)')
  BY <1>3 DEF WriteInv, Accounted
<1>6. Promised(w)'
  BY <1>4, QuorumAssumption DEF WriteInv, Promised
<1>7. writes'[w].reply \in {"none", "ok"} =>
        writes'[w].by \in Members /\ w \in db'[writes'[w].by]
  BY DEF WriteInv, Accounted
<1> QED
  BY <1>5, <1>6, <1>7 DEF WriteInv, Accounted

(* A step that leaves writes, requests and databases alone. *)
LEMMA WriteUnchanged ==
  ASSUME TypeOK, \A w \in Writes : WriteInv(w), UNCHANGED <<writes, out, db>>
  PROVE  \A w \in Writes : WriteInv(w)'
BY DEF WriteInv, Accounted, Promised, Settled, Holders

(* The end of a process: its unanswered writes are lost, no database changes. *)
LEMMA DieWrites ==
  ASSUME TypeOK, \A w \in Writes : WriteInv(w), NEW m \in Members, Die(m)
  PROVE  \A w \in Writes : WriteInv(w)'
<1> SUFFICES ASSUME NEW w \in Writes PROVE WriteInv(w)'
  OBVIOUS
<1>1. writes[w] \in WriteCtx
  BY DEF TypeOK
<1>2. writes'[w] = IF writes[w].by = m /\ writes[w].reply = "none"
                   THEN [writes[w] EXCEPT !.reply = "lost"] ELSE writes[w]
  BY DEF Die
<1>3. /\ writes'[w].by = writes[w].by /\ writes'[w].nSuccess = writes[w].nSuccess
      /\ writes[w].nSuccess \in Nat
      /\ writes'[w].reply \in {"none", "ok"} => writes'[w].reply = writes[w].reply
  BY <1>1, <1>2 DEF WriteCtx
<1>4. db' = db /\ out'[w] \in {NoOut, out[w]}
  BY DEF Die
<1>5. \A p \in Members : NoOut[p].st = "idle"
  BY DEF NoOut, NoSlot
<1>6. \A p \in Members : out[w][p].st = "applied" => w \in db[p]
  BY DEF WriteInv, Accounted
<1>7. /\ \A p \in Members : out[w][p].st = "idle" => out'[w][p].st = "idle"
      /\ \A p \in Members : out'[w][p].st = "applied" => w \in db'[p]
  BY <1>4, <1>5, <1>6
<1> QED
  BY <1>3, <1>4, <1>7, WriteFrame

(* A new write: the leader has it, nothing is counted. *)
LEMMA GroupWriteWrites ==
  ASSUME TypeInv, \A w \in Writes : WriteInv(w),
         NEW l \in Members, NEW w \in Writes, groupWrite(l, w)
  PROVE  \A v \in Writes : WriteInv(v)'
<1>1. /\ \A v \in Writes : v # w => writes'[v] = writes[v] /\ out'[v] = out[v]
      /\ writes'[w].by = l /\ writes'[w].nSuccess = 0
      /\ \A p \in Members : out'[w][p].st \in {"idle", "sent"}
  BY GroupWriteType
<1>2. \/ writes'[w].reply = "none" /\ db' = [db EXCEPT ![l] = @ \cup {w}]
      \/ writes'[w].reply = "error" /\ db' = db
  BY GroupWriteType
<1>3. \A v \in Writes, p \in Members : v \in db[p] => v \in db'[p]
  BY <1>2 DEF TypeInv, TypeOK
<1>4. WriteInv(w)'
  <2>1. Cardinality(Settled(w)') \in Nat
    BY MemberSets DEF Settled
  <2>2. writes'[w].reply = "none" => w \in db'[l]
    BY <1>2 DEF TypeInv, TypeOK
  <2>3. writes'[w].reply \in {"none", "error"}
    BY <1>2
  <2>4. Promised(w)'
    BY <2>3 DEF Promised
  <2>5. \A p \in Members : out'[w][p].st # "applied"
    BY <1>1
  <2> QED
    BY <1>1, <2>1, <2>2, <2>3, <2>4, <2>5 DEF WriteInv, Accounted
<1>5. ASSUME NEW v \in Writes, v # w PROVE WriteInv(v)'
  <2>1. writes'[v] = writes[v] /\ out'[v] = out[v]
    BY <1>1, <1>5
  <2>2. \A p \in Members : out'[v][p].st = "applied" => v \in db'[p]
    BY <1>3, <2>1 DEF WriteInv, Accounted
  <2>3. writes[v].nSuccess \in Nat
    BY DEF TypeInv, TypeOK, WriteCtx
  <2> QED
    BY <1>3, <2>1, <2>2, <2>3, WriteFrame
<1> QED
  BY <1>4, <1>5

(* A peer's handler answers "applied" only when its database has the write. *)
LEMMA PeerWriteWrites ==
  ASSUME TypeOK, \A w \in Writes : WriteInv(w),
         NEW w \in Writes, NEW p \in Members, handleMetadataWrite(w, p)
  PROVE  \A v \in Writes : WriteInv(v)'
<1>1. PICK st \in {"applied", "rejected"} :
        /\ Answered(w, p, st)
        /\ st = "applied" => w \in db'[p]
        /\ db' = db \/ db' = [db EXCEPT ![p] = @ \cup {w}]
  BY DEF handleMetadataWrite, TypeOK
<1>2. /\ \A v \in Writes, q \in Members :
           /\ <<v, q>> # <<w, p>> => out'[v][q] = out[v][q]
           /\ out'[v][q].st = "idle" <=> out[v][q].st = "idle"
      /\ out'[w][p].st \in {out[w][p].st, st}
  BY <1>1, AnsweredType
<1>3. \A v \in Writes, q \in Members : v \in db[q] => v \in db'[q]
  BY <1>1 DEF TypeOK
<1>4. \A v \in Writes, q \in Members : out[v][q].st = "applied" => v \in db[q]
  BY DEF WriteInv, Accounted
<1>5. ASSUME NEW v \in Writes, NEW q \in Members, out'[v][q].st = "applied" PROVE v \in db'[q]
  <2>1. CASE <<v, q>> = <<w, p>>
    <3>1. v = w /\ q = p
      BY <2>1
    <3>2. CASE st = "applied"
      BY <1>1, <3>1, <3>2
    <3>3. CASE st = "rejected"
      <4>1. out[w][p].st = "applied"
        BY <1>2, <1>5, <3>1, <3>3
      <4> QED
        BY <1>3, <1>4, <3>1, <4>1
    <3> QED
      BY <3>2, <3>3
  <2>2. CASE <<v, q>> # <<w, p>>
    BY <1>2, <1>3, <1>4, <1>5, <2>2
  <2> QED
    BY <2>1, <2>2
<1>6. writes' = writes
  BY DEF handleMetadataWrite
<1> SUFFICES ASSUME NEW v \in Writes PROVE WriteInv(v)'
  OBVIOUS
<1>7. writes[v].nSuccess \in Nat
  BY DEF TypeOK, WriteCtx
<1>8. \A q \in Members : out[v][q].st = "idle" => out'[v][q].st = "idle"
  BY <1>2
<1> QED
  BY <1>3, <1>5, <1>6, <1>7, <1>8, WriteFrame

(* The answers to one write leave every other write alone. *)
LEMMA OtherWrites ==
  ASSUME TypeOK, NEW w \in Writes, NEW p \in Members, WriteInv(w),
         NEW v \in Writes, v # w, WriteInv(v), NEW c,
         out' = [out EXCEPT ![w][p] = NoSlot],
         writes' = [writes EXCEPT ![w] = c],
         db' = db
  PROVE  WriteInv(v)'
<1>1. writes'[v] = writes[v]
  BY DEF TypeOK
<1>2. \A q \in Members : out'[v][q] = out[v][q]
  BY SlotCleared
<1>3. \A q \in Members : out[v][q].st = "applied" => v \in db[q]
  BY DEF WriteInv, Accounted
<1>4. writes[v].nSuccess \in Nat
  BY DEF TypeOK, WriteCtx
<1> QED
  BY <1>1, <1>2, <1>3, <1>4, WriteFrame

(* A success is counted when the peer that has the write becomes settled.  At
   Quorum - 1 of them, they and the leader hold the write. *)
LEMMA WriteAckedWrites ==
  ASSUME TypeInv, \A w \in Writes : WriteInv(w),
         NEW w \in Writes, NEW p \in Members, WriteAcked(w, p)
  PROVE  \A v \in Writes : WriteInv(v)'
<1> DEFINE by == writes[w].by
<1>1. /\ out[w][p].st = "applied" /\ out' = [out EXCEPT ![w][p] = NoSlot] /\ db' = db
      /\ writes' = [writes EXCEPT ![w] = Succeeded(writes[w])]
  BY DEF WriteAcked, memberVars
<1>2. by \in Members /\ p # by
  BY <1>1 DEF TypeInv, WaitsForPeers
<1>3. writes[w] \in WriteCtx
  BY DEF TypeInv, TypeOK
<1>4. /\ writes'[w].by = by /\ writes'[w].nSuccess = writes[w].nSuccess + 1
      /\ writes'[w].reply = IF writes[w].reply = "none" /\ writes[w].nSuccess + 1 = Quorum - 1
                            THEN "ok" ELSE writes[w].reply
  BY <1>1, <1>3, CtxType DEF TypeInv, TypeOK
<1>5. \A q \in Members : out'[w][q] = IF q = p THEN NoSlot ELSE out[w][q]
  BY <1>1, SlotCleared DEF TypeInv
<1>6. /\ \A q \in Members : out[w][q].st = "applied" => w \in db[q]
      /\ writes[w].reply \in {"none", "ok"} => w \in db[by]
      /\ writes[w].nSuccess <= Cardinality(Settled(w))
      /\ writes[w].reply = "ok" => Cardinality(Holders(w)) >= Quorum
  BY DEF WriteInv, Accounted, Promised
<1>7. Settled(w)' = Settled(w) \cup {p} /\ p \notin Settled(w)
  BY <1>1, <1>2, <1>4, <1>5, <1>6 DEF Settled, NoSlot
<1>8. Settled(w) \in SUBSET Members /\ Settled(w)' \in SUBSET Members
  BY DEF Settled
<1>9. /\ Cardinality(Settled(w)) \in Nat
      /\ Cardinality(Settled(w)') = Cardinality(Settled(w)) + 1
  BY <1>7, <1>8, MemberSets, FS_AddElement
<1>10. writes'[w].nSuccess <= Cardinality(Settled(w)')
  BY <1>3, <1>4, <1>6, <1>9 DEF WriteCtx
<1>11. Promised(w)'
  <2>1. CASE writes'[w].reply = writes[w].reply
    <3>1. Holders(w)' = Holders(w)
      BY <1>1 DEF Holders
    <3> QED
      BY <1>6, <2>1, <3>1 DEF Promised
  <2>2. CASE writes[w].reply = "none" /\ writes[w].nSuccess + 1 = Quorum - 1
    <3> DEFINE H == Settled(w)' \cup {by}
    <3>1. by \notin Settled(w)'
      BY <1>4 DEF Settled
    <3>2. Cardinality(H) = Cardinality(Settled(w)') + 1
      BY <1>8, <3>1, MemberSets, FS_AddElement
    <3>3. H \in SUBSET Holders(w)' /\ Holders(w)' \in SUBSET Members
      BY <1>1, <1>2, <1>6, <2>2 DEF Settled, Holders
    <3>4. Cardinality(Holders(w)') \in Nat /\ Cardinality(H) <= Cardinality(Holders(w)')
      BY <3>3, MemberSets
    <3> HIDE DEF H
    <3>5. Cardinality(Holders(w)') >= Quorum
      BY <1>4, <1>9, <1>10, <2>2, <3>2, <3>4, QuorumAssumption
    <3> QED
      BY <3>5 DEF Promised
  <2> QED
    BY <1>4, <2>1, <2>2
<1>12. /\ writes'[w].reply \in {"none", "ok"} =>
            writes'[w].by \in Members /\ w \in db'[writes'[w].by]
       /\ \A q \in Members : out'[w][q].st = "applied" => w \in db'[q]
  <2>1. \A q \in Members : out'[w][q].st = "applied" => w \in db'[q]
    BY <1>1, <1>5, <1>6 DEF NoSlot
  <2>2. writes'[w].reply \in {"none", "ok"} => writes[w].reply \in {"none", "ok"}
    BY <1>4
  <2> QED
    BY <1>1, <1>2, <1>4, <1>6, <2>1, <2>2
<1>13. WriteInv(w)'
  BY <1>10, <1>11, <1>12 DEF WriteInv, Accounted
<1>14. ASSUME NEW v \in Writes, v # w PROVE WriteInv(v)'
  BY <1>1, <1>14, OtherWrites DEF TypeInv
<1> QED
  BY <1>13, <1>14

(* A failure counts no success. *)
LEMMA WriteFailedWrites ==
  ASSUME TypeOK, \A w \in Writes : WriteInv(w),
         NEW w \in Writes, NEW p \in Members, WriteFailed(w, p)
  PROVE  \A v \in Writes : WriteInv(v)'
<1>1. /\ out' = [out EXCEPT ![w][p] = NoSlot] /\ db' = db
      /\ writes' = [writes EXCEPT ![w] = Failed(writes[w])]
  BY DEF WriteFailed
<1>2. writes[w] \in WriteCtx
  BY DEF TypeOK
<1>3. writes'[w] = Failed(writes[w])
  BY <1>1 DEF TypeOK
<1>4. /\ writes[w].nSuccess \in Nat
      /\ writes'[w].by = writes[w].by /\ writes'[w].nSuccess = writes[w].nSuccess
      /\ writes'[w].reply \in {"none", "ok"} => writes'[w].reply = writes[w].reply
  BY <1>2, <1>3, CtxType DEF WriteCtx
<1>5. \A q \in Members : out'[w][q] = IF q = p THEN NoSlot ELSE out[w][q]
  BY <1>1, SlotCleared
<1>6. \A q \in Members : out[w][q].st = "applied" => w \in db[q]
  BY DEF WriteInv, Accounted
<1>7. /\ \A q \in Members : out[w][q].st = "idle" => out'[w][q].st = "idle"
      /\ \A q \in Members : out'[w][q].st = "applied" => w \in db'[q]
  BY <1>1, <1>5, <1>6 DEF NoSlot
<1>8. WriteInv(w)'
  BY <1>1, <1>4, <1>7, WriteFrame
<1>9. ASSUME NEW v \in Writes, v # w PROVE WriteInv(v)'
  BY <1>1, <1>9, OtherWrites
<1> QED
  BY <1>8, <1>9

(* Every step keeps what is known of every write. *)
LEMMA NextWrites ==
  ASSUME TypeInv, \A w \in Writes : WriteInv(w), [Next]_vars
  PROVE  \A w \in Writes : WriteInv(w)'
<1>1. TypeOK
  BY DEF TypeInv
<1>2. ASSUME NEW m \in Members, Crash(m) \/ SyncOffEventBase(m)
      PROVE  \A w \in Writes : WriteInv(w)'
  BY <1>1, <1>2, DieWrites DEF Crash, SyncOffEventBase
<1>3. ASSUME NEW m \in Members, Restart(m) \/ SyncCompleted(m)
      PROVE  \A w \in Writes : WriteInv(w)'
  BY <1>1, <1>3, WriteUnchanged DEF Restart, SyncCompleted, leaderVars
<1>4. ASSUME NEW m \in Members, NEW S \in SUBSET Members, ElectLeader(m, S)
      PROVE  \A w \in Writes : WriteInv(w)'
  BY <1>1, <1>4, WriteUnchanged DEF ElectLeader
<1>5. ASSUME NEW m \in Members, NEW l \in Members, handleGroupInfoUpdateMsg(m, l)
      PROVE  \A w \in Writes : WriteInv(w)'
  BY <1>1, <1>5, WriteUnchanged DEF handleGroupInfoUpdateMsg, leaderVars
<1>6. ASSUME NEW m \in Members, NEW w \in Writes, groupWrite(m, w)
      PROVE  \A v \in Writes : WriteInv(v)'
  BY <1>6, GroupWriteWrites
<1>7. ASSUME NEW m \in Members, NEW w \in Writes, handleMetadataWrite(w, m)
      PROVE  \A v \in Writes : WriteInv(v)'
  BY <1>1, <1>7, PeerWriteWrites
<1>8. ASSUME NEW m \in Members, NEW w \in Writes, Answer(w, m)
      PROVE  \A v \in Writes : WriteInv(v)'
  BY <1>1, <1>8, WriteAckedWrites, WriteFailedWrites DEF Answer
<1>9. ASSUME NEW a \in adds, handleAddToGroupMsg(a)
      PROVE  \A w \in Writes : WriteInv(w)'
  BY <1>1, <1>9, WriteUnchanged DEF handleAddToGroupMsg
<1>10. ASSUME NEW a \in adds, AddToGroupFails(a)
       PROVE  \A w \in Writes : WriteInv(w)'
  <2>1. a.from \in Members
    BY <1>1 DEF TypeOK, AddToGroupMsgs
  <2> QED
    BY <1>1, <1>10, <2>1, DieWrites, WriteUnchanged DEF AddToGroupFails, memberVars, leaderVars
<1>11. CASE UNCHANGED vars
  BY <1>1, <1>11, WriteUnchanged DEF vars, memberVars, leaderVars
<1> QED
  BY <1>2, <1>3, <1>4, <1>5, <1>6, <1>7, <1>8, <1>9, <1>10, <1>11 DEF Next

(* No write has been counted at the start. *)
LEMMA InitWrites == Init => \A w \in Writes : WriteInv(w)
<1> SUFFICES ASSUME Init, NEW w \in Writes PROVE WriteInv(w)
  OBVIOUS
<1>1. writes[w] = NoWrite /\ \A p \in Members : out[w][p].st = "idle"
  BY DEF Init, NoOut, NoSlot
<1>2. Settled(w) \in SUBSET Members
  BY DEF Settled
<1>3. Cardinality(Settled(w)) \in Nat
  BY <1>2, MemberSets
<1> QED
  BY <1>1, <1>3 DEF WriteInv, Accounted, Promised, NoWrite

(* A write whose client was told it succeeded is in the databases of a quorum,
   for every group, every quorum and every number of writes, elections, crashes
   and joins: writeToPeers counts a peer only when the peer's database has the
   write, counts it once, and the leader applied the write before. *)
THEOREM AckedCorrect == Spec => []AckedOnQuorum
<1> DEFINE Inv == TypeInv /\ \A w \in Writes : WriteInv(w)
<1>1. Init => Inv
  BY InitTypeInv, InitWrites
<1>2. Inv /\ [Next]_vars => Inv'
  BY NextTypeInv, NextWrites
<1>3. Inv => AckedOnQuorum
  BY DEF WriteInv, Promised, AckedOnQuorum
<1> QED
  BY <1>1, <1>2, <1>3, PTL DEF Spec

-----------------------------------------------------------------------------
(* Refinement of ReplicatedWrites. *)

(* What the client of a write knows, as the refinement maps it. *)
Told(w) == IF writes[w].reply \in {"ok", "error"} THEN writes[w].reply ELSE "none"

(* Steps that change no database and no answer. *)
LEMMA AbsStutter ==
  ASSUME db' = db, \A w \in Writes : Told(w)' = Told(w)
  PROVE  UNCHANGED Promise!absVars
BY DEF Promise!absVars, Holders, Told

(* Steps that add a write to one database and give no answer. *)
LEMMA AbsApply ==
  ASSUME TypeOK, NEW w \in Writes, NEW m \in Members,
         db' = [db EXCEPT ![m] = @ \cup {w}], \A v \in Writes : Told(v)' = Told(v)
  PROVE  Promise!Apply(w, m)
<1>1. Holders(w)' = Holders(w) \cup {m}
  BY DEF Holders, TypeOK
<1>2. \A v \in Writes : v # w => Holders(v)' = Holders(v)
  BY DEF Holders, TypeOK
<1> QED
  BY <1>1, <1>2 DEF Promise!Apply, Told

(* Steps that answer one write and change no database. *)
LEMMA AbsAnswer ==
  ASSUME NEW w \in Writes, db' = db, Told(w) = "none",
         \A v \in Writes : v # w => Told(v)' = Told(v)
  PROVE  /\ Told(w)' = "error" => Promise!Fail(w)
         /\ Told(w)' = "ok" /\ Cardinality(Holders(w)) >= Quorum => Promise!Succeed(w)
<1>1. \A v \in Writes : Holders(v)' = Holders(v)
  BY DEF Holders
<1>2. Promise!Cardinality(Holders(w)) = Cardinality(Holders(w))
  BY DEF Promise!Cardinality, Cardinality
<1>3. Told(w)' = "error" => Promise!Fail(w)
  BY <1>1 DEF Promise!Fail, Told
<1>4. Told(w)' = "ok" /\ Cardinality(Holders(w)) >= Quorum => Promise!Succeed(w)
  BY <1>1, <1>2 DEF Promise!Succeed, Told
<1> QED
  BY <1>3, <1>4

(* Every step is one of the promise's steps, or none. *)
LEMMA NextPromise ==
  ASSUME TypeInv, \A w \in Writes : WriteInv(w), \A w \in Writes : WriteInv(w)', [Next]_vars
  PROVE  [Promise!AbsNext]_(Promise!absVars)
<1>1. TypeOK
  BY DEF TypeInv
<1>2. ASSUME UNCHANGED <<db, writes>> PROVE UNCHANGED Promise!absVars
  BY <1>2, AbsStutter DEF Told
<1>3. ASSUME NEW m \in Members, Die(m) PROVE UNCHANGED Promise!absVars
  <2>1. ASSUME NEW w \in Writes PROVE Told(w)' = Told(w)
    <3>1. writes[w] \in WriteCtx
      BY <1>1 DEF TypeOK
    <3>2. writes'[w] = IF writes[w].by = m /\ writes[w].reply = "none"
                       THEN [writes[w] EXCEPT !.reply = "lost"] ELSE writes[w]
      BY <1>3 DEF Die
    <3> QED
      BY <3>1, <3>2 DEF Told, WriteCtx
  <2> QED
    BY <1>3, <2>1, AbsStutter DEF Die
<1>4. ASSUME NEW l \in Members, NEW w \in Writes, groupWrite(l, w)
      PROVE  Promise!Apply(w, l) \/ Promise!Fail(w)
  <2>1. Told(w) = "none"
    BY <1>4 DEF groupWrite, Told
  <2>2. \A v \in Writes : v # w => Told(v)' = Told(v)
    BY <1>4, GroupWriteType DEF Told
  <2>3. CASE writes'[w].reply = "none" /\ db' = [db EXCEPT ![l] = @ \cup {w}]
    <3>1. Told(w)' = Told(w)
      BY <2>1, <2>3 DEF Told
    <3> QED
      BY <1>1, <2>2, <2>3, <3>1, AbsApply
  <2>4. CASE writes'[w].reply = "error" /\ db' = db
    <3>1. Told(w)' = "error"
      BY <2>4 DEF Told
    <3> QED
      BY <2>1, <2>2, <2>4, <3>1, AbsAnswer
  <2> QED
    BY <1>4, <2>3, <2>4, GroupWriteType
<1>5. ASSUME NEW p \in Members, NEW w \in Writes, handleMetadataWrite(w, p)
      PROVE  Promise!Apply(w, p) \/ UNCHANGED Promise!absVars
  <2>1. \A v \in Writes : Told(v)' = Told(v)
    BY <1>5 DEF handleMetadataWrite, Told
  <2>2. db' = [db EXCEPT ![p] = @ \cup {w}] \/ db' = db
    BY <1>5 DEF handleMetadataWrite
  <2> QED
    BY <1>1, <2>1, <2>2, AbsApply, AbsStutter
<1>6. ASSUME NEW p \in Members, NEW w \in Writes, WriteAcked(w, p)
      PROVE  Promise!Succeed(w) \/ UNCHANGED Promise!absVars
  <2>1. db' = db /\ writes' = [writes EXCEPT ![w] = Succeeded(writes[w])]
    BY <1>6 DEF WriteAcked, memberVars
  <2>2. writes[w] \in WriteCtx /\ writes'[w] = Succeeded(writes[w])
    BY <1>1, <2>1 DEF TypeOK
  <2>3. \A v \in Writes : v # w => Told(v)' = Told(v)
    BY <1>1, <2>1 DEF TypeOK, Told
  <2>4. \/ writes'[w].reply = writes[w].reply
        \/ writes[w].reply = "none" /\ writes'[w].reply = "ok"
    BY <2>2, CtxType
  <2>5. CASE writes'[w].reply = writes[w].reply
    <3>1. Told(w)' = Told(w)
      BY <2>5 DEF Told
    <3> QED
      BY <2>1, <2>3, <3>1, AbsStutter
  <2>6. CASE writes[w].reply = "none" /\ writes'[w].reply = "ok"
    <3>1. Told(w) = "none" /\ Told(w)' = "ok"
      BY <2>6 DEF Told
    <3>2. Holders(w)' = Holders(w)
      BY <2>1 DEF Holders
    <3>3. Cardinality(Holders(w)) >= Quorum
      BY <2>6, <3>2 DEF WriteInv, Promised
    <3> QED
      BY <2>1, <2>3, <3>1, <3>3, AbsAnswer
  <2> QED
    BY <2>4, <2>5, <2>6
<1>7. ASSUME NEW p \in Members, NEW w \in Writes, WriteFailed(w, p)
      PROVE  Promise!Fail(w) \/ UNCHANGED Promise!absVars
  <2>1. db' = db /\ writes' = [writes EXCEPT ![w] = Failed(writes[w])]
    BY <1>7 DEF WriteFailed
  <2>2. writes[w] \in WriteCtx /\ writes'[w] = Failed(writes[w])
    BY <1>1, <2>1 DEF TypeOK
  <2>3. \A v \in Writes : v # w => Told(v)' = Told(v)
    BY <1>1, <2>1 DEF TypeOK, Told
  <2>4. \/ writes'[w].reply = writes[w].reply
        \/ writes[w].reply = "none" /\ writes'[w].reply = "error"
    BY <2>2, CtxType
  <2>5. CASE writes'[w].reply = writes[w].reply
    <3>1. Told(w)' = Told(w)
      BY <2>5 DEF Told
    <3> QED
      BY <2>1, <2>3, <3>1, AbsStutter
  <2>6. CASE writes[w].reply = "none" /\ writes'[w].reply = "error"
    <3>1. Told(w) = "none" /\ Told(w)' = "error"
      BY <2>6 DEF Told
    <3> QED
      BY <2>1, <2>3, <3>1, AbsAnswer
  <2> QED
    BY <2>4, <2>5, <2>6
<1>8. ASSUME NEW m \in Members,
             \/ Crash(m) \/ Restart(m) \/ SyncCompleted(m) \/ SyncOffEventBase(m)
             \/ \E S \in SUBSET Members : ElectLeader(m, S)
             \/ \E l \in Members : handleGroupInfoUpdateMsg(m, l)
      PROVE  UNCHANGED Promise!absVars
  BY <1>2, <1>3, <1>8 DEF Crash, Restart, SyncCompleted, SyncOffEventBase, ElectLeader,
       handleGroupInfoUpdateMsg, leaderVars
<1>9. ASSUME NEW a \in adds, handleAddToGroupMsg(a) \/ AddToGroupFails(a)
      PROVE  UNCHANGED Promise!absVars
  <2>1. a.from \in Members
    BY <1>1 DEF TypeOK, AddToGroupMsgs
  <2> QED
    BY <1>2, <1>3, <1>9, <2>1 DEF handleAddToGroupMsg, AddToGroupFails, memberVars, leaderVars
<1>10. CASE UNCHANGED vars
  BY <1>2, <1>10 DEF vars, memberVars, leaderVars
<1>11. CASE \E m \in Members, w \in Writes :
              groupWrite(m, w) \/ handleMetadataWrite(w, m) \/ Answer(w, m)
  <2>1. PICK m \in Members, w \in Writes :
          groupWrite(m, w) \/ handleMetadataWrite(w, m) \/ WriteAcked(w, m) \/ WriteFailed(w, m)
    BY <1>11 DEF Answer
  <2>2. \/ Promise!Apply(w, m) \/ Promise!Succeed(w) \/ Promise!Fail(w)
        \/ UNCHANGED Promise!absVars
    BY <1>4, <1>5, <1>6, <1>7, <2>1
  <2> QED
    BY <2>2 DEF Promise!AbsNext
<1> QED
  BY <1>8, <1>9, <1>10, <1>11 DEF Next

(* The replication protocol implements what the group promises its clients, for
   every group and quorum: every step of a leader, a peer, a crash or a join is
   one application, one answer, or invisible to the clients. *)
THEOREM PromiseKept == Spec => ImplementsPromise
<1> DEFINE Inv == TypeInv /\ \A w \in Writes : WriteInv(w)
<1>1. Init => Inv
  BY InitTypeInv, InitWrites
<1>2. Inv /\ [Next]_vars => Inv'
  BY NextTypeInv, NextWrites
<1>3. Init => Promise!AbsInit
  BY DEF Init, NoWrite, Holders, Promise!AbsInit
<1>4. Inv /\ Inv' /\ [Next]_vars => [Promise!AbsNext]_(Promise!absVars)
  BY NextPromise
<1> QED
  BY <1>1, <1>2, <1>3, <1>4, PTL DEF Spec, ImplementsPromise, Promise!AbsSpec
=============================================================================
