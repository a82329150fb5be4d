------------------------- MODULE PBGroupTerm_proofs -------------------------
(***************************************************************************)
(* Proofs about PBGroup within the term of the first leader: how the       *)
(* journals and the databases of the peers follow those of the leader.     *)
(***************************************************************************)
EXTENDS PBGroup_proofs

-----------------------------------------------------------------------------
(* The inductive invariants. *)

(* Every journal is a run of consecutive ids, in every term. *)
Gapless ==
  \A m \in Members : \A i, j \in 1..Len(journal[m]) :
    journal[m][j].id = journal[m][i].id + (j - i)

(* A write that was not made is nowhere, and no leader sends one to itself. *)
UsedOnly ==
  /\ \A w \in Writes, p \in Members :
       <<w, p>> \in inbox => writes[w].reply # "unused" /\ writes[w].by # p
  /\ \A w \in Writes, p \in Members : w \in db[p] => writes[w].reply # "unused"

Entry(w) == [id |-> writes[w].id, w |-> w]
Journalled(l, e) == \E k \in 1..Len(journal[l]) : journal[l][k] = e

(* What is in a journal or on its way to one is in the journal of l. *)
FollowsFrom(l) ==
  /\ \A w \in Writes, p \in Members : <<w, p>> \in inbox => Journalled(l, Entry(w))
  /\ \A m \in Members : \A i \in 1..Len(journal[m]) : Journalled(l, journal[m][i])

(* Before the first election nothing is written.  Until the second there is one
   leader, and everything written is its own. *)
BeforeTerm ==
  term = 0 => /\ inbox = {}
              /\ \A m \in Members : journal[m] = <<>> /\ ~isLeaderState(m)
              /\ \A w \in Writes : writes[w].reply = "unused"
FirstTerm ==
  term <= 1 => \A l \in Members : isLeaderState(l) =>
                 /\ FollowsFrom(l)
                 /\ \A m \in Members : isLeaderState(m) => m = l

TermInv == Gapless /\ UsedOnly /\ BeforeTerm /\ FirstTerm

(* No peer is half way in, and every request was sent to a peer of version 0, the
   version a functional peer has. *)
PeersPlain ==
  /\ \A l, p \in Members :
       /\ peers[l][p].state # "FOLLOWER_SYNCING"
       /\ peers[l][p].state = "FOLLOWER_FUNCTIONAL" => peers[l][p].version = 0
  /\ \A w \in Writes, p \in Members : out[w][p].st # "idle" => out[w][p].prior = 0

(* As long as nobody joins. *)
NoJoins == joins = 0 => adds = {} /\ (\A m \in Members : sync[m] = "idle") /\ PeersPlain

(* A functional peer has every write its leader has, or the leader waits for it. *)
AwaitedOrApplied(l) ==
  \A p \in FunctionalPeers(l), w \in Writes :
    writes[w].by = l /\ w \in db[l] => w \in db[p] \/ out[w][p].st # "idle"
PeersFollow ==
  term <= 1 /\ joins = 0 => \A l \in Members : isLeaderState(l) => AwaitedOrApplied(l)

-----------------------------------------------------------------------------
(* Journals. *)

(* What a journal holds after an entry was appended. *)
LEMMA Appended ==
  ASSUME TypeOK, NEW m \in Members, NEW e \in Entries,
         journal' = [journal EXCEPT ![m] = Append(@, e)]
  PROVE  /\ \A n \in Members : n # m => journal'[n] = journal[n]
         /\ Len(journal[m]) \in Nat
         /\ Len(journal'[m]) = Len(journal[m]) + 1
         /\ journal'[m][Len(journal[m]) + 1] = e
         /\ \A i \in 1..Len(journal[m]) : journal'[m][i] = journal[m][i]
<1>1. journal[m] \in Seq(Entries) /\ journal'[m] = Append(journal[m], e)
  BY DEF TypeOK
<1>2. \A n \in Members : n # m => journal'[n] = journal[n]
  BY DEF TypeOK
<1> QED
  BY <1>1, <1>2, AppendProperties, LenProperties

(* What was in a journal still is after an append to any journal. *)
LEMMA JournalledStays ==
  ASSUME TypeOK, NEW m \in Members, NEW e \in Entries,
         journal' = [journal EXCEPT ![m] = Append(@, e)],
         NEW l \in Members, NEW x, Journalled(l, x)
  PROVE  Journalled(l, x)'
<1>1. PICK k \in 1..Len(journal[l]) : journal[l][k] = x
  BY DEF Journalled
<1>2. k \in 1..Len(journal'[l]) /\ journal'[l][k] = x
  BY <1>1, Appended
<1> QED
  BY <1>2 DEF Journalled

(* The ids of entries are numbers. *)
LEMMA IdType ==
  ASSUME TypeOK, NEW m \in Members
  PROVE  Len(journal[m]) \in Nat /\ \A i \in 1..Len(journal[m]) : journal[m][i].id \in Int
<1>1. journal[m] \in Seq(Entries)
  BY DEF TypeOK
<1>2. \A i \in 1..Len(journal[m]) : journal[m][i] \in Entries
  BY <1>1, ElementOfSeq
<1>3. \A x \in Entries : x.id \in Int
  BY DEF Entries
<1> QED
  BY <1>1, <1>2, <1>3, LenProperties

(* addEntry admits only the next id: no journal gets a gap. *)
LEMMA GaplessStays ==
  ASSUME TypeOK, Gapless, NEW m \in Members, NEW e \in Entries, addEntryOk(journal[m], e.id),
         journal' = [journal EXCEPT ![m] = Append(@, e)]
  PROVE  Gapless'
<1> DEFINE n == Len(journal[m])
<1>1. /\ n \in Nat /\ Len(journal'[m]) = n + 1 /\ journal'[m][n + 1] = e
      /\ \A i \in 1..n : journal'[m][i] = journal[m][i]
      /\ \A k \in Members : k # m => journal'[k] = journal[k]
  BY Appended
<1>2. n > 0 => journal[m][n].id + 1 = e.id
  <2>1. journal[m] = <<>> => n = 0
    OBVIOUS
  <2> QED
    BY <1>1, <2>1 DEF addEntryOk
<1> HIDE DEF n
<1>3. e.id \in Int /\ \A i \in 1..n : journal[m][i].id \in Int
  <2>1. e.id \in Int
    BY DEF Entries
  <2> QED
    BY <2>1, IdType DEF n
<1>4. \A i, j \in 1..n : journal[m][j].id = journal[m][i].id + (j - i)
  BY DEF Gapless, n
<1>5. ASSUME NEW i \in 1..(n + 1), NEW j \in 1..(n + 1)
      PROVE  journal'[m][j].id = journal'[m][i].id + (j - i)
  <2>1. CASE i \in 1..n /\ j \in 1..n
    BY <1>1, <1>4, <2>1
  <2>2. CASE i \in 1..n /\ j = n + 1
    <3>1. n \in 1..n
      BY <1>1, <2>2
    <3>2. journal[m][n].id = journal[m][i].id + (n - i)
      BY <1>4, <2>2, <3>1
    <3>3. /\ n > 0 /\ i \in Int /\ journal'[m][i].id = journal[m][i].id
          /\ journal'[m][j].id = e.id /\ journal[m][i].id \in Int
      BY <1>1, <1>3, <2>2
    <3> QED
      BY <1>1, <1>2, <2>2, <3>2, <3>3
  <2>3. CASE i = n + 1 /\ j \in 1..n
    <3>1. n \in 1..n
      BY <1>1, <2>3
    <3>2. journal[m][n].id = journal[m][j].id + (n - j)
      BY <1>4, <2>3, <3>1
    <3>3. /\ n > 0 /\ j \in Int /\ journal'[m][j].id = journal[m][j].id
          /\ journal'[m][i].id = e.id /\ journal[m][j].id \in Int
      BY <1>1, <1>3, <2>3
    <3> QED
      BY <1>1, <1>2, <2>3, <3>2, <3>3
  <2>4. CASE i = n + 1 /\ j = n + 1
    BY <1>1, <1>3, <2>4
  <2> QED
    BY <1>1, <2>1, <2>2, <2>3, <2>4
<1>6. ASSUME NEW k \in Members, k # m, NEW i \in 1..Len(journal'[k]), NEW j \in 1..Len(journal'[k])
      PROVE  journal'[k][j].id = journal'[k][i].id + (j - i)
  BY <1>1, <1>6 DEF Gapless
<1> SUFFICES ASSUME NEW k \in Members,
                    NEW i \in 1..Len(journal'[k]), NEW j \in 1..Len(journal'[k])
             PROVE  journal'[k][j].id = journal'[k][i].id + (j - i)
  BY DEF Gapless
<1>7. CASE k = m
  <2>1. i \in 1..(n + 1) /\ j \in 1..(n + 1)
    BY <1>1, <1>7
  <2> QED
    BY <1>5, <1>7, <2>1
<1> QED
  BY <1>6, <1>7

(* Steps that write nothing: journals stay or are lost with a process that does not
   lead, nobody becomes leader, requests are at most lost. *)
LEMMA TermFrame ==
  ASSUME TypeOK, TermInv, inbox' \subseteq inbox, db' = db, term' = term,
         \A m \in Members : journal'[m] = journal[m]
                            \/ (journal'[m] = <<>> /\ state'[m] \notin LeaderStates),
         \A m \in Members : state'[m] \in LeaderStates => state[m] \in LeaderStates,
         \A w \in Writes : /\ writes'[w].by = writes[w].by /\ writes'[w].id = writes[w].id
                           /\ writes'[w].reply = "unused" <=> writes[w].reply = "unused"
  PROVE  TermInv'
<1>1. Gapless'
  BY DEF TermInv, Gapless
<1>2. UsedOnly'
  BY DEF TermInv, UsedOnly
<1>3. BeforeTerm'
  BY DEF TermInv, BeforeTerm, isLeaderState
<1>4. ASSUME term <= 1, NEW l \in Members, isLeaderState(l)'
      PROVE  FollowsFrom(l)' /\ \A m \in Members : isLeaderState(m)' => m = l
  <2>1. isLeaderState(l) /\ journal'[l] = journal[l]
    BY <1>4 DEF isLeaderState
  <2>2. /\ FollowsFrom(l)
        /\ \A m \in Members : isLeaderState(m) => m = l
    BY <1>4, <2>1 DEF TermInv, FirstTerm
  <2>3. \A x : Journalled(l, x) => Journalled(l, x)'
    BY <2>1 DEF Journalled
  <2>4. \A w \in Writes : Entry(w)' = Entry(w)
    BY DEF Entry
  <2>5. \A m \in Members : \A i \in 1..Len(journal'[m]) : Journalled(l, journal[m][i])'
    <3> SUFFICES ASSUME NEW m \in Members, NEW i \in 1..Len(journal'[m])
                 PROVE  Journalled(l, journal[m][i])'
      OBVIOUS
    <3>1. journal'[m] = journal[m]
      OBVIOUS
    <3>2. Journalled(l, journal[m][i])
      BY <2>2, <3>1 DEF FollowsFrom
    <3> QED
      BY <2>3, <3>1, <3>2 DEF Journalled
  <2>6. \A w \in Writes, p \in Members : <<w, p>> \in inbox' => Journalled(l, Entry(w))'
    <3> SUFFICES ASSUME NEW w \in Writes, NEW p \in Members, <<w, p>> \in inbox'
                 PROVE  Journalled(l, Entry(w))'
      OBVIOUS
    <3>1. Journalled(l, Entry(w))
      BY <2>2 DEF FollowsFrom
    <3> QED
      BY <2>1, <2>4, <3>1 DEF Journalled
  <2> QED
    BY <2>2, <2>5, <2>6 DEF FollowsFrom, isLeaderState
<1>5. FirstTerm'
  BY <1>4 DEF FirstTerm
<1> QED
  BY <1>1, <1>2, <1>3, <1>5 DEF TermInv

(* The end of a process. *)
LEMMA DieTerm ==
  ASSUME TypeOK, TermInv, NEW m \in Members, Die(m)
  PROVE  TermInv'
<1>1. /\ inbox' \subseteq inbox /\ db' = db /\ term' = term
      /\ state'[m] = "UNINITIALIZED" /\ journal'[m] = <<>>
      /\ \A n \in Members : n # m => state'[n] = state[n] /\ journal'[n] = journal[n]
  BY DEF Die, TypeOK
<1>2. ASSUME NEW w \in Writes
      PROVE  /\ writes'[w].by = writes[w].by /\ writes'[w].id = writes[w].id
             /\ writes'[w].reply = "unused" <=> writes[w].reply = "unused"
  <2>1. writes[w] \in WriteCtx
    BY DEF TypeOK
  <2>2. writes'[w] = IF writes[w].by = m /\ writes[w].reply = "none"
                     THEN [writes[w] EXCEPT !.reply = "lost"] ELSE writes[w]
    BY DEF Die
  <2> QED
    BY <2>1, <2>2 DEF WriteCtx
<1>3. "UNINITIALIZED" \notin LeaderStates
  BY DEF LeaderStates
<1> QED
  BY <1>1, <1>2, <1>3, TermFrame

(* A handled answer changes neither who made a write nor its id. *)
LEMMA CtxKept ==
  ASSUME NEW c \in WriteCtx, NEW d \in {Succeeded(c), Failed(c)}
  PROVE  d.by = c.by /\ d.id = c.id /\ (d.reply = "unused" <=> c.reply = "unused")
<1>1. d.by = c.by /\ (d.reply = "unused" <=> c.reply = "unused")
  BY CtxType
<1>2. d.id = c.id
  BY DEF Succeeded, Failed, WriteCtx
<1> QED
  BY <1>1, <1>2

(* changePeerState_ makes no leader of a member that is none. *)
LEMMA ChangeLeaders ==
  ASSUME TypeOK, NEW l \in Members, NEW p, NEW incoming, NEW target,
         changePeerState(l, p, incoming, target)
  PROVE  \A m \in Members : state'[m] \in LeaderStates => state[m] \in LeaderStates
<1>1. PICK s : /\ state' = [state EXCEPT ![l] = s] \/ state' = state
               /\ s = state[l] \/ state[l] \in LeaderStates
  <2>1. CASE p = l
    BY <2>1 DEF changePeerState
  <2>2. CASE p # l
    <3> DEFINE n == Cardinality(FunctionalPeers(l)')
               s == IF state[l] = "LEADER_FUNCTIONAL" /\ n < Quorum - 1
                    THEN "LEADER_WAITING_FOR_QUORUM"
                    ELSE IF state[l] = "LEADER_WAITING_FOR_QUORUM" /\ n >= Quorum - 1
                    THEN "LEADER_FUNCTIONAL" ELSE state[l]
    <3>1. state' = [state EXCEPT ![l] = s]
      BY <2>2 DEF changePeerState, TypeOK
    <3> HIDE DEF n
    <3>2. s = state[l] \/ state[l] \in LeaderStates
      BY DEF LeaderStates
    <3> HIDE DEF s
    <3> QED
      BY <3>1, <3>2
  <2> QED
    BY <2>1, <2>2
<1> QED
  BY <1>1 DEF TypeOK

(* The first election: nothing was written before it. *)
LEMMA ElectTerm ==
  ASSUME TypeOK, TermInv, NEW e \in Members, NEW S \in SUBSET Members, ElectLeader(e, S)
  PROVE  TermInv'
<1>1. PICK l \in S : state' = [state EXCEPT ![l] = "LEADER_FUNCTIONAL"]
  BY DEF ElectLeader
<1>2. /\ UNCHANGED <<journal, inbox, db, writes>>
      /\ term' = term + 1 /\ term \in Nat
  BY DEF ElectLeader, TypeOK
<1>3. Gapless' /\ UsedOnly'
  BY <1>2 DEF TermInv, Gapless, UsedOnly
<1>4. BeforeTerm'
  BY <1>2 DEF BeforeTerm
<1>5. FirstTerm'
  <2> SUFFICES ASSUME term' <= 1, NEW m \in Members, isLeaderState(m)'
               PROVE  FollowsFrom(m)' /\ \A n \in Members : isLeaderState(n)' => n = m
    BY DEF FirstTerm
  <2>1. term = 0
    BY <1>2
  <2>2. /\ inbox' = {} /\ \A n \in Members : journal'[n] = <<>>
        /\ \A n \in Members : ~isLeaderState(n)
    BY <1>2, <2>1 DEF TermInv, BeforeTerm
  <2>3. \A n \in Members : state'[n] \in LeaderStates => n = l
    BY <1>1, <2>2 DEF isLeaderState, TypeOK
  <2> QED
    BY <2>2, <2>3 DEF FollowsFrom, isLeaderState
<1> QED
  BY <1>3, <1>4, <1>5 DEF TermInv

(* The leader writes: its journal has the entry before any peer can. *)
LEMMA GroupWriteTerm ==
  ASSUME TypeInv, TermInv, NEW l \in Members, NEW w \in Writes, groupWrite(l, w)
  PROVE  TermInv'
<1> DEFINE id == lastId[l] + 1
           e == [id |-> id, w |-> w]
<1>1. /\ TypeOK /\ id \in Int /\ e \in Entries /\ e.id = id
      /\ isLeaderState(l) /\ writes[w].reply = "unused"
      /\ UNCHANGED <<state, term>>
  <2>1. TypeOK /\ id \in Int
    BY DEF TypeInv, TypeOK
  <2>2. e \in Entries /\ e.id = id
    BY <2>1 DEF Entries
  <2>3. /\ state[l] = "LEADER_FUNCTIONAL" /\ writes[w].reply = "unused"
        /\ UNCHANGED <<state, term>>
    BY DEF groupWrite
  <2> QED
    BY <2>1, <2>2, <2>3 DEF isLeaderState, LeaderStates
<1>2. /\ \A v \in Writes : v # w => writes'[v] = writes[v]
      /\ writes'[w].by = l /\ writes'[w].reply # "unused"
  BY GroupWriteType
<1>3. /\ \A p \in Members : <<w, p>> \notin inbox /\ w \notin db[p]
      /\ \A v \in Writes, p \in Members :
           <<v, p>> \in inbox => v # w /\ Entry(v)' = Entry(v)
  BY <1>1, <1>2 DEF TermInv, UsedOnly, Entry
<1>4. BeforeTerm'
  BY <1>1 DEF TermInv, BeforeTerm
<1>5. ASSUME term <= 1
      PROVE  FollowsFrom(l) /\ \A m \in Members : isLeaderState(m) => m = l
  BY <1>1, <1>5 DEF TermInv, FirstTerm
<1>6. CASE /\ addEntryOk(journal[l], id)
           /\ journal' = [journal EXCEPT ![l] = Append(@, e)]
           /\ db' = [db EXCEPT ![l] = @ \cup {w}]
           /\ \A p \in Members : <<w, p>> \in inbox' => p # l
           /\ \A v \in Writes, p \in Members : v # w /\ <<v, p>> \in inbox' => <<v, p>> \in inbox
           /\ writes'[w].id = id
  <2> HIDE DEF id, e
  <2>1. Gapless'
    BY <1>1, <1>6, GaplessStays DEF TermInv
  <2>2. UsedOnly'
    <3>1. \A v \in Writes, p \in Members :
            <<v, p>> \in inbox' => writes'[v].reply # "unused" /\ writes'[v].by # p
      BY <1>2, <1>6 DEF TermInv, UsedOnly
    <3>2. \A v \in Writes, p \in Members : v \in db'[p] => writes'[v].reply # "unused"
      BY <1>1, <1>2, <1>6 DEF TermInv, UsedOnly, TypeOK
    <3> QED
      BY <3>1, <3>2 DEF UsedOnly
  <2>3. ASSUME term <= 1 PROVE FollowsFrom(l)'
    <3>1. Journalled(l, Entry(w))'
      <4>1. Entry(w)' = e
        BY <1>6 DEF Entry, e
      <4>2. /\ Len(journal[l]) \in Nat /\ Len(journal'[l]) = Len(journal[l]) + 1
            /\ journal'[l][Len(journal[l]) + 1] = e
        BY <1>1, <1>6, Appended
      <4> QED
        BY <4>1, <4>2 DEF Journalled
    <3>2. \A v \in Writes, p \in Members : <<v, p>> \in inbox' => Journalled(l, Entry(v))'
      <4> SUFFICES ASSUME NEW v \in Writes, NEW p \in Members, <<v, p>> \in inbox', v # w
                   PROVE  Journalled(l, Entry(v))'
        BY <3>1
      <4>1. Journalled(l, Entry(v)) /\ Entry(v)' = Entry(v)
        BY <1>3, <1>5, <1>6, <2>3 DEF FollowsFrom
      <4>2. ASSUME NEW x, Journalled(l, x)
            PROVE  \E k \in 1..Len(journal'[l]) : journal'[l][k] = x
        BY <1>1, <1>6, <4>2, JournalledStays DEF Journalled
      <4> QED
        BY <4>1, <4>2 DEF Journalled
    <3>3. \A m \in Members : \A i \in 1..Len(journal'[m]) : Journalled(l, journal[m][i])'
      <4> SUFFICES ASSUME NEW m \in Members, NEW i \in 1..Len(journal'[m]), m # l
                   PROVE  Journalled(l, journal[m][i])'
        BY DEF Journalled
      <4>1. journal'[m] = journal[m]
        BY <1>1, <1>6, Appended
      <4>2. Journalled(l, journal[m][i])
        BY <1>5, <2>3, <4>1 DEF FollowsFrom
      <4>3. ASSUME NEW x, Journalled(l, x)
            PROVE  \E k \in 1..Len(journal'[l]) : journal'[l][k] = x
        BY <1>1, <1>6, <4>3, JournalledStays DEF Journalled
      <4>4. \E k \in 1..Len(journal'[l]) : journal'[l][k] = journal[m][i]
        BY <4>2, <4>3
      <4> QED
        BY <4>1, <4>4 DEF Journalled
    <3> QED
      BY <3>2, <3>3 DEF FollowsFrom
  <2>4. FirstTerm'
    BY <1>1, <1>5, <2>3 DEF FirstTerm, isLeaderState
  <2> QED
    BY <1>4, <2>1, <2>2, <2>4 DEF TermInv
<1>7. CASE UNCHANGED <<journal, db, inbox>>
  <2>1. Gapless' /\ UsedOnly'
    BY <1>2, <1>3, <1>7 DEF TermInv, Gapless, UsedOnly
  <2>2. ASSUME term <= 1 PROVE FollowsFrom(l)'
    BY <1>3, <1>5, <1>7, <2>2 DEF FollowsFrom, Journalled
  <2>3. FirstTerm'
    BY <1>1, <1>5, <2>2 DEF FirstTerm, isLeaderState
  <2> QED
    BY <1>4, <2>1, <2>3 DEF TermInv
<1>8. ASSUME inbox' = inbox \cup {<<w, p>> : p \in {q \in getWritablePeers(l) : up[q]}}
      PROVE  /\ \A p \in Members : <<w, p>> \in inbox' => p # l
             /\ \A v \in Writes, p \in Members : v # w /\ <<v, p>> \in inbox' => <<v, p>> \in inbox
  <2>1. \A p \in Members : <<w, p>> \in inbox' => p \in getWritablePeers(l)
    BY <1>3, <1>8
  <2> QED
    BY <1>8, <2>1 DEF getWritablePeers
<1>9. ASSUME NEW n, writes' = [writes EXCEPT ![w] =
               [by |-> l, id |-> id, nAcked |-> 0, nSuccess |-> 0, nPeers |-> n, reply |-> "none"]]
      PROVE  writes'[w].id = id
  BY <1>1, <1>9 DEF TypeOK
<1> QED
  BY <1>6, <1>7, <1>8, <1>9 DEF groupWrite

(* A peer journals an entry of its leader, if it is the next one. *)
LEMMA PeerWriteTerm ==
  ASSUME TypeInv, TermInv, NEW w \in Writes, NEW p \in Members, handleMetadataWrite(w, p)
  PROVE  TermInv'
<1> DEFINE e == Entry(w)
<1>1. /\ TypeOK /\ <<w, p>> \in inbox /\ inbox' \subseteq inbox
      /\ UNCHANGED <<state, term, writes>>
  BY DEF handleMetadataWrite, TypeInv
<1>2. e \in Entries /\ e.id = writes[w].id
  <2>1. writes[w] \in WriteCtx
    BY <1>1 DEF TypeOK
  <2> QED
    BY <2>1 DEF WriteCtx, Entries, Entry
<1>3. CASE UNCHANGED <<journal, db>>
  BY <1>1, <1>3, TermFrame
<1>4. CASE /\ addEntryOk(journal[p], writes[w].id)
           /\ journal' = [journal EXCEPT ![p] = Append(@, e)]
           /\ db' = [db EXCEPT ![p] = @ \cup {w}]
  <2>1. \A v \in Writes : Entry(v)' = Entry(v)
    BY <1>1 DEF Entry
  <2> HIDE DEF e
  <2>2. Gapless'
    BY <1>1, <1>2, <1>4, GaplessStays DEF TermInv
  <2>3. UsedOnly'
    BY <1>1, <1>4 DEF TermInv, UsedOnly, TypeOK
  <2>4. term # 0 /\ BeforeTerm'
    BY <1>1 DEF TermInv, BeforeTerm
  <2>5. ASSUME term <= 1, NEW l \in Members, isLeaderState(l) PROVE FollowsFrom(l)'
    <3>1. FollowsFrom(l)
      BY <2>5 DEF TermInv, FirstTerm
    <3>2. ASSUME NEW x, Journalled(l, x)
          PROVE  \E k \in 1..Len(journal'[l]) : journal'[l][k] = x
      BY <1>1, <1>2, <1>4, <3>2, JournalledStays DEF Journalled
    <3>3. \A v \in Writes, q \in Members : <<v, q>> \in inbox' => Journalled(l, Entry(v))'
      <4> SUFFICES ASSUME NEW v \in Writes, NEW q \in Members, <<v, q>> \in inbox'
                   PROVE  Journalled(l, Entry(v))'
        OBVIOUS
      <4>1. Journalled(l, Entry(v))
        BY <1>1, <3>1 DEF FollowsFrom
      <4> QED
        BY <2>1, <3>2, <4>1 DEF Journalled
    <3>4. Journalled(l, e)
      BY <1>1, <3>1 DEF FollowsFrom, e
    <3>5. ASSUME NEW m \in Members, NEW i \in 1..Len(journal'[m])
          PROVE  Journalled(l, journal[m][i])'
      <4>1. Journalled(l, journal'[m][i])
        <5>1. CASE m # p
          BY <1>1, <1>2, <1>4, <3>1, <5>1, Appended DEF FollowsFrom
        <5>2. CASE m = p
          <6>1. /\ Len(journal[p]) \in Nat /\ Len(journal'[p]) = Len(journal[p]) + 1
                /\ journal'[p][Len(journal[p]) + 1] = e
                /\ \A k \in 1..Len(journal[p]) : journal'[p][k] = journal[p][k]
            BY <1>1, <1>2, <1>4, Appended
          <6>2. CASE i = Len(journal[p]) + 1
            BY <3>4, <5>2, <6>1, <6>2
          <6>3. CASE i # Len(journal[p]) + 1
            <7>1. i \in 1..Len(journal[p])
              BY <3>5, <5>2, <6>1, <6>3
            <7> QED
              BY <3>1, <5>2, <6>1, <7>1 DEF FollowsFrom
          <6> QED
            BY <6>2, <6>3
        <5> QED
          BY <5>1, <5>2
      <4> QED
        BY <3>2, <4>1 DEF Journalled
    <3> QED
      BY <3>3, <3>5 DEF FollowsFrom
  <2>6. FirstTerm'
    BY <1>1, <2>5 DEF TermInv, FirstTerm, isLeaderState
  <2> QED
    BY <2>2, <2>3, <2>4, <2>6 DEF TermInv
<1> QED
  BY <1>3, <1>4 DEF handleMetadataWrite, Entry

(* Every step keeps the journals in order. *)
LEMMA NextTerm ==
  ASSUME TypeInv, TermInv, [Next]_vars
  PROVE  TermInv'
<1>1. TypeOK /\ WaitsForPeers
  BY DEF TypeInv
<1>2. ASSUME UNCHANGED <<journal, inbox, db, term, writes>>,
             \A m \in Members : state'[m] \in LeaderStates => state[m] \in LeaderStates
      PROVE  TermInv'
  BY <1>1, <1>2, TermFrame
<1>3. ASSUME NEW m \in Members, NEW s, s \notin LeaderStates,
             state' = [state EXCEPT ![m] = s]
      PROVE  \A n \in Members : state'[n] \in LeaderStates => state[n] \in LeaderStates
  BY <1>1, <1>3 DEF TypeOK
<1>4. ASSUME NEW m \in Members, Crash(m) \/ SyncOffEventBase(m) PROVE TermInv'
  BY <1>1, <1>4, DieTerm DEF Crash, SyncOffEventBase
<1>5. ASSUME NEW m \in Members, Restart(m) PROVE TermInv'
  BY <1>2, <1>3, <1>5 DEF Restart, LeaderStates, leaderVars, netVars
<1>6. ASSUME NEW m \in Members, SyncCompleted(m) PROVE TermInv'
  BY <1>2, <1>3, <1>6 DEF SyncCompleted, LeaderStates, leaderVars
<1>7. ASSUME NEW m \in Members, NEW l \in Members, handleGroupInfoUpdateMsg(m, l) PROVE TermInv'
  BY <1>2, <1>3, <1>7 DEF handleGroupInfoUpdateMsg, LeaderStates, leaderVars
<1>8. ASSUME NEW w \in Writes, NEW p \in Members, Answer(w, p) PROVE TermInv'
  <2>1. writes[w] \in WriteCtx /\ out[w][p].st # "idle"
    BY <1>1, <1>8 DEF Answer, WriteAcked, WriteFailed, TypeOK
  <2>2. PICK d \in {Succeeded(writes[w]), Failed(writes[w])} :
          writes' = [writes EXCEPT ![w] = d]
    BY <1>8 DEF Answer, WriteAcked, WriteFailed
  <2>3. \A v \in Writes : /\ writes'[v].by = writes[v].by /\ writes'[v].id = writes[v].id
                          /\ writes'[v].reply = "unused" <=> writes[v].reply = "unused"
    <3> SUFFICES ASSUME NEW v \in Writes
                 PROVE  /\ writes'[v].by = writes[v].by /\ writes'[v].id = writes[v].id
                        /\ writes'[v].reply = "unused" <=> writes[v].reply = "unused"
      OBVIOUS
    <3>1. writes'[v] = IF v = w THEN d ELSE writes[v]
      BY <1>1, <2>2 DEF TypeOK
    <3> QED
      BY <2>1, <2>2, <3>1, CtxKept
  <2>4. UNCHANGED <<journal, inbox, db, term>>
    BY <1>8 DEF Answer, WriteAcked, WriteFailed, memberVars, netVars
  <2>5. \A m \in Members : state'[m] \in LeaderStates => state[m] \in LeaderStates
    <3>1. writes[w].by \in Members
      BY <1>1, <2>1 DEF WaitsForPeers
    <3> QED
      BY <1>1, <1>8, <3>1, ChangeLeaders DEF Answer, WriteAcked, WriteFailed, memberVars
  <2> QED
    BY <1>1, <2>3, <2>4, <2>5, TermFrame
<1>9. ASSUME NEW a \in adds, handleAddToGroupMsg(a) PROVE TermInv'
  <2>1. a.to \in Members
    BY <1>1 DEF TypeOK, AddToGroupMsgs
  <2> QED
    BY <1>1, <1>2, <1>9, <2>1, ChangeLeaders DEF handleAddToGroupMsg
<1>10. ASSUME NEW a \in adds, AddToGroupFails(a) PROVE TermInv'
  <2>1. a.from \in Members
    BY <1>1 DEF TypeOK, AddToGroupMsgs
  <2> QED
    BY <1>1, <1>2, <1>10, <2>1, DieTerm DEF AddToGroupFails, memberVars, leaderVars
<1>11. CASE UNCHANGED vars
  BY <1>2, <1>11 DEF vars, memberVars, leaderVars, netVars
<1>12. ASSUME NEW m \in Members, NEW S \in SUBSET Members, ElectLeader(m, S) PROVE TermInv'
  BY <1>1, <1>12, ElectTerm
<1>13. ASSUME NEW m \in Members, NEW w \in Writes, groupWrite(m, w) \/ handleMetadataWrite(w, m)
       PROVE  TermInv'
  BY <1>13, GroupWriteTerm, PeerWriteTerm
<1> QED
  BY <1>4, <1>5, <1>6, <1>7, <1>8, <1>9, <1>10, <1>11, <1>12, <1>13 DEF Next

(* Nothing is written at the start. *)
LEMMA InitTerm == Init => TermInv
<1> SUFFICES ASSUME Init PROVE TermInv
  OBVIOUS
<1>1. /\ \A m \in Members : journal[m] = <<>> /\ db[m] = {} /\ ~isLeaderState(m)
      /\ inbox = {}
      /\ \A w \in Writes : writes[w].reply = "unused"
  BY DEF Init, isLeaderState, LeaderStates, NoWrite
<1> QED
  BY <1>1 DEF TermInv, Gapless, UsedOnly, BeforeTerm, FirstTerm

(* Two journals without gaps, one of which has the entries of the other, have them
   in the same places next to each other. *)
LEMMA FollowInOrder ==
  ASSUME TypeOK, Gapless, NEW l \in Members, FollowsFrom(l),
         NEW m \in Members, NEW i \in 1..Len(journal[m])
  PROVE  \E k \in 1..Len(journal[l]) :
           /\ journal[l][k] = journal[m][i]
           /\ i < Len(journal[m]) => k < Len(journal[l]) /\ journal[l][k + 1] = journal[m][i + 1]
<1> DEFINE n == Len(journal[l])
<1>1. /\ n \in Nat /\ Len(journal[m]) \in Nat
      /\ \A k \in 1..n : journal[l][k].id \in Int
  BY IdType
<1>2. PICK k \in 1..n : journal[l][k] = journal[m][i]
  BY DEF FollowsFrom, Journalled
<1>3. CASE ~(i < Len(journal[m]))
  BY <1>2, <1>3
<1>4. CASE i < Len(journal[m])
  <2>0. i \in Int /\ i + 1 \in 1..Len(journal[m])
    BY <1>1, <1>4
  <2>1. journal[m][i + 1].id = journal[m][i].id + ((i + 1) - i)
    BY <2>0 DEF Gapless
  <2>2. PICK j \in 1..n : journal[l][j] = journal[m][i + 1]
    BY <2>0 DEF FollowsFrom, Journalled
  <2>3. journal[l][j].id = journal[l][k].id + (j - k)
    BY DEF Gapless
  <2>4. j = k + 1
    <3>1. journal[l][k].id \in Int /\ journal[m][i].id = journal[l][k].id
      BY <1>1, <1>2
    <3>2. journal[m][i + 1].id = journal[l][k].id + (j - k)
      BY <2>2, <2>3
    <3>3. k \in Int /\ j \in Int
      BY <1>1
    <3> QED
      BY <2>0, <2>1, <3>1, <3>2, <3>3
  <2>5. k < n
    BY <1>1, <2>4
  <2> QED
    BY <1>2, <2>2, <2>4, <2>5
<1> QED
  BY <1>3, <1>4

(* In the term of the first leader every journal is a run of consecutive entries of
   the leader's, for every group, any number of writes, crashes, failing databases,
   joining members and late or reordered requests. *)
THEOREM JournalsCorrect == Spec => [](term <= 1 => JournalsFollowLeader)
<1> DEFINE Inv == TypeInv /\ TermInv
<1>1. Init => Inv
  BY InitTypeInv, InitTerm
<1>2. Inv /\ [Next]_vars => Inv'
  BY NextTypeInv, NextTerm
<1>3. Inv => (term <= 1 => JournalsFollowLeader)
  BY FollowInOrder DEF TypeInv, TermInv, FirstTerm, JournalsFollowLeader
<1> QED
  BY <1>1, <1>2, <1>3, PTL DEF Spec

-----------------------------------------------------------------------------
(* Databases of functional peers. *)

(* An answer changes the state of a request, not the version it was sent with. *)
LEMMA AnsweredPrior ==
  ASSUME TypeOK, NEW w \in Writes, NEW p \in Members, NEW st, Answered(w, p, st)
  PROVE  \A v \in Writes, q \in Members :
           out'[v][q].prior = out[v][q].prior /\ (out'[v][q].st # "idle" => out[v][q].st # "idle")
<1> DEFINE new == [out[w][p] EXCEPT !.st = IF @ = "sent" THEN st ELSE @]
<1>1. out[w][p] \in Slots
  BY DEF TypeOK
<1>2. new.prior = out[w][p].prior /\ (new.st # "idle" => out[w][p].st # "idle")
  BY <1>1 DEF Slots
<1>3. out' = [out EXCEPT ![w] = [out[w] EXCEPT ![p] = new]]
  BY DEF Answered, TypeOK
<1> HIDE DEF new
<1>4. \A v \in Writes, q \in Members : out'[v][q] = IF v = w /\ q = p THEN new ELSE out[v][q]
  BY <1>3 DEF TypeOK
<1> QED
  BY <1>2, <1>4

(* The records of the end of a process. *)
LEMMA DiePlain ==
  ASSUME TypeOK, PeersPlain, NEW m \in Members, Die(m)
  PROVE  PeersPlain' /\ sync'[m] = "idle" /\ \A n \in Members : n # m => sync'[n] = sync[n]
<1>1. /\ peers' = [peers EXCEPT ![m] = NoPeers]
      /\ \A w \in Writes : out'[w] \in {NoOut, out[w]}
      /\ sync' = [sync EXCEPT ![m] = "idle"]
  BY DEF Die
<1>2. \A p \in Members : NoPeers[p].state = "FOLLOWER_WAIT_TO_JOIN_GROUP" /\ NoOut[p].st = "idle"
  BY DEF NoPeers, NoPeer, NoOut, NoSlot
<1>3. \A l, p \in Members : peers'[l][p] = IF l = m THEN NoPeers[p] ELSE peers[l][p]
  BY <1>1 DEF TypeOK
<1>4. \A w \in Writes, p \in Members : out'[w][p].st # "idle" => out'[w][p] = out[w][p]
  BY <1>1, <1>2
<1> QED
  BY <1>1, <1>2, <1>3, <1>4 DEF PeersPlain, TypeOK

(* A write is sent to functional peers only, with their version. *)
LEMMA GroupWritePlain ==
  ASSUME TypeInv, PeersPlain, NEW l \in Members, NEW w \in Writes, groupWrite(l, w)
  PROVE  /\ PeersPlain'
         /\ writes'[w].reply = "none" => \A p \in FunctionalPeers(l) : out'[w][p].st = "sent"
<1>1. /\ peers' = peers
      /\ \A v \in Writes : v # w => out'[v] = out[v]
      /\ TypeOK
  <2>1. peers' = peers
    BY DEF groupWrite
  <2> QED
    BY <2>1, GroupWriteType DEF TypeInv
<1>2. ASSUME out' = [out EXCEPT ![w] = [p \in Members |->
               IF p \in getWritablePeers(l) THEN [st |-> "sent", prior |-> peers[l][p].version]
               ELSE NoSlot]],
             NEW p \in Members
      PROVE  /\ out'[w][p].st # "idle" => out'[w][p].prior = 0
             /\ p \in FunctionalPeers(l) => out'[w][p].st = "sent"
  <2>1. out'[w][p] = IF p \in getWritablePeers(l)
                     THEN [st |-> "sent", prior |-> peers[l][p].version] ELSE NoSlot
    BY <1>1, <1>2 DEF TypeOK
  <2>2. p \in getWritablePeers(l) => peers[l][p].version = 0
    BY DEF getWritablePeers, PeersPlain
  <2>3. p \in FunctionalPeers(l) => p \in getWritablePeers(l)
    BY DEF getWritablePeers, FunctionalPeers
  <2> QED
    BY <2>1, <2>2, <2>3 DEF NoSlot
<1>3. \/ /\ out' = [out EXCEPT ![w] = [p \in Members |->
               IF p \in getWritablePeers(l) THEN [st |-> "sent", prior |-> peers[l][p].version]
               ELSE NoSlot]]
      \/ out' = out /\ writes'[w].reply # "none"
  <2>1. ASSUME NEW id, writes' = [writes EXCEPT ![w] =
                 [by |-> l, id |-> id, nAcked |-> 0, nSuccess |-> 0, nPeers |-> 0, reply |-> "error"]]
        PROVE  writes'[w].reply # "none"
    BY <1>1, <2>1 DEF TypeOK
  <2> QED
    BY <2>1 DEF groupWrite
<1>4. CASE out' = out /\ writes'[w].reply # "none"
  BY <1>1, <1>4 DEF PeersPlain
<1>5. CASE out' = [out EXCEPT ![w] = [p \in Members |->
               IF p \in getWritablePeers(l) THEN [st |-> "sent", prior |-> peers[l][p].version]
               ELSE NoSlot]]
  <2>1. /\ \A p \in Members : out'[w][p].st # "idle" => out'[w][p].prior = 0
        /\ \A p \in Members : p \in FunctionalPeers(l) => out'[w][p].st = "sent"
    BY <1>2, <1>5
  <2> QED
    BY <1>1, <2>1 DEF PeersPlain, FunctionalPeers
<1> QED
  BY <1>3, <1>4, <1>5

(* A peer whose write failed is not functional any more: its version is the one the
   request was sent with. *)
LEMMA WriteFailedPlain ==
  ASSUME TypeInv, PeersPlain, NEW w \in Writes, NEW p \in Members, WriteFailed(w, p)
  PROVE  /\ PeersPlain'
         /\ \A l \in Members : l = writes[w].by => p \notin FunctionalPeers(l)'
         /\ \A m \in Members : FunctionalPeers(m)' \subseteq FunctionalPeers(m)
<1> DEFINE by == writes[w].by
           gone == [state |-> "FOLLOWER_WAIT_TO_JOIN_GROUP", version |-> out[w][p].prior]
<1>1. /\ TypeOK /\ by \in Members /\ p # by /\ out[w][p].prior = 0
      /\ out' = [out EXCEPT ![w][p] = NoSlot]
  BY DEF WriteFailed, TypeInv, WaitsForPeers, PeersPlain
<1>2. peers' = IF Accepts(peers[by][p], out[w][p].prior, "FOLLOWER_WAIT_TO_JOIN_GROUP")
               THEN [peers EXCEPT ![by][p] = gone] ELSE peers
  BY <1>1 DEF WriteFailed, changePeerState
<1> HIDE DEF by
<1>3. CASE peers[by][p].state = "FOLLOWER_FUNCTIONAL"
  <2>1. Accepts(peers[by][p], out[w][p].prior, "FOLLOWER_WAIT_TO_JOIN_GROUP")
    BY <1>1, <1>3 DEF Accepts, PeersPlain
  <2>2. \A m, q \in Members :
          peers'[m][q] = IF m = by /\ q = p THEN gone ELSE peers[m][q]
    BY <1>1, <1>2, <2>1 DEF TypeOK
  <2>3. \A m, q \in Members : peers'[m][q] = peers[m][q] \/ peers'[m][q].state = "FOLLOWER_WAIT_TO_JOIN_GROUP"
    BY <2>2
  <2>4. peers'[by][p].state = "FOLLOWER_WAIT_TO_JOIN_GROUP"
    BY <1>1, <2>2
  <2> HIDE DEF gone
  <2> QED
    BY <1>1, <2>3, <2>4, SlotCleared DEF PeersPlain, FunctionalPeers, NoSlot, by
<1>4. CASE peers[by][p].state # "FOLLOWER_FUNCTIONAL"
  <2>1. \A m, q \in Members :
          \/ peers'[m][q] = peers[m][q]
          \/ m = by /\ q = p /\ peers'[m][q].state = "FOLLOWER_WAIT_TO_JOIN_GROUP"
    BY <1>1, <1>2 DEF TypeOK
  <2> HIDE DEF gone
  <2> QED
    BY <1>1, <1>4, <2>1, SlotCleared DEF PeersPlain, FunctionalPeers, NoSlot, by
<1> QED
  BY <1>3, <1>4

(* A step in which no functional peer is added, no leader gets a write, and no
   request ends before its peer has the write. *)
LEMMA FollowFrame ==
  ASSUME TypeOK, PeersFollow, term' = term, joins' = 0 => joins = 0,
         \A m \in Members : state'[m] \in LeaderStates => state[m] \in LeaderStates,
         \A l \in Members : FunctionalPeers(l)' \subseteq FunctionalPeers(l),
         \A w \in Writes : writes'[w].by = writes[w].by,
         \A w \in Writes, l \in Members : w \in db'[l] /\ writes[w].by = l => w \in db[l],
         \A w \in Writes, p \in Members : w \in db[p] => w \in db'[p],
         \A l \in Members, w \in Writes : \A p \in FunctionalPeers(l)' :
           joins' = 0 /\ state'[l] \in LeaderStates /\ writes[w].by = l
           /\ out[w][p].st # "idle" => w \in db'[p] \/ out'[w][p].st # "idle"
  PROVE  PeersFollow'
<1> SUFFICES ASSUME term' <= 1, joins' = 0, NEW l \in Members, isLeaderState(l)',
                    NEW p \in FunctionalPeers(l)', NEW w \in Writes,
                    writes'[w].by = l, w \in db'[l]
             PROVE  w \in db'[p] \/ out'[w][p].st # "idle"
  BY DEF PeersFollow, AwaitedOrApplied
<1>1. isLeaderState(l) /\ p \in FunctionalPeers(l) /\ writes[w].by = l /\ w \in db[l] /\ p \in Members
  BY DEF isLeaderState, FunctionalPeers
<1>2. w \in db[p] \/ out[w][p].st # "idle"
  BY <1>1 DEF PeersFollow, AwaitedOrApplied
<1> QED
  BY <1>1, <1>2 DEF isLeaderState

(* The end of a process takes nothing from its peers. *)
LEMMA DiePeers ==
  ASSUME TypeInv, NoJoins, PeersFollow, NEW m \in Members, Die(m), adds = {} => adds' = {}
  PROVE  NoJoins' /\ PeersFollow'
<1>1. /\ TypeOK /\ joins' = joins /\ term' = term /\ db' = db
      /\ state' = [state EXCEPT ![m] = "UNINITIALIZED"]
      /\ peers' = [peers EXCEPT ![m] = NoPeers]
      /\ \A w \in Writes : writes[w].by # m => out'[w] = out[w]
  BY DEF Die, TypeInv
<1>2. NoJoins'
  BY <1>1, DiePlain DEF NoJoins
<1>3. \A l \in Members : state'[l] \in LeaderStates => l # m /\ state[l] \in LeaderStates
  BY <1>1 DEF TypeOK, LeaderStates
<1>4. \A l, p \in Members : peers'[l][p] = peers[l][p] \/ peers'[l][p] = NoPeer
  BY <1>1 DEF TypeOK, NoPeers
<1>5. \A l \in Members : FunctionalPeers(l)' \subseteq FunctionalPeers(l)
  BY <1>4 DEF FunctionalPeers, NoPeer
<1>6. \A w \in Writes : writes'[w].by = writes[w].by
  <2> SUFFICES ASSUME NEW w \in Writes PROVE writes'[w].by = writes[w].by
    OBVIOUS
  <2>1. writes[w] \in WriteCtx
    BY <1>1 DEF TypeOK
  <2>2. writes'[w] = IF writes[w].by = m /\ writes[w].reply = "none"
                     THEN [writes[w] EXCEPT !.reply = "lost"] ELSE writes[w]
    BY DEF Die
  <2> QED
    BY <2>1, <2>2 DEF WriteCtx
<1>7. PeersFollow'
  BY <1>1, <1>3, <1>5, <1>6, FollowFrame
<1> QED
  BY <1>2, <1>7

(* A new leader of the first term has written nothing. *)
LEMMA ElectPeers ==
  ASSUME TypeInv, TermInv, NoJoins, NEW e \in Members, NEW S \in SUBSET Members, ElectLeader(e, S)
  PROVE  NoJoins' /\ PeersFollow'
<1>1. /\ UNCHANGED <<joins, sync, out, adds, db, writes>>
      /\ term' = term + 1 /\ term \in Nat /\ TypeOK
  BY DEF ElectLeader, TypeInv, TypeOK
<1>2. PICK l \in S : peers' = [peers EXCEPT ![l] = [p \in Members |->
        IF p \in S \ {l} THEN [state |-> "FOLLOWER_FUNCTIONAL", version |-> 0] ELSE NoPeer]]
  BY DEF ElectLeader
<1>3. \A m, p \in Members :
        \/ peers'[m][p] = peers[m][p]
        \/ peers'[m][p] = [state |-> "FOLLOWER_FUNCTIONAL", version |-> 0]
        \/ peers'[m][p] = NoPeer
  BY <1>1, <1>2 DEF TypeOK
<1>4. NoJoins'
  BY <1>1, <1>3 DEF NoJoins, PeersPlain, NoPeer
<1>5. term' <= 1 => \A w \in Writes, p \in Members : w \notin db'[p]
  <2>1. term' <= 1 => term = 0
    BY <1>1
  <2> QED
    BY <1>1, <2>1 DEF TermInv, BeforeTerm, UsedOnly
<1> QED
  BY <1>4, <1>5 DEF PeersFollow, AwaitedOrApplied

(* A new write is sent to every functional peer. *)
LEMMA GroupWritePeers ==
  ASSUME TypeInv, TermInv, NoJoins, PeersFollow, NEW l \in Members, NEW w \in Writes, groupWrite(l, w)
  PROVE  NoJoins' /\ PeersFollow'
<1>1. /\ TypeOK /\ UNCHANGED <<joins, sync, adds, term, state, peers>>
      /\ isLeaderState(l) /\ writes[w].reply = "unused"
  <2>1. /\ UNCHANGED <<joins, sync, adds, term, state, peers>>
        /\ state[l] = "LEADER_FUNCTIONAL" /\ writes[w].reply = "unused"
    BY DEF groupWrite
  <2> QED
    BY <2>1 DEF TypeInv, isLeaderState, LeaderStates
<1>2. NoJoins'
  BY <1>1, GroupWritePlain DEF NoJoins
<1>3. /\ \A v \in Writes : v # w => writes'[v] = writes[v] /\ out'[v] = out[v]
      /\ writes'[w].by = l
      /\ \/ writes'[w].reply = "none" /\ db' = [db EXCEPT ![l] = @ \cup {w}]
         \/ writes'[w].reply = "error" /\ db' = db
  BY GroupWriteType
<1>4. \A p \in Members : w \notin db[p]
  BY <1>1 DEF TermInv, UsedOnly
<1>5. \A v \in Writes, p \in Members : v # w => (v \in db'[p] <=> v \in db[p])
  <2>1. \A p \in Members : db'[p] \in {db[p], db[p] \cup {w}}
    BY <1>1, <1>3 DEF TypeOK
  <2> QED
    BY <2>1
<1>6. \A m \in Members : FunctionalPeers(m)' = FunctionalPeers(m)
  BY <1>1 DEF FunctionalPeers
<1> SUFFICES ASSUME term' <= 1, joins' = 0, NEW m \in Members, isLeaderState(m)',
                    NEW p \in FunctionalPeers(m)', NEW v \in Writes,
                    writes'[v].by = m, v \in db'[m]
             PROVE  v \in db'[p] \/ out'[v][p].st # "idle"
  BY <1>2 DEF PeersFollow, AwaitedOrApplied
<1>7. p \in FunctionalPeers(m) /\ isLeaderState(m) /\ p \in Members
  BY <1>1, <1>6 DEF isLeaderState, FunctionalPeers
<1>8. CASE v # w
  <2>1. writes[v].by = m /\ v \in db[m] /\ out'[v] = out[v]
    BY <1>3, <1>5, <1>8
  <2>2. v \in db[p] \/ out[v][p].st # "idle"
    BY <1>1, <1>7, <2>1 DEF PeersFollow, AwaitedOrApplied
  <2> QED
    BY <1>5, <1>7, <1>8, <2>1, <2>2
<1>9. CASE v = w
  <2>1. m = l /\ writes'[w].reply = "none"
    BY <1>3, <1>4, <1>9
  <2>2. PeersPlain
    BY <1>1 DEF NoJoins
  <2> QED
    BY <1>7, <1>9, <2>1, <2>2, GroupWritePlain
<1> QED
  BY <1>8, <1>9

(* A peer applies a write, never one of its own. *)
LEMMA PeerWritePeers ==
  ASSUME TypeInv, TermInv, NoJoins, PeersFollow,
         NEW w \in Writes, NEW p \in Members, handleMetadataWrite(w, p)
  PROVE  NoJoins' /\ PeersFollow'
<1>1. /\ TypeOK /\ UNCHANGED <<joins, sync, adds, term, state, peers, writes>>
      /\ writes[w].by # p
      /\ db' = db \/ db' = [db EXCEPT ![p] = @ \cup {w}]
  BY DEF handleMetadataWrite, TypeInv, TermInv, UsedOnly
<1>2. PICK st \in {"applied", "rejected"} : Answered(w, p, st)
  BY DEF handleMetadataWrite
<1>3. \A v \in Writes, q \in Members :
        /\ out'[v][q].prior = out[v][q].prior
        /\ out'[v][q].st = "idle" <=> out[v][q].st = "idle"
  BY <1>1, <1>2, AnsweredType, AnsweredPrior
<1>4. NoJoins'
  BY <1>1, <1>3 DEF NoJoins, PeersPlain
<1>5. /\ \A v \in Writes, l \in Members : v \in db'[l] /\ writes[v].by = l => v \in db[l]
      /\ \A v \in Writes, q \in Members : v \in db[q] => v \in db'[q]
  <2>1. \A q \in Members : db'[q] = db[q] \/ (q = p /\ db'[q] = db[q] \cup {w})
    BY <1>1 DEF TypeOK
  <2> QED
    BY <1>1, <2>1
<1>6. \A m \in Members : FunctionalPeers(m)' = FunctionalPeers(m) /\ FunctionalPeers(m) \subseteq Members
  BY <1>1 DEF FunctionalPeers
<1> QED
  BY <1>1, <1>3, <1>4, <1>5, <1>6, FollowFrame

(* An answer is handled: the peer has the write, or it leaves the group. *)
LEMMA AnswerPeers ==
  ASSUME TypeInv, \A v \in Writes : WriteInv(v), NoJoins, PeersFollow,
         NEW w \in Writes, NEW p \in Members, Answer(w, p)
  PROVE  NoJoins' /\ PeersFollow'
<1>1. /\ TypeOK /\ UNCHANGED <<joins, sync, adds, term, db>>
      /\ out' = [out EXCEPT ![w][p] = NoSlot]
      /\ writes[w] \in WriteCtx /\ writes[w].by \in Members
  BY DEF Answer, WriteAcked, WriteFailed, TypeInv, TypeOK, WaitsForPeers, memberVars, netVars
<1>2. PICK d \in {Succeeded(writes[w]), Failed(writes[w])} : writes' = [writes EXCEPT ![w] = d]
  BY DEF Answer, WriteAcked, WriteFailed
<1>3. \A v \in Writes : writes'[v].by = writes[v].by
  <2>1. d.by = writes[w].by
    BY <1>1, <1>2, CtxKept
  <2> QED
    BY <1>1, <1>2, <2>1 DEF TypeOK
<1>4. \A v \in Writes, q \in Members :
        out'[v][q] = IF v = w /\ q = p THEN NoSlot ELSE out[v][q]
  BY <1>1, SlotCleared
<1>5. CASE WriteAcked(w, p)
  <2>1. UNCHANGED <<state, peers>> /\ w \in db[p]
    BY <1>5 DEF WriteAcked, memberVars, WriteInv, Accounted
  <2>2. NoJoins'
    BY <1>1, <1>4, <2>1 DEF NoJoins, PeersPlain, NoSlot
  <2>3. \A m \in Members : FunctionalPeers(m)' = FunctionalPeers(m) /\ FunctionalPeers(m) \subseteq Members
    BY <2>1 DEF FunctionalPeers
  <2>4. \A v \in Writes, q \in Members :
          out[v][q].st # "idle" => v \in db'[q] \/ out'[v][q].st # "idle"
    BY <1>1, <1>4, <2>1
  <2> QED
    BY <1>1, <1>3, <2>1, <2>2, <2>3, <2>4, FollowFrame
<1>6. CASE WriteFailed(w, p)
  <2>1. \A m \in Members : state'[m] \in LeaderStates => state[m] \in LeaderStates
    BY <1>1, <1>6, ChangeLeaders DEF WriteFailed
  <2>2. CASE joins # 0
    BY <1>1, <2>2 DEF NoJoins, PeersFollow
  <2>3. CASE joins = 0
    <3>1. PeersPlain
      BY <2>3 DEF NoJoins
    <3>2. /\ PeersPlain'
          /\ \A l \in Members : l = writes[w].by => p \notin FunctionalPeers(l)'
          /\ \A m \in Members : FunctionalPeers(m)' \subseteq FunctionalPeers(m)
      BY <1>6, <3>1, WriteFailedPlain
    <3>3. NoJoins'
      BY <1>1, <3>2 DEF NoJoins
    <3>4. ASSUME NEW l \in Members, NEW v \in Writes, NEW q \in FunctionalPeers(l)',
                 writes[v].by = l, out[v][q].st # "idle"
          PROVE  out'[v][q].st # "idle"
      <4>1. ~(v = w /\ q = p) /\ q \in Members
        BY <3>2, <3>4 DEF FunctionalPeers
      <4> QED
        BY <1>4, <3>4, <4>1
    <3> QED
      BY <1>1, <1>3, <2>1, <3>2, <3>3, <3>4, FollowFrame
  <2> QED
    BY <2>2, <2>3
<1> QED
  BY <1>5, <1>6 DEF Answer

(* Every step keeps functional peers current, as long as nobody joins. *)
LEMMA NextPeers ==
  ASSUME TypeInv, TermInv, \A v \in Writes : WriteInv(v), NoJoins, PeersFollow, [Next]_vars
  PROVE  NoJoins' /\ PeersFollow'
<1>1. TypeOK /\ joins \in Nat
  BY DEF TypeInv, TypeOK
<1>2. ASSUME UNCHANGED <<joins, sync, adds, term, db, peers, out, writes>>,
             \A m \in Members : state'[m] \in LeaderStates => state[m] \in LeaderStates
      PROVE  NoJoins' /\ PeersFollow'
  <2>1. NoJoins'
    BY <1>2 DEF NoJoins, PeersPlain
  <2>2. \A m \in Members : FunctionalPeers(m)' = FunctionalPeers(m)
    BY <1>2 DEF FunctionalPeers
  <2> QED
    BY <1>1, <1>2, <2>1, <2>2, FollowFrame
<1>3. ASSUME joins' # 0 PROVE NoJoins' /\ PeersFollow'
  BY <1>3 DEF NoJoins, PeersFollow
<1>4. ASSUME NEW m \in Members, Crash(m) PROVE NoJoins' /\ PeersFollow'
  BY <1>4, DiePeers DEF Crash, Orphaned
<1>5. ASSUME NEW m \in Members, SyncOffEventBase(m) PROVE NoJoins' /\ PeersFollow'
  BY <1>5, DiePeers DEF SyncOffEventBase, Orphaned
<1>6. ASSUME NEW m \in Members, Restart(m) PROVE NoJoins' /\ PeersFollow'
  <2>1. \A n \in Members : state'[n] \in LeaderStates => state[n] \in LeaderStates
    BY <1>1, <1>6 DEF Restart, TypeOK, LeaderStates
  <2> QED
    BY <1>2, <1>6, <2>1 DEF Restart, leaderVars, netVars
<1>7. ASSUME NEW m \in Members, SyncCompleted(m) PROVE NoJoins' /\ PeersFollow'
  <2>1. joins # 0 /\ joins' = joins
    BY <1>7 DEF SyncCompleted, NoJoins
  <2> QED
    BY <1>3, <2>1
<1>8. ASSUME NEW m \in Members, NEW l \in Members, handleGroupInfoUpdateMsg(m, l)
      PROVE  NoJoins' /\ PeersFollow'
  BY <1>1, <1>3, <1>8 DEF handleGroupInfoUpdateMsg
<1>9. ASSUME NEW a \in adds, handleAddToGroupMsg(a) PROVE NoJoins' /\ PeersFollow'
  <2>1. joins # 0 /\ joins' = joins
    BY <1>9 DEF handleAddToGroupMsg, NoJoins
  <2> QED
    BY <1>3, <2>1
<1>10. ASSUME NEW a \in adds, AddToGroupFails(a) PROVE NoJoins' /\ PeersFollow'
  <2>1. joins # 0 /\ joins' = joins
    BY <1>10 DEF AddToGroupFails, Die, NoJoins, memberVars
  <2> QED
    BY <1>3, <2>1
<1>11. CASE UNCHANGED vars
  BY <1>2, <1>11 DEF vars, memberVars, leaderVars, netVars
<1>12. ASSUME NEW m \in Members, NEW S \in SUBSET Members, ElectLeader(m, S)
       PROVE  NoJoins' /\ PeersFollow'
  BY <1>12, ElectPeers
<1>13. ASSUME NEW m \in Members, NEW w \in Writes,
              groupWrite(m, w) \/ handleMetadataWrite(w, m) \/ Answer(w, m)
       PROVE  NoJoins' /\ PeersFollow'
  BY <1>13, GroupWritePeers, PeerWritePeers, AnswerPeers
<1> QED
  BY <1>4, <1>5, <1>6, <1>7, <1>8, <1>9, <1>10, <1>11, <1>12, <1>13 DEF Next

(* There are no peers at the start. *)
LEMMA InitPeers == Init => NoJoins /\ PeersFollow
BY DEF Init, NoJoins, PeersPlain, PeersFollow, NoPeers, NoPeer, NoOut, NoSlot, isLeaderState,
       LeaderStates

(* In the term of the first leader and before any member joins again, a peer that the
   leader counts as functional and of which it waits for no answer has every write the
   leader has, for every group and any number of writes, crashes, failing databases and
   late, lost or reordered requests: writeToPeers takes every peer that may have missed
   a write out of the group (changePeerState_). *)
THEOREM PeersCorrect == Spec => [](term <= 1 /\ joins = 0 => FunctionalPeersCurrent)
<1> DEFINE Inv == TypeInv /\ TermInv /\ (\A v \in Writes : WriteInv(v)) /\ NoJoins /\ PeersFollow
<1>1. Init => Inv
  BY InitTypeInv, InitTerm, InitWrites, InitPeers
<1>2. Inv /\ [Next]_vars => Inv'
  BY NextTypeInv, NextTerm, NextWrites, NextPeers
<1>3. Inv => (term <= 1 /\ joins = 0 => FunctionalPeersCurrent)
  <2> SUFFICES ASSUME PeersFollow, term <= 1, joins = 0, NEW l \in Members, isLeaderState(l),
                      NEW p \in FunctionalPeers(l), NEW w \in Writes,
                      writes[w].by = l, w \in db[l], \A v \in Writes : out[v][p] = NoSlot
               PROVE  w \in db[p]
    BY DEF FunctionalPeersCurrent
  <2>1. out[w][p].st = "idle"
    BY DEF NoSlot
  <2> QED
    BY <2>1 DEF PeersFollow, AwaitedOrApplied
<1> QED
  BY <1>1, <1>2, <1>3, PTL DEF Spec
=============================================================================
