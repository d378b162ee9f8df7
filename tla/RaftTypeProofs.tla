---------------------------- MODULE RaftTypeProofs ----------------------------
(***************************************************************************)
(* The type invariant of Raft, for every number of servers, every snapshot *)
(* interval and every content of an uninitialised reply: no critical       *)
(* section reads m_logs outside its bounds.                                *)
(***************************************************************************)
EXTENDS RaftProperties, TLAPS, SequenceTheorems, FiniteSetTheorems

-----------------------------------------------------------------------------
(* Numbers and sequences.                                                  *)

(* A non-empty set of naturals has a least element.                        *)
LEMMA MinOfNat ==
    ASSUME NEW S \in SUBSET Nat, S # {}
    PROVE  MinOf(S) \in S /\ \A y \in S : MinOf(S) <= y
<1>. DEFINE T == {0..n : n \in S}
<1>1. T \subseteq FiniteSubsetsOf(Nat)
  <2>. SUFFICES ASSUME NEW n \in S
                PROVE  0..n \in FiniteSubsetsOf(Nat)
    OBVIOUS
  <2>1. IsFiniteSet(0..n)
    BY FS_Interval
  <2>. QED BY <2>1 DEF FiniteSubsetsOf
<1>2. \E x \in T : \A y \in T : <<y, x>> \notin StrictSubsetOrdering(Nat)
  <2>1. T # {}
    OBVIOUS
  <2>. HIDE DEF T
  <2>. QED BY <1>1, <2>1, WFMin, FS_StrictSubsetOrderingWellFounded
<1>3. PICK n \in S : \A y \in S : <<0..y, 0..n>> \notin StrictSubsetOrdering(Nat)
  BY <1>2
<1>4. ASSUME NEW y \in S, y < n
      PROVE  FALSE
  <2>1. 0..y \subseteq 0..n /\ 0..y # 0..n
    <3>1. n \in 0..n /\ n \notin 0..y
      BY <1>4
    <3>. QED BY <1>4, <3>1
  <2>2. 0..y \in SUBSET Nat /\ 0..n \in SUBSET Nat
    OBVIOUS
  <2>. DEFINE I == 0..y  J == 0..n
  <2>3. <<I, J>> \in StrictSubsetOrdering(Nat)
    <3>. I \in SUBSET Nat /\ J \in SUBSET Nat /\ I \subseteq J /\ I # J
      BY <2>1, <2>2
    <3>. HIDE DEF I, J
    <3>. QED BY DEF StrictSubsetOrdering
  <2>. QED BY <1>3, <2>3
<1>5. \A y \in S : n <= y
  BY <1>4
<1>. QED BY <1>5 DEF MinOf

(* A non-empty set of naturals with an upper bound has a greatest element. *)
LEMMA MaxOfNat ==
    ASSUME NEW b \in Nat, NEW S \in SUBSET (0..b), S # {}
    PROVE  MaxOf(S) \in S /\ \A y \in S : y <= MaxOf(S)
<1>. DEFINE T == {n \in 0..b : b - n \in S}
<1>1. PICK z : z \in S
  OBVIOUS
<1>2. b - z \in T
  BY <1>1
<1>3. MinOf(T) \in T /\ \A y \in T : MinOf(T) <= y
  BY <1>2, MinOfNat
<1>4. \A y \in S : b - y \in T
  OBVIOUS
<1>5. b - MinOf(T) \in S /\ \A y \in S : y <= b - MinOf(T)
  <2>. HIDE DEF T
  <2>1. \A y \in S : MinOf(T) <= b - y
    BY <1>3, <1>4
  <2>2. MinOf(T) \in 0..b /\ b - MinOf(T) \in S
    BY <1>3 DEF T
  <2>. QED BY <2>1, <2>2
<1>. QED BY <1>5 DEF MaxOf

-----------------------------------------------------------------------------
(* Types of what the actions compute.                                      *)

TypeInv == TypeOK /\ InBounds

(* A message of a type is in the set of that type.                         *)
LEMMA MessageTypes ==
    ASSUME NEW m \in Message
    PROVE  /\ m.from \in Server /\ m.to \in Server /\ m.term \in Nat
           /\ m.type = "RequestVote" => m \in VoteRequest
           /\ m.type = "RequestVoteReply" => m \in VoteReply
           /\ m.type = "AppendEntries" => m \in AppendRequest
           /\ m.type = "AppendEntriesReply" => m \in AppendReply
           /\ m.type = "InstallSnapshot" => m \in InstallRequest
           /\ m.type = "InstallSnapshotReply" => m \in InstallReply
BY DEF Message, Request, Reply, VoteRequest, VoteReply, AppendRequest, AppendReply,
       InstallRequest, InstallReply

(* TermAt of an index the log reaches, the dummy's included, is a term.    *)
LEMMA TermAtType ==
    ASSUME TypeOK, NEW s \in Server, NEW i \in lastIncludedIndex[s]..LastLogIndex(s)
    PROVE  TermAt(s, i) \in Nat
<1>1. lastIncludedIndex[s] \in Nat /\ lastIncludedTerm[s] \in Nat /\ log[s] \in Seq(Entry)
  BY DEF TypeOK
<1>2. CASE i = lastIncludedIndex[s]
  BY <1>1, <1>2 DEF TermAt
<1>3. CASE i # lastIncludedIndex[s]
  <2>1. i - lastIncludedIndex[s] \in 1..Len(log[s])
    BY <1>1, <1>3 DEF LastLogIndex
  <2>2. log[s][i - lastIncludedIndex[s]] \in Entry
    BY <1>1, <2>1, ElementOfSeq
  <2>. QED BY <1>3, <2>2 DEF TermAt, Entry
<1>. QED BY <1>2, <1>3

LEMMA LastLogType ==
    ASSUME TypeOK, NEW s \in Server
    PROVE  /\ lastIncludedIndex[s] \in Nat
           /\ LastLogIndex(s) \in Nat
           /\ LastLogIndex(s) >= lastIncludedIndex[s]
           /\ LastLogTerm(s) \in Nat
<1>1. lastIncludedIndex[s] \in Nat /\ Len(log[s]) \in Nat
  BY DEF TypeOK
<1>2. LastLogIndex(s) \in lastIncludedIndex[s]..LastLogIndex(s)
  BY <1>1 DEF LastLogIndex
<1>. QED BY <1>1, <1>2, TermAtType DEF LastLogIndex, LastLogTerm

(* An appendEntries call that passed the consistency check leaves a log    *)
(* that reaches to the last of its entries.                                *)
LEMMA AppendedLogType ==
    ASSUME TypeOK, NEW s \in Server, NEW m \in AppendRequest,
           m.preLogIndex \in lastIncludedIndex[s]..LastLogIndex(s)
    PROVE  /\ AppendedLog(s, m) \in Seq(Entry)
           /\ lastIncludedIndex[s] + Len(AppendedLog(s, m)) >= m.preLogIndex + Len(m.entries)
<1>. DEFINE position(i) == m.preLogIndex + i - lastIncludedIndex[s]
            overlap == {i \in DOMAIN m.entries : position(i) \in DOMAIN log[s]}
            conflicts == {i \in overlap : log[s][position(i)].term # m.entries[i].term}
            matches == {i \in overlap : log[s][position(i)] = m.entries[i]}
            mark == IF conflicts = {} THEN Cardinality(matches) ELSE MinOf(conflicts) - 1
            kept == IF conflicts = {} THEN log[s]
                    ELSE SubSeq(log[s], 1, position(MinOf(conflicts)) - 1)
            rest == SubSeq(m.entries, mark + 1, Len(m.entries))
<1>1. /\ lastIncludedIndex[s] \in Nat
      /\ log[s] \in Seq(Entry) /\ Len(log[s]) \in Nat /\ DOMAIN log[s] = 1..Len(log[s])
      /\ m.entries \in Seq(Entry) /\ Len(m.entries) \in Nat
      /\ DOMAIN m.entries = 1..Len(m.entries)
      /\ m.preLogIndex \in Nat
      /\ m.preLogIndex >= lastIncludedIndex[s]
      /\ m.preLogIndex <= lastIncludedIndex[s] + Len(log[s])
  BY LenProperties DEF TypeOK, AppendRequest, LastLogIndex
<1>2. AppendedLog(s, m) = kept \o rest
  BY DEF AppendedLog
<1>3. overlap \subseteq 1..(Len(log[s]) - (m.preLogIndex - lastIncludedIndex[s]))
  BY <1>1
<1>4. /\ kept \in Seq(Entry)
      /\ mark \in Nat
      /\ Len(kept) >= m.preLogIndex + mark - lastIncludedIndex[s]
  <2>1. CASE conflicts = {}
    <3>. DEFINE room == Len(log[s]) - (m.preLogIndex - lastIncludedIndex[s])
    <3>1. room \in Nat
      BY <1>1
    <3>2. IsFiniteSet(1..room) /\ Cardinality(1..room) = room
      BY <3>1, FS_Interval
    <3>3. matches \in SUBSET (1..room)
      BY <1>3
    <3>4. Cardinality(matches) \in Nat /\ Cardinality(matches) <= room
      <4>. HIDE DEF matches, room
      <4>. QED BY <3>1, <3>2, <3>3, FS_Subset, FS_CardinalityType
    <3>5. mark = Cardinality(matches) /\ kept = log[s]
      BY <2>1
    <3>. HIDE DEF mark, kept, matches
    <3>. QED BY <1>1, <3>4, <3>5
  <2>2. CASE conflicts # {}
    <3>1. conflicts \in SUBSET Nat
      BY <1>1
    <3>2. MinOf(conflicts) \in conflicts
      <4>. HIDE DEF conflicts
      <4>. QED BY <2>2, <3>1, MinOfNat
    <3>3. MinOf(conflicts) \in 1..Len(m.entries) /\ position(MinOf(conflicts)) \in 1..Len(log[s])
      BY <1>1, <3>2
    <3>. DEFINE first == MinOf(conflicts)
    <3>4. mark = first - 1 /\ kept = SubSeq(log[s], 1, position(first) - 1)
      BY <2>2
    <3>. HIDE DEF first, mark, kept, conflicts
    <3>5. first \in Nat /\ first >= 1 /\ position(first) \in 1..Len(log[s])
      BY <1>1, <3>3 DEF first
    <3>6. /\ SubSeq(log[s], 1, position(first) - 1) \in Seq(Entry)
          /\ Len(SubSeq(log[s], 1, position(first) - 1)) = position(first) - 1
      <4>. DEFINE p == position(first)
      <4>1. p \in 1..Len(log[s])
        BY <3>5
      <4>. HIDE DEF p
      <4>2. \A i \in 1..(p - 1) : log[s][i] \in Entry
        BY <1>1, <4>1, ElementOfSeq
      <4>3. SubSeq(log[s], 1, p - 1) \in Seq(Entry) /\ Len(SubSeq(log[s], 1, p - 1)) = p - 1
        BY <4>1, <4>2, SubSeqProperties
      <4>. QED BY <4>3 DEF p
    <3>. QED BY <1>1, <3>4, <3>5, <3>6
  <2>. QED BY <2>1, <2>2
<1>. HIDE DEF kept, mark
<1>5. /\ rest \in Seq(Entry)
      /\ Len(rest) >= Len(m.entries) - mark
  <2>1. \A i \in (mark + 1)..Len(m.entries) : m.entries[i] \in Entry
    BY <1>1, <1>4, ElementOfSeq
  <2>2. /\ rest \in Seq(Entry)
        /\ Len(rest) = IF mark + 1 <= Len(m.entries) THEN Len(m.entries) - (mark + 1) + 1 ELSE 0
    BY <1>1, <1>4, <2>1, SubSeqProperties
  <2>. QED BY <1>1, <1>4, <2>2
<1>. HIDE DEF rest
<1>6. kept \o rest \in Seq(Entry) /\ Len(kept \o rest) = Len(kept) + Len(rest)
  BY <1>4, <1>5, ConcatProperties
<1>7. Len(kept) \in Nat /\ Len(rest) \in Nat
  BY <1>4, <1>5, LenProperties
<1>. QED BY <1>1, <1>2, <1>4, <1>5, <1>6, <1>7

(* The apply loop reads only entries the log has, and leaves commitIndex   *)
(* and the state machine no further than m_lastApplied.                    *)
LEMMA ApplyType ==
    ASSUME TypeInv, NEW s \in Server, NEW newLog \in Seq(Entry), NEW commit \in Nat,
           commit = commitIndex[s] \/ commit <= lastIncludedIndex[s] + Len(newLog),
           ApplyUpTo(s, newLog, commit)
    PROVE  /\ commitIndex' \in [Server -> Nat]
           /\ lastApplied' \in [Server -> Nat]
           /\ applied' \in [Server -> Seq(Command)]
           /\ \A t \in Server : /\ commitIndex'[t] <= lastApplied'[t]
                                /\ Len(applied'[t]) <= lastApplied'[t]
                                /\ lastApplied[t] <= lastApplied'[t]
<1>. DEFINE n == Greatest(commit - lastApplied[s], 0)
            e(i) == newLog[lastApplied[s] + i - lastIncludedIndex[s]].command
            new == [i \in 1..n |-> e(i)]
<1>1. /\ commitIndex \in [Server -> Nat] /\ lastApplied \in [Server -> Nat]
      /\ applied \in [Server -> Seq(Command)]
      /\ lastIncludedIndex \in [Server -> Nat]
      /\ \A t \in Server : /\ commitIndex[t] <= lastApplied[t]
                           /\ Len(applied[t]) <= lastApplied[t]
                           /\ lastIncludedIndex[t] <= lastApplied[t]
  BY DEF TypeInv, TypeOK, InBounds
<1>2. n \in Nat /\ (n = 0 \/ n = commit - lastApplied[s])
  BY <1>1 DEF Greatest
<1>3. /\ commitIndex' = [commitIndex EXCEPT ![s] = commit]
      /\ lastApplied' = [lastApplied EXCEPT ![s] = Greatest(@, commit)]
      /\ applied' = IF Len(applied[s]) = lastApplied[s]
                    THEN [applied EXCEPT ![s] = @ \o new]
                    ELSE applied
  BY DEF ApplyUpTo, Execute
<1>4. \A i \in 1..n : e(i) \in Command
  <2>. SUFFICES ASSUME NEW i \in 1..n
                PROVE  e(i) \in Command
    OBVIOUS
  <2>1. n = commit - lastApplied[s] /\ commit > lastApplied[s]
    BY <1>1, <1>2
  <2>2. commit <= lastIncludedIndex[s] + Len(newLog)
    BY <1>1, <2>1
  <2>3. Len(newLog) \in Nat
    BY LenProperties
  <2>4. lastApplied[s] + i - lastIncludedIndex[s] \in 1..Len(newLog)
    BY <1>1, <1>2, <2>1, <2>2, <2>3
  <2>5. newLog[lastApplied[s] + i - lastIncludedIndex[s]] \in Entry
    BY <2>4, ElementOfSeq
  <2>. QED BY <2>5 DEF Entry
<1>5. new \in Seq(Command) /\ Len(new) = n
  <2>1. new \in [1..n -> Command]
    BY <1>4
  <2>. HIDE DEF new, n
  <2>. QED BY <1>2, <2>1
<1>. HIDE DEF new
<1>6. /\ applied[s] \o new \in Seq(Command)
      /\ Len(applied[s] \o new) = Len(applied[s]) + n
  <2>. HIDE DEF n, e
  <2>1. applied[s] \in Seq(Command)
    BY <1>1
  <2>. QED BY <1>5, <2>1, ConcatProperties
<1>7. /\ Greatest(lastApplied[s], commit) \in Nat
      /\ Greatest(lastApplied[s], commit) >= lastApplied[s]
      /\ Greatest(lastApplied[s], commit) >= commit
      /\ Len(applied[s]) = lastApplied[s] => Len(applied[s]) + n <= Greatest(lastApplied[s], commit)
  BY <1>1, <1>2 DEF Greatest
<1>. HIDE DEF n
<1>8. applied' \in [Server -> Seq(Command)]
  BY <1>1, <1>3, <1>6
<1>9. ASSUME NEW t \in Server
      PROVE  /\ commitIndex'[t] <= lastApplied'[t]
             /\ Len(applied'[t]) <= lastApplied'[t]
             /\ lastApplied[t] <= lastApplied'[t]
  <2>1. CASE t = s
    BY <1>1, <1>3, <1>6, <1>7, <2>1
  <2>2. CASE t # s
    BY <1>1, <1>3, <2>2
  <2>. QED BY <2>1, <2>2
<1>. QED BY <1>1, <1>3, <1>7, <1>8, <1>9

(* What helperUpdateLeaderCommitIndex computes is within the log, or is    *)
(* the m_commitIndex it started from.                                      *)
LEMMA LeaderCommitType ==
    ASSUME TypeOK, NEW s \in Server, NEW match \in [Server -> Nat]
    PROVE  /\ LeaderCommit(s, match) \in Nat
           /\ \/ LeaderCommit(s, match) = commitIndex[s]
              \/ LeaderCommit(s, match) <= LastLogIndex(s)
<1>. DEFINE replicas(n) == {s} \cup {d \in Server \ {s} : match[d] >= n}
            committable == {n \in Greatest(commitIndex[s] + 1, lastIncludedIndex[s])..LastLogIndex(s) :
                              /\ Majority(Cardinality(replicas(n)))
                              /\ TermAt(s, n) = currentTerm[s]}
<1>1. commitIndex[s] \in Nat /\ lastIncludedIndex[s] \in Nat /\ LastLogIndex(s) \in Nat
  BY LastLogType DEF TypeOK
<1>2. committable \in SUBSET (0..LastLogIndex(s))
  BY <1>1 DEF Greatest
<1>3. LeaderCommit(s, match) = IF committable = {} THEN commitIndex[s] ELSE MaxOf(committable)
  BY DEF LeaderCommit
<1>. HIDE DEF committable
<1>4. CASE committable = {}
  BY <1>1, <1>3, <1>4
<1>5. CASE committable # {}
  <2>1. MaxOf(committable) \in 0..LastLogIndex(s)
    BY <1>1, <1>2, <1>5, MaxOfNat
  <2>. QED BY <1>1, <1>3, <1>5, <2>1
<1>. QED BY <1>4, <1>5

(* Every conflictIndex a failed consistency check may report is a number.  *)
LEMMA ConflictType ==
    ASSUME TypeOK, NEW s \in Server, NEW m \in AppendRequest, NEW c \in ConflictIndexes(s, m)
    PROVE  c \in Nat
<1>1. /\ m.preLogIndex \in Nat
      /\ lastIncludedIndex[s] \in Nat /\ LastLogIndex(s) \in Nat
  BY LastLogType DEF AppendRequest
<1>2. CASE m.preLogIndex < lastIncludedIndex[s]
  BY <1>2, GarbageAssumption DEF ConflictIndexes
<1>3. CASE ~(m.preLogIndex < lastIncludedIndex[s]) /\ m.preLogIndex > LastLogIndex(s)
  BY <1>1, <1>3 DEF ConflictIndexes
<1>4. CASE ~(m.preLogIndex < lastIncludedIndex[s]) /\ ~(m.preLogIndex > LastLogIndex(s))
  <2>. DEFINE T == {i \in lastIncludedIndex[s]..m.preLogIndex :
                      \A j \in i..m.preLogIndex : TermAt(s, j) = TermAt(s, m.preLogIndex)}
  <2>1. c = MinOf(T)
    BY <1>4 DEF ConflictIndexes
  <2>2. T \in SUBSET Nat /\ m.preLogIndex \in T
    BY <1>1, <1>4
  <2>. HIDE DEF T
  <2>3. MinOf(T) \in T
    BY <2>2, MinOfNat
  <2>. QED BY <2>1, <2>2, <2>3
<1>. QED BY <1>2, <1>3, <1>4

(* The arguments of an InstallSnapshot call are a well-formed request,     *)
(* whose state is no longer than its index says.                           *)
LEMMA InstallArgsType ==
    ASSUME TypeInv, NEW s \in Server, NEW d \in Server
    PROVE  /\ InstallArgs(s, d) \in InstallRequest
           /\ Len(InstallArgs(s, d).snapshot.commands) <= InstallArgs(s, d).snapshot.index
<1>1. /\ currentTerm[s] \in Nat /\ lastIncludedIndex[s] \in Nat /\ lastIncludedTerm[s] \in Nat
      /\ disk[s] \in Disk
  BY DEF TypeInv, TypeOK
<1>2. disk[s].snapshot.commands \in Seq(Command)
  BY <1>1 DEF Disk, Snapshot
<1>3. Len(disk[s].snapshot.commands) <= lastIncludedIndex[s]
  BY DEF TypeInv, InBounds
<1>. QED BY <1>1, <1>2, <1>3 DEF InstallArgs, InstallRequest, Snapshot

(* broadcastAppendEntries reads m_logs within its bounds for a peer whose  *)
(* nextIndex passed its checks.                                            *)
LEMMA AppendArgsType ==
    ASSUME TypeOK, NEW s \in Server, NEW d \in Server,
           nextIndex[s][d] > lastIncludedIndex[s], nextIndex[s][d] <= LastLogIndex(s) + 1
    PROVE  AppendArgs(s, d) \in AppendRequest
<1>1. /\ currentTerm[s] \in Nat /\ commitIndex[s] \in Nat /\ nextIndex[s][d] \in Nat
      /\ lastIncludedIndex[s] \in Nat /\ LastLogIndex(s) \in Nat
      /\ log[s] \in Seq(Entry) /\ Len(log[s]) \in Nat
  <2>1. nextIndex[s] \in [Server -> Nat] /\ log[s] \in Seq(Entry)
    BY DEF TypeOK
  <2>2. currentTerm[s] \in Nat /\ commitIndex[s] \in Nat
    BY DEF TypeOK
  <2>3. lastIncludedIndex[s] \in Nat /\ LastLogIndex(s) \in Nat
    BY LastLogType
  <2>. QED BY <2>1, <2>2, <2>3
<1>2. nextIndex[s][d] - 1 \in lastIncludedIndex[s]..LastLogIndex(s) /\ nextIndex[s][d] - 1 \in Nat
  BY <1>1
<1>3. TermAt(s, nextIndex[s][d] - 1) \in Nat
  BY <1>2, TermAtType
<1>. DEFINE first == nextIndex[s][d] - lastIncludedIndex[s]
<1>4. SubSeq(log[s], first, Len(log[s])) \in Seq(Entry)
  <2>1. first \in Nat /\ first >= 1
    BY <1>1
  <2>2. \A i \in first..Len(log[s]) : log[s][i] \in Entry
    BY <1>1, <2>1, ElementOfSeq
  <2>. HIDE DEF first
  <2>. QED BY <1>1, <2>1, <2>2, SubSeqProperties
<1>. QED BY <1>1, <1>2, <1>3, <1>4 DEF AppendArgs, AppendRequest

-----------------------------------------------------------------------------
(* What the actions share.                                                 *)

(* A set of well-formed messages whose snapshots are no longer than their  *)
(* indexes say.                                                            *)
Sound(M) ==
    /\ M \subseteq Message
    /\ \A m \in M : m.type = "InstallSnapshot" => Len(m.snapshot.commands) <= m.snapshot.index

LEMMA SoundMessages ==
    ASSUME TypeInv
    PROVE  Sound(messages)
BY DEF TypeInv, TypeOK, InBounds, Sound

LEMMA AbandonSound ==
    ASSUME NEW s, NEW M, Sound(M)
    PROVE  Sound(Abandon(s, M))
<1>. DEFINE replies == {m \in M : ~IsRequest(m) /\ m.to = s}
            pending == {m \in M : IsRequest(m) /\ m.from = s /\ m.live}
<1>. SUFFICES ASSUME NEW m \in Abandon(s, M)
              PROVE  /\ m \in Message
                     /\ m.type = "InstallSnapshot" => Len(m.snapshot.commands) <= m.snapshot.index
  BY DEF Sound
<1>1. m \in M \/ \E n \in pending : m = [n EXCEPT !.live = FALSE]
  BY DEF Abandon
<1>2. CASE m \in M
  BY <1>2 DEF Sound
<1>3. CASE \E n \in pending : m = [n EXCEPT !.live = FALSE]
  <2>1. PICK n \in pending : m = [n EXCEPT !.live = FALSE]
    BY <1>3
  <2>2. n \in Message /\ IsRequest(n)
    BY DEF Sound
  <2>3. CASE n.type = "RequestVote"
    <3>1. n \in VoteRequest
      BY <2>2, <2>3, MessageTypes
    <3>2. m \in VoteRequest /\ m.type = "RequestVote"
      BY <2>1, <2>3, <3>1 DEF VoteRequest
    <3>. QED BY <3>2 DEF Message, Request
  <2>4. CASE n.type = "AppendEntries"
    <3>1. n \in AppendRequest
      BY <2>2, <2>4, MessageTypes
    <3>2. m \in AppendRequest /\ m.type = "AppendEntries"
      BY <2>1, <2>4, <3>1 DEF AppendRequest
    <3>. QED BY <3>2 DEF Message, Request
  <2>5. CASE n.type = "InstallSnapshot"
    <3>1. n \in InstallRequest
      BY <2>2, <2>5, MessageTypes
    <3>2. m \in InstallRequest /\ m.snapshot = n.snapshot
      BY <2>1, <3>1 DEF InstallRequest
    <3>3. Len(n.snapshot.commands) <= n.snapshot.index
      BY <2>5 DEF Sound
    <3>. QED BY <3>2, <3>3 DEF Message, Request
  <2>. QED BY <2>2, <2>3, <2>4, <2>5 DEF IsRequest
<1>. QED BY <1>1, <1>2, <1>3

(* Persisting well-typed state leaves the snapshots alone.                 *)
LEMMA PersistType ==
    ASSUME TypeOK, NEW s \in Server, Persist(s),
           currentTerm' \in [Server -> Nat], votedFor' \in [Server -> Server \cup {Nil}],
           log' \in [Server -> Seq(Entry)]
    PROVE  /\ disk' \in [Server -> Disk]
           /\ \A t \in Server : disk'[t].snapshot = disk[t].snapshot
<1>1. disk \in [Server -> Disk]
  BY DEF TypeOK
<1>2. currentTerm'[s] \in Nat /\ votedFor'[s] \in Server \cup {Nil} /\ log'[s] \in Seq(Entry)
  OBVIOUS
<1>. QED BY <1>1, <1>2 DEF Persist, Disk

LEMMA StepDownType ==
    ASSUME TypeOK, NEW s \in Server, NEW term \in Nat, StepDown(s, term)
    PROVE  /\ currentTerm' \in [Server -> Nat]
           /\ votedFor' \in [Server -> Server \cup {Nil}]
           /\ votesGranted' \in [Server -> Nat]
           /\ voters' \in [Server -> SUBSET Server]
           /\ state' \in [Server -> State]
BY DEF TypeOK, StepDown, State

(* A step that leaves the indexes alone keeps them in step.                *)
LEMMA SameIndexes ==
    ASSUME TypeInv, UNCHANGED <<logVars, applyVars, handler>>,
           \A t \in Server : disk'[t].snapshot = disk[t].snapshot,
           Sound(messages')
    PROVE  InBounds'
BY DEF TypeInv, InBounds, Sound, logVars, applyVars, Idle, LastLogIndex

-----------------------------------------------------------------------------
(* Elections keep the type.                                                *)

LEMMA StartElectionType ==
    ASSUME TypeInv, NEW s \in Server, StartElection(s)
    PROVE  TypeInv'
<1>. DEFINE earlier == IF "late_reply" \in Races THEN messages ELSE Abandon(s, messages)
            ballots == {[type |-> "RequestVote", from |-> s, to |-> d, live |-> TRUE,
                         term |-> currentTerm[s] + 1, lastLogIndex |-> LastLogIndex(s),
                         lastLogTerm |-> LastLogTerm(s)] : d \in Server \ {s}}
<1>1. /\ UNCHANGED <<logVars, applyVars, leaderVars, boundVars, handler>>
      /\ messages' = earlier \cup ballots
  BY DEF StartElection, logVars
<1>2. /\ currentTerm' \in [Server -> Nat]
      /\ votedFor' \in [Server -> Server \cup {Nil}]
      /\ votesGranted' \in [Server -> Nat]
      /\ voters' \in [Server -> SUBSET Server]
      /\ state' \in [Server -> State]
  BY DEF StartElection, TypeInv, TypeOK, State
<1>3. disk' \in [Server -> Disk] /\ \A t \in Server : disk'[t].snapshot = disk[t].snapshot
  <2>1. log' \in [Server -> Seq(Entry)]
    BY <1>1 DEF TypeInv, TypeOK, logVars
  <2>. QED BY <1>2, <2>1, PersistType DEF StartElection, TypeInv
<1>4. Sound(messages')
  <2>1. Sound(earlier)
    BY SoundMessages, AbandonSound
  <2>2. Sound(ballots)
    <3>1. currentTerm[s] + 1 \in Nat
      BY DEF TypeInv, TypeOK
    <3>2. LastLogIndex(s) \in Nat /\ LastLogTerm(s) \in Nat
      BY LastLogType DEF TypeInv
    <3>3. ASSUME NEW m \in ballots
          PROVE  m \in VoteRequest /\ m.type # "InstallSnapshot"
      <4>1. PICK d \in Server :
              m = [type |-> "RequestVote", from |-> s, to |-> d, live |-> TRUE,
                   term |-> currentTerm[s] + 1, lastLogIndex |-> LastLogIndex(s),
                   lastLogTerm |-> LastLogTerm(s)]
        OBVIOUS
      <4>. HIDE DEF ballots
      <4>. QED BY <3>1, <3>2, <4>1 DEF VoteRequest
    <3>. HIDE DEF ballots
    <3>. QED BY <3>3 DEF Sound, Message, Request
  <2>. QED BY <1>1, <2>1, <2>2 DEF Sound
<1>5. InBounds'
  BY <1>1, <1>3, <1>4, SameIndexes
<1>. QED BY <1>1, <1>2, <1>3, <1>4, <1>5
         DEF TypeInv, TypeOK, Sound, logVars, applyVars, leaderVars, boundVars

LEMMA HandleRequestVoteType ==
    ASSUME TypeInv, NEW m \in messages, HandleRequestVote(m)
    PROVE  TypeInv'
<1>. DEFINE s == m.to
            vote == IF m.term > currentTerm[s] THEN Nil ELSE votedFor[s]
            grant == m.term >= currentTerm[s] /\ vote \in {Nil, m.from} /\ UpToDate(s, m)
            reply == [type |-> "RequestVoteReply", from |-> s, to |-> m.from,
                      argsTerm |-> m.term, term |-> currentTerm[s], voteGranted |-> grant]
<1>1. m \in VoteRequest /\ s \in Server /\ m.from \in Server /\ m.term \in Nat
  <2>1. m \in Message /\ m.type = "RequestVote"
    BY DEF HandleRequestVote, TypeInv, TypeOK
  <2>. QED BY <2>1, MessageTypes
<1>2. /\ UNCHANGED <<logVars, applyVars, leaderVars, boundVars, handler>>
      /\ messages' = Answer(m, reply, messages \ {m})
  BY DEF HandleRequestVote, logVars
<1>3. Sound(messages')
  <2>1. reply \in VoteReply /\ reply.type # "InstallSnapshot"
    <3>1. currentTerm[s] \in Nat /\ grant \in BOOLEAN
      BY <1>1 DEF TypeInv, TypeOK
    <3>. HIDE DEF grant
    <3>. QED BY <1>1, <3>1 DEF VoteReply
  <2>2. Sound(messages \ {m})
    BY SoundMessages DEF Sound
  <2>3. Sound({reply})
    BY <2>1 DEF Sound, Message, Reply
  <2>. HIDE DEF reply
  <2>. QED BY <1>2, <2>2, <2>3 DEF Answer, Sound
<1>4. /\ currentTerm' \in [Server -> Nat]
      /\ votedFor' \in [Server -> Server \cup {Nil}]
      /\ votesGranted' \in [Server -> Nat]
      /\ voters' \in [Server -> SUBSET Server]
      /\ state' \in [Server -> State]
      /\ disk' \in [Server -> Disk] /\ \A t \in Server : disk'[t].snapshot = disk[t].snapshot
  <2>1. CASE UNCHANGED <<electionVars, disk, log>>
    BY <2>1 DEF TypeInv, TypeOK, electionVars
  <2>2. CASE /\ currentTerm' = [currentTerm EXCEPT ![s] = m.term]
             /\ votedFor' = [votedFor EXCEPT ![s] = IF grant THEN m.from ELSE vote]
             /\ state' = [state EXCEPT ![s] = IF m.term > currentTerm[s]
                                              THEN "follower" ELSE @]
             /\ UNCHANGED <<votesGranted, voters, log>>
             /\ Persist(s)
    <3>1. /\ currentTerm' \in [Server -> Nat]
          /\ votesGranted' \in [Server -> Nat]
          /\ voters' \in [Server -> SUBSET Server]
          /\ state' \in [Server -> State]
          /\ log' \in [Server -> Seq(Entry)]
      BY <1>1, <2>2 DEF TypeInv, TypeOK, State
    <3>2. votedFor' \in [Server -> Server \cup {Nil}]
      <4>1. votedFor \in [Server -> Server \cup {Nil}] /\ vote \in Server \cup {Nil}
        BY <1>1 DEF TypeInv, TypeOK
      <4>. HIDE DEF vote, grant
      <4>. QED BY <1>1, <2>2, <4>1
    <3>. QED BY <1>1, <2>2, <3>1, <3>2, PersistType DEF TypeInv
  <2>. QED BY <2>1, <2>2 DEF HandleRequestVote
<1>5. InBounds'
  BY <1>2, <1>3, <1>4, SameIndexes
<1>. QED BY <1>2, <1>3, <1>4, <1>5
         DEF TypeInv, TypeOK, Sound, logVars, applyVars, leaderVars, boundVars

LEMMA HandleVoteReplyType ==
    ASSUME TypeInv, NEW m \in messages, HandleVoteReply(m)
    PROVE  TypeInv'
<1>. DEFINE s == m.to
<1>1. m \in VoteReply /\ s \in Server /\ m.from \in Server /\ m.term \in Nat
  <2>1. m \in Message /\ m.type = "RequestVoteReply"
    BY DEF HandleVoteReply, TypeInv, TypeOK
  <2>. QED BY <2>1, MessageTypes
<1>2. /\ UNCHANGED <<logVars, applyVars, leaderVars, boundVars, handler>>
      /\ messages' = messages \ {m}
  BY DEF HandleVoteReply, logVars
<1>3. Sound(messages')
  BY <1>2, SoundMessages DEF Sound
<1>4. /\ currentTerm' \in [Server -> Nat]
      /\ votedFor' \in [Server -> Server \cup {Nil}]
      /\ votesGranted' \in [Server -> Nat]
      /\ voters' \in [Server -> SUBSET Server]
      /\ state' \in [Server -> State]
      /\ disk' \in [Server -> Disk] /\ \A t \in Server : disk'[t].snapshot = disk[t].snapshot
  <2>1. CASE /\ votesGranted' = [votesGranted EXCEPT ![s] = @ + 1]
             /\ voters' = [voters EXCEPT ![s] = @ \cup {m.from}]
             /\ UNCHANGED <<currentTerm, votedFor, state, disk>>
    <3>1. votesGranted \in [Server -> Nat] /\ voters \in [Server -> SUBSET Server]
      BY DEF TypeInv, TypeOK
    <3>. HIDE DEF s
    <3>2. votesGranted' \in [Server -> Nat]
      BY <1>1, <2>1, <3>1
    <3>3. voters[s] \cup {m.from} \in SUBSET Server
      BY <1>1, <3>1
    <3>4. voters' \in [Server -> SUBSET Server]
      BY <1>1, <2>1, <3>1, <3>3
    <3>. QED BY <2>1, <3>2, <3>4 DEF TypeInv, TypeOK
  <2>2. CASE StepDown(s, m.term) /\ Persist(s)
    <3>1. log' \in [Server -> Seq(Entry)]
      BY <1>2 DEF TypeInv, TypeOK, logVars
    <3>. QED BY <1>1, <2>2, <3>1, StepDownType, PersistType DEF TypeInv
  <2>. QED BY <2>1, <2>2 DEF HandleVoteReply
<1>5. InBounds'
  BY <1>2, <1>3, <1>4, SameIndexes
<1>. QED BY <1>2, <1>3, <1>4, <1>5
         DEF TypeInv, TypeOK, Sound, logVars, applyVars, leaderVars, boundVars

LEMMA BecomeLeaderType ==
    ASSUME TypeInv, NEW s \in Server, BecomeLeader(s)
    PROVE  TypeInv'
<1>1. /\ UNCHANGED <<currentTerm, votedFor, votesGranted, voters, logVars, applyVars,
                     boundVars, disk, handler, messages>>
      /\ state' = [state EXCEPT ![s] = "leader"]
      /\ nextIndex' = [nextIndex EXCEPT ![s] = [d \in Server |-> LastLogIndex(s) + 1]]
      /\ matchIndex' = [matchIndex EXCEPT ![s] = [d \in Server |-> 0]]
  BY DEF BecomeLeader
<1>2. /\ state' \in [Server -> State]
      /\ nextIndex' \in [Server -> [Server -> Nat]]
      /\ matchIndex' \in [Server -> [Server -> Nat]]
  <2>1. LastLogIndex(s) + 1 \in Nat
    BY LastLogType DEF TypeInv
  <2>. QED BY <1>1, <2>1 DEF TypeInv, TypeOK, State
<1>3. InBounds'
  BY <1>1, SoundMessages, SameIndexes
<1>. QED BY <1>1, <1>2, <1>3 DEF TypeInv, TypeOK, logVars, applyVars, boundVars

-----------------------------------------------------------------------------
(* Replication keeps the type.                                             *)

LEMMA StartType ==
    ASSUME TypeInv, NEW s \in Server, NEW c \in Command, Start(s, c)
    PROVE  TypeInv'
<1>. DEFINE entry == [term |-> currentTerm[s], command |-> c]
<1>1. /\ UNCHANGED <<electionVars, lastIncludedIndex, lastIncludedTerm, applyVars,
                     leaderVars, crashes, handler, messages>>
      /\ log' = [log EXCEPT ![s] = Append(@, entry)]
      /\ requests' = requests \cup {c}
      /\ Persist(s)
  BY DEF Start
<1>2. log[s] \in Seq(Entry) /\ entry \in Entry /\ log \in [Server -> Seq(Entry)]
  BY DEF TypeInv, TypeOK, Entry
<1>3. Append(log[s], entry) \in Seq(Entry) /\ Len(Append(log[s], entry)) = Len(log[s]) + 1
  <2>. HIDE DEF entry
  <2>. QED BY <1>2, AppendProperties
<1>4. log' \in [Server -> Seq(Entry)]
  BY <1>1, <1>2, <1>3
<1>5. disk' \in [Server -> Disk] /\ \A t \in Server : disk'[t].snapshot = disk[t].snapshot
  <2>1. currentTerm' \in [Server -> Nat] /\ votedFor' \in [Server -> Server \cup {Nil}]
    BY <1>1 DEF TypeInv, TypeOK, electionVars
  <2>. QED BY <1>1, <1>4, <2>1, PersistType DEF TypeInv
<1>6. InBounds'
  <2>1. ASSUME NEW t \in Server
        PROVE  LastLogIndex(t)' >= LastLogIndex(t) /\ LastLogIndex(t) \in Nat /\ LastLogIndex(t)' \in Nat
    <3>1. lastIncludedIndex[t] \in Nat /\ Len(log[t]) \in Nat /\ lastIncludedIndex' = lastIncludedIndex
      BY <1>1 DEF TypeInv, TypeOK
    <3>2. CASE t = s
      BY <1>1, <1>2, <1>3, <3>1, <3>2 DEF LastLogIndex
    <3>3. CASE t # s
      BY <1>1, <1>2, <3>1, <3>3 DEF LastLogIndex
    <3>. QED BY <3>2, <3>3
  <2>2. ASSUME NEW t \in Server, ~Idle(t)
        PROVE  handler[t].args.preLogIndex \in lastIncludedIndex[t]..LastLogIndex(t)'
    <3>1. handler[t].args.preLogIndex \in lastIncludedIndex[t]..LastLogIndex(t)
      BY <2>2 DEF TypeInv, InBounds
    <3>2. lastIncludedIndex[t] \in Nat
      BY DEF TypeInv, TypeOK
    <3>. QED BY <2>1, <3>1, <3>2
  <2>. QED BY <1>1, <1>5, <2>2 DEF TypeInv, InBounds, Idle, applyVars
<1>7. requests' \subseteq Command
  BY <1>1 DEF TypeInv, TypeOK
<1>. QED BY <1>1, <1>4, <1>5, <1>6, <1>7
         DEF TypeInv, TypeOK, electionVars, applyVars, leaderVars

LEMMA BroadcastType ==
    ASSUME TypeInv, NEW s \in Server, BroadcastAppendEntries(s)
    PROVE  TypeInv'
<1>. DEFINE behind == {d \in Server \ {s} : nextIndex[s][d] <= lastIncludedIndex[s]}
            intact == {d \in Server \ {s} : nextIndex[s][d] <= Least(HugeIndex, LastLogIndex(s) + 1)}
            installs == {InstallArgs(s, d) : d \in behind}
            appends == {AppendArgs(s, d) : d \in intact \ behind}
<1>1. /\ UNCHANGED <<electionVars, logVars, applyVars, leaderVars, boundVars, disk, handler>>
      /\ messages' = messages \cup installs \cup appends
  BY DEF BroadcastAppendEntries
<1>2. Sound(installs)
  <2>1. \A d \in Server : /\ InstallArgs(s, d) \in InstallRequest
                          /\ Len(InstallArgs(s, d).snapshot.commands) <= InstallArgs(s, d).snapshot.index
    BY InstallArgsType
  <2>. QED BY <2>1 DEF Sound, Message, Request
<1>3. Sound(appends)
  <2>1. ASSUME NEW d \in intact \ behind
        PROVE  AppendArgs(s, d) \in AppendRequest
    <3>1. /\ nextIndex[s][d] \in Nat /\ lastIncludedIndex[s] \in Nat /\ LastLogIndex(s) \in Nat
      <4>1. nextIndex[s] \in [Server -> Nat]
        BY DEF TypeInv, TypeOK
      <4>. QED BY <4>1, LastLogType DEF TypeInv
    <3>2. nextIndex[s][d] > lastIncludedIndex[s] /\ nextIndex[s][d] <= LastLogIndex(s) + 1
      BY <3>1, GarbageAssumption DEF Least
    <3>. QED BY <3>2, AppendArgsType DEF TypeInv
  <2>2. \A m \in appends : m \in AppendRequest
    BY <2>1
  <2>3. \A m \in AppendRequest : m.type # "InstallSnapshot"
    BY DEF AppendRequest
  <2>. HIDE DEF appends
  <2>. QED BY <2>2, <2>3 DEF Sound, Message, Request
<1>4. Sound(messages')
  <2>. HIDE DEF installs, appends
  <2>. QED BY <1>1, <1>2, <1>3, SoundMessages DEF Sound
<1>5. InBounds'
  BY <1>1, <1>4, SameIndexes
<1>. QED BY <1>1, <1>4, <1>5
         DEF TypeInv, TypeOK, Sound, electionVars, logVars, applyVars, leaderVars, boundVars

(* A reply that is not a snapshot keeps the messages well formed.          *)
LEMMA AnswerSound ==
    ASSUME NEW M, Sound(M), NEW m, NEW r \in Reply
    PROVE  Sound(Answer(m, r, M))
<1>1. r.type # "InstallSnapshot" /\ r \in Message
  BY DEF Reply, VoteReply, AppendReply, InstallReply, Message
<1>. QED BY <1>1 DEF Sound, Answer

LEMMA AppendAnswerType ==
    ASSUME NEW m \in AppendRequest, NEW term \in Nat, NEW success \in BOOLEAN, NEW c \in Nat
    PROVE  AppendAnswer(m, term, success, c) \in Reply
<1>1. m.preLogIndex + Len(m.entries) \in Nat
  <2>1. m.preLogIndex \in Nat /\ m.entries \in Seq(Entry)
    BY DEF AppendRequest
  <2>. QED BY <2>1, LenProperties
<1>2. AppendAnswer(m, term, success, c) \in AppendReply
  BY <1>1 DEF AppendAnswer, AppendReply, AppendRequest
<1>. QED BY <1>2 DEF Reply

(* The last two critical sections of appendEntries.                        *)
LEMMA AppendAndApplyType ==
    ASSUME TypeInv, NEW s \in Server, NEW m \in AppendRequest, NEW term \in Nat,
           m.preLogIndex \in lastIncludedIndex[s]..LastLogIndex(s),
           AppendAndApply(s, m, term)
    PROVE  /\ log' \in [Server -> Seq(Entry)]
           /\ \A t \in Server \ {s} : log'[t] = log[t]
           /\ commitIndex' \in [Server -> Nat]
           /\ lastApplied' \in [Server -> Nat]
           /\ applied' \in [Server -> Seq(Command)]
           /\ \A t \in Server : /\ commitIndex'[t] <= lastApplied'[t]
                                /\ Len(applied'[t]) <= lastApplied'[t]
                                /\ lastApplied[t] <= lastApplied'[t]
           /\ Sound(messages')
<1>1. /\ AppendedLog(s, m) \in Seq(Entry)
      /\ lastIncludedIndex[s] + Len(AppendedLog(s, m)) >= m.preLogIndex + Len(m.entries)
  BY AppendedLogType DEF TypeInv
<1>2. log' = [log EXCEPT ![s] = AppendedLog(s, m)] /\ log \in [Server -> Seq(Entry)]
  BY DEF AppendAndApply, TypeInv, TypeOK
<1>3. log' \in [Server -> Seq(Entry)] /\ log'[s] = AppendedLog(s, m)
  BY <1>1, <1>2
<1>. DEFINE commit == NewCommit(s, m)
<1>4. /\ commit \in Nat
      /\ commit = commitIndex[s] \/ commit <= lastIncludedIndex[s] + Len(log'[s])
  <2>1. /\ commitIndex[s] \in Nat /\ m.leaderCommit \in Nat /\ m.preLogIndex \in Nat
        /\ lastIncludedIndex[s] \in Nat
    BY DEF TypeInv, TypeOK, AppendRequest
  <2>2. Len(m.entries) \in Nat /\ Len(log'[s]) \in Nat
    BY <1>1, <1>3, LenProperties DEF AppendRequest
  <2>. QED BY <1>1, <1>3, <2>1, <2>2 DEF NewCommit, Least
<1>5. ApplyUpTo(s, log'[s], commit)
  BY DEF AppendAndApply
<1>6. log'[s] \in Seq(Entry)
  BY <1>1, <1>3
<1>7. /\ commitIndex' \in [Server -> Nat]
      /\ lastApplied' \in [Server -> Nat]
      /\ applied' \in [Server -> Seq(Command)]
      /\ \A t \in Server : /\ commitIndex'[t] <= lastApplied'[t]
                           /\ Len(applied'[t]) <= lastApplied'[t]
                           /\ lastApplied[t] <= lastApplied'[t]
  <2>. HIDE DEF commit
  <2>. QED BY <1>4, <1>5, <1>6, ApplyType
<1>8. Sound(messages')
  <2>1. AppendAnswer(m, term, TRUE, 0) \in Reply
    BY AppendAnswerType
  <2>2. messages' = Answer(m, AppendAnswer(m, term, TRUE, 0), messages)
    BY DEF AppendAndApply
  <2>. QED BY <2>1, <2>2, SoundMessages, AnswerSound
<1>. QED BY <1>2, <1>3, <1>7, <1>8

(* The replies of a call that is not accepted.                             *)
LEMMA RefusalSound ==
    ASSUME TypeInv, NEW m \in AppendRequest, NEW term \in Nat, NEW c \in Nat,
           messages' = Answer(m, AppendAnswer(m, term, FALSE, c), messages)
    PROVE  Sound(messages')
<1>1. AppendAnswer(m, term, FALSE, c) \in Reply
  BY AppendAnswerType
<1>. QED BY <1>1, SoundMessages, AnswerSound

(* A log that changed on s only, where no call is between its critical     *)
(* sections, or on a server whose call ends, leaves the others in bounds.  *)
LEMMA AppendedInBounds ==
    ASSUME TypeInv, NEW s \in Server, UNCHANGED lastIncludedIndex,
           \A t \in Server \ {s} : log'[t] = log[t] /\ handler'[t] = handler[t],
           handler'[s] = Nil,
           \A t \in Server : disk'[t].snapshot = disk[t].snapshot,
           \A t \in Server : /\ commitIndex'[t] <= lastApplied'[t]
                             /\ Len(applied'[t]) <= lastApplied'[t]
                             /\ lastApplied[t] <= lastApplied'[t],
           lastApplied' \in [Server -> Nat],
           Sound(messages')
    PROVE  InBounds'
<1>1. ASSUME NEW t \in Server
      PROVE  /\ lastIncludedIndex'[t] <= lastApplied'[t]
             /\ lastIncludedIndex'[t] = disk'[t].snapshot.index
             /\ Len(disk'[t].snapshot.commands) <= disk'[t].snapshot.index
  <2>1. lastIncludedIndex[t] \in Nat /\ lastApplied[t] \in Nat /\ lastApplied'[t] \in Nat
    BY DEF TypeInv, TypeOK
  <2>2. lastIncludedIndex[t] <= lastApplied[t] /\ lastApplied[t] <= lastApplied'[t]
    BY DEF TypeInv, InBounds
  <2>3. /\ lastIncludedIndex[t] = disk[t].snapshot.index
        /\ Len(disk[t].snapshot.commands) <= disk[t].snapshot.index
    BY DEF TypeInv, InBounds
  <2>. QED BY <2>1, <2>2, <2>3
<1>2. ASSUME NEW t \in Server, handler'[t] # Nil
      PROVE  handler'[t].args.preLogIndex \in lastIncludedIndex'[t]..LastLogIndex(t)'
  <2>1. t # s /\ handler'[t] = handler[t] /\ log'[t] = log[t]
    BY <1>2
  <2>. QED BY <1>2, <2>1 DEF TypeInv, InBounds, Idle, LastLogIndex
<1>. QED BY <1>1, <1>2 DEF InBounds, Sound, Idle

(* A leader that applies more of the log it has keeps the indexes in step. *)
LEMMA ChangedApplied ==
    ASSUME TypeInv, UNCHANGED <<log, lastIncludedIndex, handler, disk>>,
           \A t \in Server : /\ commitIndex'[t] <= lastApplied'[t]
                             /\ Len(applied'[t]) <= lastApplied'[t]
                             /\ lastApplied[t] <= lastApplied'[t],
           lastApplied' \in [Server -> Nat],
           Sound(messages')
    PROVE  InBounds'
<1>1. ASSUME NEW t \in Server
      PROVE  lastIncludedIndex[t] <= lastApplied'[t]
  <2>1. lastIncludedIndex[t] \in Nat /\ lastApplied[t] \in Nat /\ lastApplied'[t] \in Nat
    BY DEF TypeInv, TypeOK
  <2>. QED BY <2>1 DEF TypeInv, InBounds
<1>2. \A t \in Server : LastLogIndex(t)' = LastLogIndex(t)
  BY DEF LastLogIndex
<1>. QED BY <1>1, <1>2 DEF TypeInv, InBounds, Sound, Idle

(* A call that went through every critical section.                        *)
LEMMA AcceptedType ==
    ASSUME TypeInv, NEW s \in Server, NEW m \in AppendRequest, NEW term \in Nat,
           m.preLogIndex \in lastIncludedIndex[s]..LastLogIndex(s),
           AppendAndApply(s, m, term), Persist(s),
           UNCHANGED <<lastIncludedIndex, lastIncludedTerm, leaderVars, boundVars>>,
           handler' = [handler EXCEPT ![s] = Nil],
           currentTerm' \in [Server -> Nat],
           votedFor' \in [Server -> Server \cup {Nil}],
           votesGranted' \in [Server -> Nat],
           voters' \in [Server -> SUBSET Server],
           state' \in [Server -> State]
    PROVE  TypeInv'
<1>1. /\ log' \in [Server -> Seq(Entry)]
      /\ \A t \in Server \ {s} : log'[t] = log[t]
      /\ commitIndex' \in [Server -> Nat]
      /\ lastApplied' \in [Server -> Nat]
      /\ applied' \in [Server -> Seq(Command)]
      /\ \A t \in Server : /\ commitIndex'[t] <= lastApplied'[t]
                           /\ Len(applied'[t]) <= lastApplied'[t]
                           /\ lastApplied[t] <= lastApplied'[t]
      /\ Sound(messages')
  BY AppendAndApplyType
<1>2. disk' \in [Server -> Disk] /\ \A t \in Server : disk'[t].snapshot = disk[t].snapshot
  BY <1>1, PersistType DEF TypeInv
<1>3. handler \in [Server -> Call \cup {Nil}]
  BY DEF TypeInv, TypeOK
<1>4. /\ handler' \in [Server -> Call \cup {Nil}]
      /\ handler'[s] = Nil
      /\ \A t \in Server \ {s} : handler'[t] = handler[t]
  BY <1>3
<1>5. InBounds'
  BY <1>1, <1>2, <1>4, AppendedInBounds
<1>6. messages' \subseteq Message
  BY <1>1 DEF Sound
<1>. QED BY <1>1, <1>2, <1>4, <1>5, <1>6 DEF TypeInv, TypeOK, leaderVars, boundVars

LEMMA AppendEntriesType ==
    ASSUME TypeInv, NEW m \in messages, AppendEntries(m)
    PROVE  TypeInv'
<1>. DEFINE s == m.to
<1>1. m \in AppendRequest /\ s \in Server /\ m.term \in Nat
  <2>1. m \in Message /\ m.type = "AppendEntries"
    BY DEF AppendEntries, TypeInv, TypeOK
  <2>. QED BY <2>1, MessageTypes
<1>2. currentTerm[s] \in Nat /\ handler[s] = Nil
  BY <1>1 DEF TypeInv, TypeOK, AppendEntries, Idle
<1>3. UNCHANGED <<lastIncludedIndex, lastIncludedTerm, leaderVars, boundVars>>
  BY DEF AppendEntries
<1>4. /\ currentTerm' \in [Server -> Nat]
      /\ votedFor' \in [Server -> Server \cup {Nil}]
      /\ votesGranted' \in [Server -> Nat]
      /\ voters' \in [Server -> SUBSET Server]
      /\ state' \in [Server -> State]
  <2>1. CASE UNCHANGED electionVars
    BY <2>1 DEF TypeInv, TypeOK, electionVars
  <2>2. CASE StepDown(s, m.term)
    BY <1>1, <2>2, StepDownType DEF TypeInv
  <2>. QED BY <2>1, <2>2 DEF AppendEntries
<1>5. CASE UNCHANGED <<log, applyVars, disk, handler>> /\ Sound(messages')
  <2>1. InBounds'
    BY <1>3, <1>5, SameIndexes DEF logVars
  <2>. QED BY <1>3, <1>4, <1>5, <2>1 DEF TypeInv, TypeOK, Sound, applyVars, leaderVars, boundVars
<1>6. CASE UNCHANGED <<log, applyVars, handler>> /\ Persist(s) /\ Sound(messages')
  <2>1. log' \in [Server -> Seq(Entry)]
    BY <1>6 DEF TypeInv, TypeOK
  <2>2. disk' \in [Server -> Disk] /\ \A t \in Server : disk'[t].snapshot = disk[t].snapshot
    BY <1>1, <1>4, <1>6, <2>1, PersistType DEF TypeInv
  <2>3. InBounds'
    BY <1>3, <1>6, <2>2, SameIndexes DEF logVars
  <2>. QED BY <1>3, <1>4, <1>6, <2>2, <2>3
           DEF TypeInv, TypeOK, Sound, applyVars, leaderVars, boundVars
<1>7. CASE /\ Consistent(s, m)
           /\ handler' = [handler EXCEPT ![s] = [args |-> m, term |-> currentTerm[s]]]
           /\ UNCHANGED <<log, applyVars, messages>>
           /\ Persist(s) \/ UNCHANGED disk
  <2>1. m.preLogIndex \in lastIncludedIndex[s]..LastLogIndex(s)
    BY <1>7 DEF Consistent
  <2>2. [args |-> m, term |-> currentTerm[s]] \in Call
    BY <1>1, <1>2 DEF Call
  <2>3. handler \in [Server -> Call \cup {Nil}] /\ disk \in [Server -> Disk]
    BY DEF TypeInv, TypeOK
  <2>4. handler' \in [Server -> Call \cup {Nil}]
    BY <1>1, <1>7, <2>2, <2>3
  <2>5. log' \in [Server -> Seq(Entry)]
    BY <1>7 DEF TypeInv, TypeOK
  <2>6. disk' \in [Server -> Disk] /\ \A t \in Server : disk'[t].snapshot = disk[t].snapshot
    BY <1>1, <1>4, <1>7, <2>3, <2>5, PersistType DEF TypeInv
  <2>7. ASSUME NEW t \in Server, handler'[t] # Nil
        PROVE  handler'[t].args.preLogIndex \in lastIncludedIndex[t]..LastLogIndex(t)
    <3>1. CASE t = s
      BY <1>1, <1>7, <2>1, <2>3, <3>1
    <3>2. CASE t # s
      <4>1. handler'[t] = handler[t]
        BY <1>7, <2>3, <3>2
      <4>. QED BY <2>7, <4>1 DEF TypeInv, InBounds, Idle
    <3>. QED BY <3>1, <3>2
  <2>8. InBounds'
    <3>1. \A t \in Server : LastLogIndex(t)' = LastLogIndex(t)
      BY <1>3, <1>7 DEF LastLogIndex
    <3>. QED BY <1>3, <1>7, <2>6, <2>7, <3>1 DEF TypeInv, InBounds, Idle, applyVars
  <2>. QED BY <1>3, <1>4, <1>7, <2>4, <2>5, <2>6, <2>8
           DEF TypeInv, TypeOK, applyVars, leaderVars, boundVars
<1>8. CASE /\ Consistent(s, m)
           /\ AppendAndApply(s, m, currentTerm[s])
           /\ UNCHANGED handler
           /\ Persist(s)
  <2>1. m.preLogIndex \in lastIncludedIndex[s]..LastLogIndex(s)
    BY <1>8 DEF Consistent
  <2>2. handler' = [handler EXCEPT ![s] = Nil]
    BY <1>1, <1>2, <1>8 DEF TypeInv, TypeOK
  <2>. QED BY <1>1, <1>2, <1>3, <1>4, <1>8, <2>1, <2>2, AcceptedType
<1>9. CASE /\ m.term < currentTerm[s]
           /\ \E g \in Garbage :
                 messages' = Answer(m, AppendAnswer(m, currentTerm[s], FALSE, g), messages)
           /\ UNCHANGED <<electionVars, log, disk, applyVars, handler>>
  <2>1. PICK g \in Garbage :
          messages' = Answer(m, AppendAnswer(m, currentTerm[s], FALSE, g), messages)
    BY <1>9
  <2>2. g \in Nat
    BY GarbageAssumption
  <2>3. Sound(messages')
    BY <1>1, <1>2, <2>1, <2>2, RefusalSound
  <2>. QED BY <1>5, <1>9, <2>3
<1>10. CASE /\ ~Consistent(s, m)
            /\ \E c \in ConflictIndexes(s, m) :
                  messages' = Answer(m, AppendAnswer(m, currentTerm[s], FALSE, c), messages)
            /\ UNCHANGED <<log, applyVars, handler>>
            /\ Persist(s) \/ UNCHANGED disk
  <2>1. PICK c \in ConflictIndexes(s, m) :
          messages' = Answer(m, AppendAnswer(m, currentTerm[s], FALSE, c), messages)
    BY <1>10
  <2>2. c \in Nat
    BY <1>1, ConflictType DEF TypeInv
  <2>3. Sound(messages')
    BY <1>1, <1>2, <2>1, <2>2, RefusalSound
  <2>. QED BY <1>5, <1>6, <1>10, <2>3
<1>. QED BY <1>7, <1>8, <1>9, <1>10 DEF AppendEntries

LEMMA ResumeAppendEntriesType ==
    ASSUME TypeInv, NEW s \in Server, ResumeAppendEntries(s)
    PROVE  TypeInv'
<1>. DEFINE m == handler[s].args
            term == handler[s].term
<1>1. m \in AppendRequest /\ term \in Nat
  BY DEF ResumeAppendEntries, Idle, TypeInv, TypeOK, Call
<1>2. m.preLogIndex \in lastIncludedIndex[s]..LastLogIndex(s)
  BY DEF ResumeAppendEntries, TypeInv, InBounds
<1>3. /\ AppendAndApply(s, m, term) /\ Persist(s)
      /\ UNCHANGED <<lastIncludedIndex, lastIncludedTerm, leaderVars, boundVars>>
      /\ handler' = [handler EXCEPT ![s] = Nil]
      /\ UNCHANGED electionVars
  BY DEF ResumeAppendEntries
<1>4. /\ currentTerm' \in [Server -> Nat]
      /\ votedFor' \in [Server -> Server \cup {Nil}]
      /\ votesGranted' \in [Server -> Nat]
      /\ voters' \in [Server -> SUBSET Server]
      /\ state' \in [Server -> State]
  BY <1>3 DEF TypeInv, TypeOK, electionVars
<1>. HIDE DEF m, term
<1>. QED BY <1>1, <1>2, <1>3, <1>4, AcceptedType

LEMMA HandleAppendReplyType ==
    ASSUME TypeInv, NEW m \in messages, HandleAppendReply(m)
    PROVE  TypeInv'
<1>. DEFINE s == m.to
            d == m.from
            match == Greatest(matchIndex[s][d], m.match)
            next == IF m.conflictIndex > 0 THEN m.conflictIndex
                    ELSE IF nextIndex[s][d] > lastIncludedIndex[s] + 1 THEN nextIndex[s][d] - 1
                    ELSE nextIndex[s][d]
<1>1. /\ m \in AppendReply /\ s \in Server /\ d \in Server /\ m.term \in Nat
      /\ m.match \in Nat /\ m.conflictIndex \in Nat
  <2>1. m \in Message /\ m.type = "AppendEntriesReply"
    BY DEF HandleAppendReply, TypeInv, TypeOK
  <2>2. m \in AppendReply
    BY <2>1, MessageTypes
  <2>. QED BY <2>2 DEF AppendReply
<1>2. UNCHANGED <<log, lastIncludedIndex, lastIncludedTerm, boundVars, handler>>
  BY DEF HandleAppendReply
<1>3. /\ matchIndex \in [Server -> [Server -> Nat]] /\ nextIndex \in [Server -> [Server -> Nat]]
      /\ matchIndex[s] \in [Server -> Nat] /\ nextIndex[s] \in [Server -> Nat]
      /\ lastIncludedIndex[s] \in Nat
      /\ log \in [Server -> Seq(Entry)]
  BY <1>1 DEF TypeInv, TypeOK
<1>4. CASE StepDown(s, m.term) /\ Persist(s) /\ UNCHANGED <<leaderVars, applyVars, messages>>
  <2>1. /\ currentTerm' \in [Server -> Nat]
        /\ votedFor' \in [Server -> Server \cup {Nil}]
        /\ votesGranted' \in [Server -> Nat]
        /\ voters' \in [Server -> SUBSET Server]
        /\ state' \in [Server -> State]
    BY <1>1, <1>4, StepDownType DEF TypeInv
  <2>2. log' \in [Server -> Seq(Entry)]
    BY <1>2, <1>3
  <2>3. disk' \in [Server -> Disk] /\ \A t \in Server : disk'[t].snapshot = disk[t].snapshot
    BY <1>1, <1>4, <2>1, <2>2, PersistType DEF TypeInv
  <2>4. InBounds'
    BY <1>2, <1>4, <2>3, SoundMessages, SameIndexes DEF logVars
  <2>. QED BY <1>2, <1>4, <2>1, <2>2, <2>3, <2>4
           DEF TypeInv, TypeOK, applyVars, leaderVars, boundVars
<1>5. CASE /\ matchIndex' = [matchIndex EXCEPT ![s][d] = match]
           /\ nextIndex' = [nextIndex EXCEPT ![s][d] = match + 1]
           /\ ApplyUpTo(s, log[s], LeaderCommit(s, matchIndex'[s]))
           /\ UNCHANGED <<electionVars, disk, messages>>
  <2>1. match \in Nat
    BY <1>1, <1>3 DEF Greatest
  <2>. HIDE DEF match, s, d
  <2>2. matchIndex' \in [Server -> [Server -> Nat]] /\ nextIndex' \in [Server -> [Server -> Nat]]
    BY <1>1, <1>3, <1>5, <2>1
  <2>3. matchIndex'[s] \in [Server -> Nat]
    BY <1>1, <2>2
  <2>. DEFINE commit == LeaderCommit(s, matchIndex'[s])
  <2>4. /\ commit \in Nat
        /\ commit = commitIndex[s] \/ commit <= LastLogIndex(s)
    BY <1>1, <2>3, LeaderCommitType DEF TypeInv
  <2>5. ApplyUpTo(s, log[s], commit)
    BY <1>5
  <2>. HIDE DEF commit
  <2>6. log[s] \in Seq(Entry)
    BY <1>1, <1>3
  <2>7. commit = commitIndex[s] \/ commit <= lastIncludedIndex[s] + Len(log[s])
    BY <2>4 DEF LastLogIndex
  <2>8. /\ commitIndex' \in [Server -> Nat]
        /\ lastApplied' \in [Server -> Nat]
        /\ applied' \in [Server -> Seq(Command)]
        /\ \A t \in Server : /\ commitIndex'[t] <= lastApplied'[t]
                             /\ Len(applied'[t]) <= lastApplied'[t]
                             /\ lastApplied[t] <= lastApplied'[t]
    BY <1>1, <2>4, <2>5, <2>6, <2>7, ApplyType
  <2>9. InBounds'
    BY <1>2, <1>5, <2>8, SoundMessages, ChangedApplied
  <2>. QED BY <1>2, <1>5, <2>2, <2>8, <2>9 DEF TypeInv, TypeOK, electionVars, boundVars
<1>6. CASE /\ nextIndex' = [nextIndex EXCEPT ![s][d] = next]
           /\ messages' = IF next <= lastIncludedIndex[s]
                          THEN messages \cup {InstallArgs(s, d)} ELSE messages
           /\ UNCHANGED <<electionVars, disk, matchIndex, applyVars>>
  <2>1. next \in Nat
    <3>. HIDE DEF s, d
    <3>1. nextIndex[s][d] \in Nat
      BY <1>1, <1>3
    <3>. QED BY <1>1, <1>3, <3>1
  <2>. HIDE DEF next, s, d
  <2>2. nextIndex' \in [Server -> [Server -> Nat]]
    BY <1>1, <1>3, <1>6, <2>1
  <2>3. Sound(messages')
    <3>1. InstallArgs(s, d) \in Message
      BY <1>1, InstallArgsType DEF Message, Request
    <3>2. Len(InstallArgs(s, d).snapshot.commands) <= InstallArgs(s, d).snapshot.index
      BY <1>1, InstallArgsType
    <3>. QED BY <1>6, <3>1, <3>2, SoundMessages DEF Sound
  <2>4. InBounds'
    BY <1>2, <1>6, <2>3, SameIndexes DEF logVars
  <2>. QED BY <1>2, <1>6, <2>2, <2>3, <2>4 DEF TypeInv, TypeOK, Sound, electionVars, applyVars, boundVars
<1>. QED BY <1>4, <1>5, <1>6 DEF HandleAppendReply

-----------------------------------------------------------------------------
(* Snapshots and crashes keep the type.                                    *)

(* The next multiple of the interval is beyond the last one.               *)
LEMMA NextMultiple ==
    ASSUME NEW a \in Nat, NEW k \in Nat, k > 0
    PROVE  (a \div k + 1) * k \in Nat /\ (a \div k + 1) * k > a
<1>1. a \div k \in Nat
  OBVIOUS
<1>2. a = k * (a \div k) + (a % k) /\ a % k \in 0..(k - 1)
  OBVIOUS
<1>3. PICK q \in Nat : q = a \div k
  BY <1>1
<1>4. (q + 1) * k = k * q + k /\ k * q \in Nat
  BY <1>3
<1>5. (q + 1) * k \in Nat /\ (q + 1) * k > a
  BY <1>2, <1>3, <1>4
<1>. QED BY <1>3, <1>5

LEMMA TakeSnapshotType ==
    ASSUME "snapshot" \notin Races, TypeInv, NEW s \in Server, TakeSnapshot(s)
    PROVE  TypeInv'
<1>. DEFINE index == (lastIncludedIndex[s] \div SnapshotInterval + 1) * SnapshotInterval
            kept == SubSeq(log[s], index - lastIncludedIndex[s] + 1, Len(log[s]))
            commands == SubSeq(applied[s], 1, index)
            saved == [term |-> currentTerm[s], votedFor |-> Nil, log |-> kept,
                      snapshot |-> [index |-> index, term |-> TermAt(s, index),
                                    commands |-> commands]]
<1>1. /\ UNCHANGED <<electionVars, applyVars, leaderVars, boundVars, handler, messages>>
      /\ SnapshotInterval > 0
      /\ index <= Len(applied[s]) /\ index <= LastLogIndex(s)
      /\ handler[s] = Nil
      /\ lastIncludedIndex' = [lastIncludedIndex EXCEPT ![s] = index]
      /\ lastIncludedTerm' = [lastIncludedTerm EXCEPT ![s] = TermAt(s, index)]
      /\ log' = [log EXCEPT ![s] = kept]
      /\ disk' = [disk EXCEPT ![s] = saved]
  BY DEF TakeSnapshot, Idle
<1>2. /\ lastIncludedIndex \in [Server -> Nat] /\ lastIncludedTerm \in [Server -> Nat]
      /\ log \in [Server -> Seq(Entry)] /\ disk \in [Server -> Disk]
      /\ lastIncludedIndex[s] \in Nat /\ log[s] \in Seq(Entry) /\ applied[s] \in Seq(Command)
      /\ currentTerm[s] \in Nat
  BY DEF TypeInv, TypeOK
<1>3. index \in Nat /\ index > lastIncludedIndex[s]
  BY <1>1, <1>2, NextMultiple, BoundsAssumption
<1>. HIDE DEF index
<1>4. Len(log[s]) \in Nat /\ Len(applied[s]) \in Nat /\ LastLogIndex(s) = lastIncludedIndex[s] + Len(log[s])
  BY <1>2, LenProperties DEF LastLogIndex
<1>5. TermAt(s, index) \in Nat
  <2>1. index \in lastIncludedIndex[s]..LastLogIndex(s)
    BY <1>1, <1>2, <1>3, <1>4
  <2>. QED BY <2>1, TermAtType DEF TypeInv
<1>6. kept \in Seq(Entry)
  <2>. DEFINE first == index - lastIncludedIndex[s] + 1
  <2>1. first \in Nat /\ first >= 1
    BY <1>2, <1>3
  <2>. HIDE DEF first
  <2>2. \A i \in first..Len(log[s]) : log[s][i] \in Entry
    BY <1>2, <1>4, <2>1, ElementOfSeq
  <2>3. SubSeq(log[s], first, Len(log[s])) \in Seq(Entry)
    BY <1>2, <1>4, <2>1, <2>2, SubSeqProperties
  <2>. QED BY <2>3 DEF first
<1>7. commands \in Seq(Command) /\ Len(commands) = index
  <2>1. \A i \in 1..index : applied[s][i] \in Command
    BY <1>1, <1>2, <1>3, <1>4, ElementOfSeq
  <2>. QED BY <1>1, <1>2, <1>3, <1>4, <2>1, SubSeqProperties
<1>. HIDE DEF kept, commands
<1>8. saved \in Disk
  BY <1>2, <1>3, <1>5, <1>6, <1>7 DEF Disk, Snapshot
<1>9. disk' \in [Server -> Disk] /\ disk'[s] = saved /\ \A t \in Server \ {s} : disk'[t] = disk[t]
  <2>. HIDE DEF saved
  <2>. QED BY <1>1, <1>2, <1>8
<1>10. /\ lastIncludedIndex' \in [Server -> Nat] /\ lastIncludedTerm' \in [Server -> Nat]
       /\ log' \in [Server -> Seq(Entry)]
  BY <1>1, <1>2, <1>3, <1>5, <1>6
<1>11. ASSUME NEW t \in Server
       PROVE  /\ lastIncludedIndex'[t] <= lastApplied[t]
              /\ lastIncludedIndex'[t] = disk'[t].snapshot.index
              /\ Len(disk'[t].snapshot.commands) <= disk'[t].snapshot.index
              /\ handler[t] # Nil =>
                   handler[t].args.preLogIndex \in lastIncludedIndex'[t]..LastLogIndex(t)'
  <2>1. CASE t = s
    <3>1. /\ lastIncludedIndex'[t] = index
          /\ disk'[t].snapshot.index = index /\ disk'[t].snapshot.commands = commands
      BY <1>1, <1>2, <1>9, <2>1
    <3>2. Len(applied[s]) <= lastApplied[s] /\ lastApplied[s] \in Nat
      BY DEF TypeInv, TypeOK, InBounds
    <3>. QED BY <1>1, <1>3, <1>4, <1>7, <2>1, <3>1, <3>2
  <2>2. CASE t # s
    <3>1. /\ lastIncludedIndex'[t] = lastIncludedIndex[t] /\ disk'[t] = disk[t]
          /\ log'[t] = log[t]
      BY <1>1, <1>2, <1>9, <2>2
    <3>. QED BY <3>1 DEF TypeInv, InBounds, Idle, LastLogIndex
  <2>. QED BY <2>1, <2>2
<1>12. InBounds'
  BY <1>1, <1>11 DEF TypeInv, InBounds, Idle, applyVars
<1>. QED BY <1>1, <1>9, <1>10, <1>12
         DEF TypeInv, TypeOK, electionVars, applyVars, leaderVars, boundVars

LEMMA InstallType ==
    ASSUME TypeInv, NEW s \in Server, NEW snapshot \in Snapshot, Install(s, snapshot),
           Len(snapshot.commands) <= snapshot.index,
           handler[s] = Nil, UNCHANGED handler,
           currentTerm' \in [Server -> Nat], votedFor' \in [Server -> Server \cup {Nil}],
           Sound(messages')
    PROVE  /\ log' \in [Server -> Seq(Entry)]
           /\ lastIncludedIndex' \in [Server -> Nat]
           /\ lastIncludedTerm' \in [Server -> Nat]
           /\ commitIndex' \in [Server -> Nat]
           /\ lastApplied' \in [Server -> Nat]
           /\ applied' \in [Server -> Seq(Command)]
           /\ disk' \in [Server -> Disk]
           /\ InBounds'
<1>. DEFINE saved == [term |-> currentTerm'[s], votedFor |-> votedFor'[s],
                      log |-> <<>>, snapshot |-> snapshot]
<1>1. /\ log' = [log EXCEPT ![s] = <<>>]
      /\ lastIncludedIndex' = [lastIncludedIndex EXCEPT ![s] = snapshot.index]
      /\ lastIncludedTerm' = [lastIncludedTerm EXCEPT ![s] = snapshot.term]
      /\ lastApplied' = [lastApplied EXCEPT ![s] = Greatest(@, snapshot.index)]
      /\ applied' = [applied EXCEPT ![s] = snapshot.commands]
      /\ disk' = [disk EXCEPT ![s] = saved]
      /\ UNCHANGED commitIndex
  BY DEF Install, IngestSnap
<1>2. /\ log \in [Server -> Seq(Entry)] /\ lastIncludedIndex \in [Server -> Nat]
      /\ lastIncludedTerm \in [Server -> Nat] /\ commitIndex \in [Server -> Nat]
      /\ lastApplied \in [Server -> Nat] /\ applied \in [Server -> Seq(Command)]
      /\ disk \in [Server -> Disk]
  BY DEF TypeInv, TypeOK
<1>3. /\ snapshot.index \in Nat /\ snapshot.term \in Nat /\ snapshot.commands \in Seq(Command)
      /\ <<>> \in Seq(Entry)
  BY EmptySeq DEF Snapshot
<1>4. /\ Greatest(lastApplied[s], snapshot.index) \in Nat
      /\ Greatest(lastApplied[s], snapshot.index) >= lastApplied[s]
      /\ Greatest(lastApplied[s], snapshot.index) >= snapshot.index
  BY <1>2, <1>3 DEF Greatest
<1>5. saved \in Disk
  BY <1>3 DEF Disk
<1>6. /\ log' \in [Server -> Seq(Entry)]
      /\ lastIncludedIndex' \in [Server -> Nat]
      /\ lastIncludedTerm' \in [Server -> Nat]
      /\ commitIndex' \in [Server -> Nat]
      /\ lastApplied' \in [Server -> Nat]
      /\ applied' \in [Server -> Seq(Command)]
  BY <1>1, <1>2, <1>3, <1>4
<1>7. disk' \in [Server -> Disk] /\ disk'[s].snapshot = snapshot
  BY <1>1, <1>2, <1>5
<1>8. ASSUME NEW t \in Server
      PROVE  /\ commitIndex'[t] <= lastApplied'[t]
             /\ Len(applied'[t]) <= lastApplied'[t]
             /\ lastIncludedIndex'[t] <= lastApplied'[t]
             /\ lastIncludedIndex'[t] = disk'[t].snapshot.index
             /\ Len(disk'[t].snapshot.commands) <= disk'[t].snapshot.index
             /\ handler[t] # Nil =>
                  handler[t].args.preLogIndex \in lastIncludedIndex'[t]..LastLogIndex(t)'
  <2>1. CASE t = s
    <3>1. /\ lastIncludedIndex'[t] = snapshot.index /\ applied'[t] = snapshot.commands
          /\ lastApplied'[t] = Greatest(lastApplied[s], snapshot.index)
          /\ commitIndex'[t] = commitIndex[s]
      BY <1>1, <1>2, <2>1
    <3>2. commitIndex[s] <= lastApplied[s] /\ commitIndex[s] \in Nat /\ lastApplied[s] \in Nat
      BY <1>2 DEF TypeInv, InBounds
    <3>3. Len(snapshot.commands) \in Nat
      BY <1>3, LenProperties
    <3>. QED BY <1>3, <1>4, <1>7, <2>1, <3>1, <3>2, <3>3
  <2>2. CASE t # s
    <3>1. /\ lastIncludedIndex'[t] = lastIncludedIndex[t] /\ disk'[t] = disk[t]
          /\ log'[t] = log[t] /\ lastApplied'[t] = lastApplied[t] /\ applied'[t] = applied[t]
          /\ commitIndex'[t] = commitIndex[t]
      BY <1>1, <1>2, <2>2
    <3>. QED BY <3>1 DEF TypeInv, InBounds, Idle, LastLogIndex
  <2>. QED BY <2>1, <2>2
<1>9. InBounds'
  BY <1>8 DEF InBounds, Sound, Idle
<1>. QED BY <1>6, <1>7, <1>9

LEMMA HandleInstallSnapshotType ==
    ASSUME TypeInv, NEW m \in messages, HandleInstallSnapshot(m)
    PROVE  TypeInv'
<1>. DEFINE s == m.to
            reply == [type |-> "InstallSnapshotReply", from |-> s, to |-> m.from,
                      term |-> currentTerm[s]]
<1>1. /\ m \in InstallRequest /\ s \in Server /\ m.from \in Server /\ m.term \in Nat
      /\ m.snapshot \in Snapshot
      /\ Len(m.snapshot.commands) <= m.snapshot.index
  <2>1. m \in Message /\ m.type = "InstallSnapshot"
    BY DEF HandleInstallSnapshot, TypeInv, TypeOK
  <2>2. m \in InstallRequest
    BY <2>1, MessageTypes
  <2>3. Len(m.snapshot.commands) <= m.snapshot.index
    BY <2>1 DEF TypeInv, InBounds
  <2>. QED BY <2>2, <2>3 DEF InstallRequest
<1>2. /\ UNCHANGED <<leaderVars, boundVars, handler>>
      /\ handler[s] = Nil
      /\ messages' = Answer(m, reply, messages)
  BY DEF HandleInstallSnapshot, Idle
<1>3. Sound(messages')
  <2>1. currentTerm[s] \in Nat
    BY <1>1 DEF TypeInv, TypeOK
  <2>2. reply \in Reply
    BY <1>1, <2>1 DEF Reply, InstallReply
  <2>. HIDE DEF reply
  <2>. QED BY <1>2, <2>2, SoundMessages, AnswerSound
<1>4. /\ currentTerm' \in [Server -> Nat]
      /\ votedFor' \in [Server -> Server \cup {Nil}]
      /\ votesGranted' \in [Server -> Nat]
      /\ voters' \in [Server -> SUBSET Server]
      /\ state' \in [Server -> State]
  <2>1. CASE UNCHANGED electionVars
    BY <2>1 DEF TypeInv, TypeOK, electionVars
  <2>2. CASE StepDown(s, m.term)
    BY <1>1, <2>2, StepDownType DEF TypeInv
  <2>. QED BY <2>1, <2>2 DEF HandleInstallSnapshot
<1>5. CASE Install(s, m.snapshot)
  <2>. DEFINE snapshot == m.snapshot
  <2>. HIDE DEF s, snapshot
  <2>1. /\ snapshot \in Snapshot /\ Install(s, snapshot)
        /\ Len(snapshot.commands) <= snapshot.index /\ handler[s] = Nil
        /\ UNCHANGED handler
    BY <1>1, <1>2, <1>5 DEF snapshot
  <2>2. /\ log' \in [Server -> Seq(Entry)]
        /\ lastIncludedIndex' \in [Server -> Nat]
        /\ lastIncludedTerm' \in [Server -> Nat]
        /\ commitIndex' \in [Server -> Nat]
        /\ lastApplied' \in [Server -> Nat]
        /\ applied' \in [Server -> Seq(Command)]
        /\ disk' \in [Server -> Disk]
        /\ InBounds'
    BY <1>1, <1>3, <1>4, <2>1, InstallType
  <2>. QED BY <1>2, <1>3, <1>4, <2>2 DEF TypeInv, TypeOK, Sound, leaderVars, boundVars
<1>6. CASE UNCHANGED <<logVars, applyVars>> /\ (Persist(s) \/ UNCHANGED disk)
  <2>1. log' \in [Server -> Seq(Entry)]
    BY <1>6 DEF TypeInv, TypeOK, logVars
  <2>2. disk' \in [Server -> Disk] /\ \A t \in Server : disk'[t].snapshot = disk[t].snapshot
    <3>1. CASE Persist(s)
      BY <1>1, <1>4, <2>1, <3>1, PersistType DEF TypeInv
    <3>2. CASE UNCHANGED disk
      BY <3>2 DEF TypeInv, TypeOK
    <3>. QED BY <1>6, <3>1, <3>2
  <2>3. InBounds'
    BY <1>2, <1>3, <1>6, <2>2, SameIndexes
  <2>. QED BY <1>2, <1>3, <1>4, <1>6, <2>1, <2>2, <2>3
           DEF TypeInv, TypeOK, Sound, logVars, applyVars, leaderVars, boundVars
<1>. QED BY <1>5, <1>6 DEF HandleInstallSnapshot

LEMMA HandleInstallReplyType ==
    ASSUME TypeInv, NEW m \in messages, HandleInstallReply(m)
    PROVE  TypeInv'
<1>. DEFINE s == m.to
            d == m.from
<1>1. s \in Server /\ d \in Server /\ m.term \in Nat
  BY MessageTypes DEF TypeInv, TypeOK
<1>2. /\ UNCHANGED <<logVars, applyVars, boundVars, handler, messages>>
      /\ matchIndex' = [matchIndex EXCEPT ![s][d] = lastIncludedIndex[s]]
      /\ nextIndex' = [nextIndex EXCEPT ![s][d] = lastIncludedIndex[s] + 1]
  BY DEF HandleInstallReply, logVars
<1>3. matchIndex' \in [Server -> [Server -> Nat]] /\ nextIndex' \in [Server -> [Server -> Nat]]
  <2>1. /\ lastIncludedIndex[s] \in Nat
        /\ matchIndex \in [Server -> [Server -> Nat]] /\ nextIndex \in [Server -> [Server -> Nat]]
    BY <1>1 DEF TypeInv, TypeOK
  <2>. HIDE DEF s, d
  <2>. QED BY <1>1, <1>2, <2>1
<1>4. log' \in [Server -> Seq(Entry)]
  BY <1>2 DEF TypeInv, TypeOK, logVars
<1>5. /\ currentTerm' \in [Server -> Nat]
      /\ votedFor' \in [Server -> Server \cup {Nil}]
      /\ votesGranted' \in [Server -> Nat]
      /\ voters' \in [Server -> SUBSET Server]
      /\ state' \in [Server -> State]
      /\ disk' \in [Server -> Disk] /\ \A t \in Server : disk'[t].snapshot = disk[t].snapshot
  <2>1. CASE UNCHANGED <<electionVars, disk>>
    BY <2>1 DEF TypeInv, TypeOK, electionVars
  <2>2. CASE StepDown(s, m.term) /\ Persist(s)
    BY <1>1, <1>4, <2>2, StepDownType, PersistType DEF TypeInv
  <2>. QED BY <2>1, <2>2 DEF HandleInstallReply
<1>6. InBounds'
  BY <1>2, <1>5, SoundMessages, SameIndexes
<1>. QED BY <1>2, <1>3, <1>4, <1>5, <1>6 DEF TypeInv, TypeOK, logVars, applyVars, boundVars

(* A new instance made from a well-formed persister.                       *)
LEMMA RestartType ==
    ASSUME TypeInv, NEW s \in Server, NEW saved \in Disk, Restart(s, saved),
           Len(saved.snapshot.commands) <= saved.snapshot.index
    PROVE  TypeInv'
<1>1. /\ crashes < MaxCrashes /\ crashes' = crashes + 1
      /\ disk' = [disk EXCEPT ![s] = saved]
      /\ currentTerm' = [currentTerm EXCEPT ![s] = saved.term]
      /\ votedFor' = [votedFor EXCEPT ![s] = saved.votedFor]
      /\ votesGranted' = [votesGranted EXCEPT ![s] = 0]
      /\ voters' = [voters EXCEPT ![s] = {}]
      /\ state' = [state EXCEPT ![s] = "follower"]
      /\ log' = [log EXCEPT ![s] = saved.log]
      /\ lastIncludedIndex' = [lastIncludedIndex EXCEPT ![s] = saved.snapshot.index]
      /\ lastIncludedTerm' = [lastIncludedTerm EXCEPT ![s] = saved.snapshot.term]
      /\ commitIndex' = [commitIndex EXCEPT ![s] = 0]
      /\ lastApplied' = [lastApplied EXCEPT ![s] = saved.snapshot.index]
      /\ applied' = [applied EXCEPT ![s] = saved.snapshot.commands]
      /\ nextIndex' = [nextIndex EXCEPT ![s] = [d \in Server |-> 0]]
      /\ matchIndex' = [matchIndex EXCEPT ![s] = [d \in Server |-> 0]]
      /\ handler' = [handler EXCEPT ![s] = Nil]
      /\ messages' = Abandon(s, messages)
      /\ UNCHANGED requests
  BY DEF Restart, ReadPersist, IngestSnap
<1>2. TypeOK
  BY DEF TypeInv
<1>3. /\ saved.term \in Nat /\ saved.votedFor \in Server \cup {Nil}
      /\ saved.log \in Seq(Entry)
      /\ saved.snapshot.index \in Nat /\ saved.snapshot.term \in Nat
      /\ saved.snapshot.commands \in Seq(Command)
  BY DEF Disk, Snapshot
<1>4. Sound(messages')
  BY <1>1, SoundMessages, AbandonSound
<1>5. /\ currentTerm' \in [Server -> Nat]
      /\ votedFor' \in [Server -> Server \cup {Nil}]
      /\ votesGranted' \in [Server -> Nat]
      /\ voters' \in [Server -> SUBSET Server]
      /\ state' \in [Server -> State]
  BY <1>1, <1>2, <1>3 DEF TypeOK, State
<1>6. /\ log' \in [Server -> Seq(Entry)]
      /\ lastIncludedIndex' \in [Server -> Nat]
      /\ lastIncludedTerm' \in [Server -> Nat]
      /\ commitIndex' \in [Server -> Nat]
      /\ lastApplied' \in [Server -> Nat]
      /\ applied' \in [Server -> Seq(Command)]
  BY <1>1, <1>2, <1>3 DEF TypeOK
<1>7. /\ nextIndex' \in [Server -> [Server -> Nat]]
      /\ matchIndex' \in [Server -> [Server -> Nat]]
      /\ disk' \in [Server -> Disk]
      /\ handler' \in [Server -> Call \cup {Nil}]
  BY <1>1, <1>2 DEF TypeOK
<1>8. crashes' \in 0..MaxCrashes
  BY <1>1, <1>2, BoundsAssumption DEF TypeOK
<1>9. ASSUME NEW t \in Server
      PROVE  /\ commitIndex'[t] <= lastApplied'[t]
             /\ Len(applied'[t]) <= lastApplied'[t]
             /\ lastIncludedIndex'[t] <= lastApplied'[t]
             /\ lastIncludedIndex'[t] = disk'[t].snapshot.index
             /\ Len(disk'[t].snapshot.commands) <= disk'[t].snapshot.index
             /\ handler'[t] # Nil =>
                  handler'[t].args.preLogIndex \in lastIncludedIndex'[t]..LastLogIndex(t)'
  <2>1. CASE t = s
    <3>1. /\ lastIncludedIndex'[t] = saved.snapshot.index /\ applied'[t] = saved.snapshot.commands
          /\ lastApplied'[t] = saved.snapshot.index /\ commitIndex'[t] = 0
          /\ disk'[t] = saved /\ handler'[t] = Nil
      BY <1>1, <1>2, <2>1 DEF TypeOK
    <3>. QED BY <1>3, <3>1
  <2>2. CASE t # s
    <3>1. /\ lastIncludedIndex'[t] = lastIncludedIndex[t] /\ disk'[t] = disk[t]
          /\ log'[t] = log[t] /\ lastApplied'[t] = lastApplied[t] /\ applied'[t] = applied[t]
          /\ commitIndex'[t] = commitIndex[t] /\ handler'[t] = handler[t]
      BY <1>1, <1>2, <2>2 DEF TypeOK
    <3>. QED BY <3>1 DEF TypeInv, InBounds, Idle, LastLogIndex
  <2>. QED BY <2>1, <2>2
<1>10. InBounds'
  BY <1>4, <1>9 DEF InBounds, Sound, Idle
<1>11. messages' \subseteq Message /\ requests' \subseteq Command
  BY <1>1, <1>2, <1>4 DEF Sound, TypeOK
<1>. QED BY <1>5, <1>6, <1>7, <1>8, <1>10, <1>11 DEF TypeInv, TypeOK

LEMMA CrashType ==
    ASSUME TypeInv, NEW s \in Server, Crash(s)
    PROVE  TypeInv'
<1>. DEFINE saved == disk[s]
<1>1. saved \in Disk /\ Len(saved.snapshot.commands) <= saved.snapshot.index
  BY DEF TypeInv, TypeOK, InBounds
<1>2. Restart(s, saved)
  BY DEF Crash
<1>. HIDE DEF saved
<1>. QED BY <1>1, <1>2, RestartType

LEMMA CrashInInstallSnapshotType ==
    ASSUME TypeInv, NEW m \in messages, CrashInInstallSnapshot(m)
    PROVE  TypeInv'
<1>. DEFINE s == m.to
            vote == IF m.term > currentTerm[s] THEN Nil ELSE votedFor[s]
            saved == [disk[s] EXCEPT !.term = m.term, !.votedFor = vote, !.log = <<>>]
<1>1. s \in Server /\ m.term \in Nat
  BY MessageTypes DEF TypeInv, TypeOK
<1>2. Restart(s, saved)
  BY DEF CrashInInstallSnapshot
<1>3. disk[s] \in Disk /\ Len(disk[s].snapshot.commands) <= disk[s].snapshot.index
  BY <1>1 DEF TypeInv, TypeOK, InBounds
<1>4. vote \in Server \cup {Nil} /\ <<>> \in Seq(Entry)
  BY <1>1, EmptySeq DEF TypeInv, TypeOK
<1>. HIDE DEF s, vote
<1>5. saved \in Disk /\ saved.snapshot = disk[s].snapshot
  BY <1>1, <1>3, <1>4 DEF Disk
<1>. HIDE DEF saved
<1>. QED BY <1>1, <1>2, <1>3, <1>5, RestartType

-----------------------------------------------------------------------------
(* The theorem.                                                            *)

LEMMA InitType ==
    ASSUME Init
    PROVE  TypeInv
<1>1. NoSnapshot \in Snapshot /\ <<>> \in Seq(Entry) /\ <<>> \in Seq(Command)
  BY EmptySeq DEF NoSnapshot, Snapshot
<1>2. \A s \in Server : disk[s] \in Disk /\ disk[s].snapshot = NoSnapshot
  BY <1>1 DEF Init, Disk
<1>3. disk \in [Server -> Disk]
  <2>1. disk = [s \in Server |-> disk[s]]
    BY DEF Init
  <2>. QED BY <1>2, <2>1
<1>4. TypeOK
  BY <1>1, <1>3, BoundsAssumption DEF Init, TypeOK, State
<1>5. InBounds
  <2>1. \A s \in Server : disk[s].snapshot.index = 0 /\ Len(disk[s].snapshot.commands) = 0
    BY <1>2, EmptySeq DEF NoSnapshot
  <2>. QED BY <2>1, EmptySeq DEF Init, InBounds, Idle
<1>. QED BY <1>4, <1>5 DEF TypeInv

LEMMA StutterType ==
    ASSUME TypeInv, UNCHANGED vars
    PROVE  TypeInv'
<1>1. UNCHANGED <<electionVars, logVars, applyVars, leaderVars, boundVars, disk, handler, messages>>
  BY DEF vars
<1>2. InBounds'
  BY <1>1, SoundMessages, SameIndexes
<1>. QED BY <1>1, <1>2 DEF TypeInv, TypeOK, electionVars, logVars, applyVars, leaderVars, boundVars

(* Every step of a system whose snapshot() calls do not run in the middle  *)
(* of an appendEntries keeps the type and the indexes in step.             *)
LEMMA NextType ==
    ASSUME "snapshot" \notin Races, TypeInv, [Next]_vars
    PROVE  TypeInv'
<1>1. CASE UNCHANGED vars
  BY <1>1, StutterType
<1>2. ASSUME NEW s \in Server,
             \/ StartElection(s) \/ BecomeLeader(s) \/ \E c \in Command : Start(s, c)
             \/ BroadcastAppendEntries(s) \/ ResumeAppendEntries(s)
             \/ TakeSnapshot(s) \/ Crash(s)
      PROVE  TypeInv'
  BY <1>2, StartElectionType, BecomeLeaderType, StartType, BroadcastType,
     ResumeAppendEntriesType, TakeSnapshotType, CrashType
<1>3. ASSUME NEW m \in messages,
             \/ HandleRequestVote(m) \/ HandleVoteReply(m) \/ AppendEntries(m)
             \/ HandleAppendReply(m) \/ HandleInstallSnapshot(m) \/ HandleInstallReply(m)
             \/ CrashInInstallSnapshot(m)
      PROVE  TypeInv'
  BY <1>3, HandleRequestVoteType, HandleVoteReplyType, AppendEntriesType,
     HandleAppendReplyType, HandleInstallSnapshotType, HandleInstallReplyType,
     CrashInInstallSnapshotType
<1>. QED BY <1>1, <1>2, <1>3 DEF Next

(* Every variable keeps its type, and every log access of a critical       *)
(* section is in bounds, in every behaviour of any number of servers that  *)
(* does not let snapshot() into a running appendEntries.                   *)
THEOREM TypeCorrect ==
    ASSUME "snapshot" \notin Races
    PROVE  Spec => [](TypeOK /\ InBounds)
<1>1. Init => TypeInv
  BY InitType
<1>2. TypeInv /\ [Next]_vars => TypeInv'
  BY NextType
<1>3. TypeInv => TypeOK /\ InBounds
  BY DEF TypeInv
<1>. QED BY <1>1, <1>2, <1>3, PTL DEF Spec

(* Of the two, the second alone: the indexes of a server stay in step, so  *)
(* that appendEntries, updateCommitForLeader and the rest read m_logs only *)
(* where it has an entry.                                                  *)
THEOREM AlwaysInBounds ==
    ASSUME "snapshot" \notin Races
    PROVE  Spec => []InBounds
<1>1. Spec => [](TypeOK /\ InBounds)
  BY TypeCorrect
<1>2. TypeOK /\ InBounds => InBounds
  OBVIOUS
<1>. QED BY <1>1, <1>2, PTL

=============================================================================
