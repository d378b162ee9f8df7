--------------------------- MODULE RaftStorageProofs ---------------------------
(***************************************************************************)
(* As long as nothing is compacted, what an instance holds is on disk, a   *)
(* restart finds it there, and the state machine is where m_lastApplied    *)
(* says, for any number of servers, terms, commands and crashes.           *)
(***************************************************************************)
EXTENDS RaftTypeProofs

NoCompaction == "snapshot" \notin Races /\ SnapshotInterval = 0

(* No snapshot is on a disk, in a server or in a message.                  *)
NothingCompacted ==
    /\ \A s \in Server : /\ lastIncludedIndex[s] = 0 /\ lastIncludedTerm[s] = 0
                         /\ disk[s].snapshot = NoSnapshot
    /\ \A m \in messages : m.type = "InstallSnapshot" => m.snapshot.index = 0

StorageInv == TypeInv /\ NothingCompacted /\ Durable /\ AppliedInOrder

-----------------------------------------------------------------------------
(* What every step does to what a server stores.                           *)

Untouched(t) ==
    /\ currentTerm'[t] = currentTerm[t] /\ votedFor'[t] = votedFor[t] /\ log'[t] = log[t]
    /\ disk'[t] = disk[t]

(* Nothing stored changes, or s ends its critical section with a Persist.  *)
SavesNothing == UNCHANGED <<currentTerm, votedFor, log, disk>>

Saves(s) ==
    /\ Persist(s)
    /\ \A t \in Server \ {s} :
          /\ currentTerm'[t] = currentTerm[t] /\ votedFor'[t] = votedFor[t]
          /\ log'[t] = log[t]

Stored == SavesNothing \/ \E s \in Server : Saves(s)

(* Nothing is executed, or the apply loop runs.                            *)
Executed ==
    \/ UNCHANGED <<lastApplied, applied>>
    \/ \E s \in Server : \E newLog \in Seq(Entry) : \E commit \in Nat :
          ApplyUpTo(s, newLog, commit)

(* No message brings a snapshot.                                           *)
NoSnapshotSent ==
    \A m \in messages' : m.type = "InstallSnapshot" => m.snapshot.index = 0

LEMMA SavedOnDisk ==
    ASSUME TypeInv, NothingCompacted, Durable, Stored,
           UNCHANGED <<lastIncludedIndex, lastIncludedTerm>>, NoSnapshotSent
    PROVE  NothingCompacted' /\ Durable'
<1>1. disk \in [Server -> Disk]
  BY DEF TypeInv, TypeOK
<1>2. CASE SavesNothing
  BY <1>2 DEF SavesNothing, NothingCompacted, Durable, NoSnapshotSent
<1>3. ASSUME NEW s \in Server, Saves(s)
      PROVE  NothingCompacted' /\ Durable'
  <2>1. /\ \A t \in Server : disk'[t].snapshot = disk[t].snapshot
        /\ \A t \in Server \ {s} : disk'[t] = disk[t]
        /\ disk'[s].term = currentTerm'[s] /\ disk'[s].votedFor = votedFor'[s]
        /\ disk'[s].log = log'[s]
    BY <1>1, <1>3 DEF Saves, Persist, Disk
  <2>2. NothingCompacted'
    BY <2>1 DEF NothingCompacted, NoSnapshotSent
  <2>3. Durable'
    BY <1>3, <2>1 DEF Durable, Saves
  <2>. QED BY <2>2, <2>3
<1>. QED BY <1>2, <1>3 DEF Stored

(* The apply loop pushes the next commands, and the state machine, which   *)
(* waits for exactly these, executes them all.                             *)
LEMMA ExecutedInOrder ==
    ASSUME TypeInv, AppliedInOrder, Executed
    PROVE  AppliedInOrder'
<1>1. lastApplied \in [Server -> Nat] /\ applied \in [Server -> Seq(Command)]
  BY DEF TypeInv, TypeOK
<1>2. CASE UNCHANGED <<lastApplied, applied>>
  BY <1>2 DEF AppliedInOrder
<1>3. ASSUME NEW s \in Server, NEW newLog \in Seq(Entry), NEW commit \in Nat,
             ApplyUpTo(s, newLog, commit)
      PROVE  AppliedInOrder'
  <2>. DEFINE n == Greatest(commit - lastApplied[s], 0)
              e(i) == newLog[lastApplied[s] + i - lastIncludedIndex[s]].command
              new == [i \in 1..n |-> e(i)]
  <2>1. /\ lastApplied' = [lastApplied EXCEPT ![s] = Greatest(@, commit)]
        /\ applied' = [applied EXCEPT ![s] = @ \o new]
    BY <1>3 DEF ApplyUpTo, Execute, AppliedInOrder
  <2>2. n \in Nat /\ Greatest(lastApplied[s], commit) = lastApplied[s] + n
    BY <1>1 DEF Greatest
  <2>. DEFINE U == Command \cup {e(i) : i \in 1..n}
  <2>3. new \in Seq(U) /\ Len(new) = n
    <3>1. new \in [1..n -> U]
      OBVIOUS
    <3>. HIDE DEF new, n, U
    <3>. QED BY <2>2, <3>1
  <2>4. Len(applied[s] \o new) = Len(applied[s]) + n
    <3>1. Command \subseteq U
      OBVIOUS
    <3>. HIDE DEF new, n, U
    <3>2. applied[s] \in Seq(U)
      BY <1>1, <3>1
    <3>. QED BY <2>3, <3>2, ConcatProperties
  <2>. HIDE DEF new, U
  <2>. HIDE DEF n
  <2>5. ASSUME NEW t \in Server
        PROVE  Len(applied'[t]) = lastApplied'[t]
    <3>1. CASE t = s
      BY <1>1, <2>1, <2>2, <2>4, <3>1 DEF AppliedInOrder
    <3>2. CASE t # s
      BY <1>1, <2>1, <3>2 DEF AppliedInOrder
    <3>. QED BY <3>1, <3>2
  <2>. QED BY <2>5 DEF AppliedInOrder
<1>. QED BY <1>2, <1>3 DEF Executed

LEMMA StorageStep ==
    ASSUME StorageInv, TypeInv', Stored, Executed,
           UNCHANGED <<lastIncludedIndex, lastIncludedTerm>>, NoSnapshotSent
    PROVE  StorageInv'
BY SavedOnDisk, ExecutedInOrder DEF StorageInv

-----------------------------------------------------------------------------
(* Messages.                                                               *)

LEMMA AnsweredSnapshotless ==
    ASSUME NothingCompacted, NEW m, NEW r, r.type # "InstallSnapshot", NEW M \in SUBSET messages,
           messages' = Answer(m, r, M)
    PROVE  NoSnapshotSent
BY DEF NothingCompacted, NoSnapshotSent, Answer

LEMMA AbandonedSnapshotless ==
    ASSUME TypeInv, NothingCompacted, NEW s, NEW m \in Abandon(s, messages),
           m.type = "InstallSnapshot"
    PROVE  m.snapshot.index = 0
<1>. DEFINE pending == {k \in messages : IsRequest(k) /\ k.from = s /\ k.live}
<1>1. m \in messages \/ \E k \in pending : m = [k EXCEPT !.live = FALSE]
  BY DEF Abandon
<1>2. ASSUME NEW k \in pending, m = [k EXCEPT !.live = FALSE]
      PROVE  m.snapshot.index = 0
  <2>1. k \in messages /\ k \in Message /\ IsRequest(k)
    BY DEF TypeInv, TypeOK
  <2>2. k \in VoteRequest \/ k \in AppendRequest \/ k \in InstallRequest
    BY <2>1, MessageTypes DEF IsRequest
  <2>3. k.type = "InstallSnapshot" /\ m.snapshot = k.snapshot
    BY <1>2, <2>2 DEF VoteRequest, AppendRequest, InstallRequest
  <2>. QED BY <2>1, <2>3 DEF NothingCompacted
<1>. QED BY <1>1, <1>2 DEF NothingCompacted

LEMMA InstallArgsSnapshotless ==
    ASSUME NothingCompacted, NEW s \in Server, NEW d
    PROVE  InstallArgs(s, d).snapshot.index = 0
BY DEF NothingCompacted, InstallArgs

-----------------------------------------------------------------------------
(* Every action stores what it changes, and executes what is next.         *)

(* What an action that neither installs nor takes a snapshot must show.    *)
Storing == Stored /\ Executed /\ UNCHANGED <<lastIncludedIndex, lastIncludedTerm>> /\ NoSnapshotSent

LEMMA SameMessages ==
    ASSUME NothingCompacted, messages' \subseteq messages
    PROVE  NoSnapshotSent
BY DEF NothingCompacted, NoSnapshotSent

LEMMA StepDownSaved ==
    ASSUME TypeInv, NEW s \in Server, NEW term, StepDown(s, term), Persist(s), UNCHANGED log
    PROVE  Stored
<1>1. Saves(s)
  BY DEF TypeInv, TypeOK, StepDown, Saves
<1>. QED BY <1>1 DEF Stored

LEMMA StartElectionStores ==
    ASSUME StorageInv, NEW s \in Server, StartElection(s)
    PROVE  Storing
<1>1. Saves(s)
  BY DEF StorageInv, TypeInv, TypeOK, StartElection, Saves
<1>2. NoSnapshotSent
  <2>. SUFFICES ASSUME NEW m \in messages', m.type = "InstallSnapshot"
                PROVE  m.snapshot.index = 0
    BY DEF NoSnapshotSent
  <2>1. m \in messages \/ m \in Abandon(s, messages) \/ m.type = "RequestVote"
    BY DEF StartElection
  <2>. QED BY <2>1, AbandonedSnapshotless DEF StorageInv, NothingCompacted
<1>. QED BY <1>1, <1>2 DEF StartElection, Storing, Stored, Executed, applyVars

LEMMA HandleRequestVoteStores ==
    ASSUME StorageInv, NEW m \in messages, HandleRequestVote(m)
    PROVE  Storing
<1>. DEFINE s == m.to
<1>1. s \in Server
  BY MessageTypes DEF StorageInv, TypeInv, TypeOK
<1>2. Stored
  <2>1. CASE UNCHANGED <<electionVars, disk, log>>
    BY <2>1 DEF electionVars, Stored, SavesNothing
  <2>2. ASSUME NEW v, NEW term, currentTerm' = [currentTerm EXCEPT ![s] = term],
               votedFor' = [votedFor EXCEPT ![s] = v], UNCHANGED log, Persist(s)
        PROVE  Stored
    <3>1. Saves(s)
      BY <1>1, <2>2 DEF StorageInv, TypeInv, TypeOK, Saves
    <3>. QED BY <1>1, <3>1 DEF Stored
  <2>. QED BY <2>1, <2>2 DEF HandleRequestVote
<1>3. NoSnapshotSent
  <2>1. \E r : r.type = "RequestVoteReply" /\ messages' = Answer(m, r, messages \ {m})
    BY DEF HandleRequestVote
  <2>. QED BY <2>1, AnsweredSnapshotless DEF StorageInv
<1>. QED BY <1>2, <1>3 DEF HandleRequestVote, Storing, Executed, applyVars

LEMMA HandleVoteReplyStores ==
    ASSUME StorageInv, NEW m \in messages, HandleVoteReply(m)
    PROVE  Storing
<1>1. m.to \in Server
  BY MessageTypes DEF StorageInv, TypeInv, TypeOK
<1>2. Stored
  BY <1>1, StepDownSaved DEF HandleVoteReply, StorageInv, Stored, SavesNothing
<1>3. NoSnapshotSent
  BY SameMessages DEF HandleVoteReply, StorageInv
<1>. QED BY <1>2, <1>3 DEF HandleVoteReply, Storing, Executed, applyVars

LEMMA BecomeLeaderStores ==
    ASSUME StorageInv, NEW s \in Server, BecomeLeader(s)
    PROVE  Storing
<1>1. NoSnapshotSent
  BY SameMessages DEF BecomeLeader, StorageInv
<1>. QED BY <1>1 DEF BecomeLeader, Storing, Stored, SavesNothing, Executed, applyVars, logVars

LEMMA StartStores ==
    ASSUME StorageInv, NEW s \in Server, NEW c, Start(s, c)
    PROVE  Storing
<1>1. Saves(s)
  BY DEF StorageInv, TypeInv, TypeOK, Start, Saves, electionVars
<1>2. NoSnapshotSent
  BY SameMessages DEF Start, StorageInv
<1>. QED BY <1>1, <1>2 DEF Start, Storing, Stored, Executed, applyVars

LEMMA BroadcastStores ==
    ASSUME StorageInv, NEW s \in Server, BroadcastAppendEntries(s)
    PROVE  Storing
<1>1. NoSnapshotSent
  <2>. SUFFICES ASSUME NEW m \in messages', m.type = "InstallSnapshot"
                PROVE  m.snapshot.index = 0
    BY DEF NoSnapshotSent
  <2>1. \/ m \in messages
        \/ \E d \in Server : m = InstallArgs(s, d)
        \/ \E d \in Server : m = AppendArgs(s, d)
    BY DEF BroadcastAppendEntries
  <2>2. \A d : AppendArgs(s, d).type # "InstallSnapshot"
    BY DEF AppendArgs
  <2>. QED BY <2>1, <2>2, InstallArgsSnapshotless DEF StorageInv, NothingCompacted
<1>. QED BY <1>1 DEF BroadcastAppendEntries, Storing, Stored, SavesNothing, Executed,
                     applyVars, logVars, electionVars

(* The last two critical sections of appendEntries.                        *)
LEMMA AppendAndApplyStores ==
    ASSUME StorageInv, NEW s \in Server, NEW m \in AppendRequest, NEW term,
           m.preLogIndex \in lastIncludedIndex[s]..LastLogIndex(s),
           AppendAndApply(s, m, term), Persist(s),
           \A t \in Server \ {s} : currentTerm'[t] = currentTerm[t] /\ votedFor'[t] = votedFor[t],
           UNCHANGED <<lastIncludedIndex, lastIncludedTerm>>
    PROVE  Storing
<1>1. AppendedLog(s, m) \in Seq(Entry)
  BY AppendedLogType DEF StorageInv, TypeInv
<1>2. log' = [log EXCEPT ![s] = AppendedLog(s, m)] /\ log \in [Server -> Seq(Entry)]
  BY DEF AppendAndApply, StorageInv, TypeInv, TypeOK
<1>3. Stored
  <2>1. \A t \in Server \ {s} : log'[t] = log[t]
    BY <1>2
  <2>. QED BY <2>1 DEF Stored, Saves
<1>4. Executed
  <2>1. log'[s] \in Seq(Entry)
    BY <1>1, <1>2
  <2>2. NewCommit(s, m) \in Nat
    <3>1. /\ commitIndex[s] \in Nat /\ m.leaderCommit \in Nat /\ m.preLogIndex \in Nat
          /\ Len(m.entries) \in Nat
      BY LenProperties DEF StorageInv, TypeInv, TypeOK, AppendRequest
    <3>. QED BY <3>1 DEF NewCommit, Least
  <2>3. ApplyUpTo(s, log'[s], NewCommit(s, m))
    BY DEF AppendAndApply
  <2>. QED BY <2>1, <2>2, <2>3 DEF Executed
<1>5. NoSnapshotSent
  <2>1. AppendAnswer(m, term, TRUE, 0).type # "InstallSnapshot"
    BY DEF AppendAnswer
  <2>2. messages' = Answer(m, AppendAnswer(m, term, TRUE, 0), messages)
    BY DEF AppendAndApply
  <2>. QED BY <2>1, <2>2, AnsweredSnapshotless DEF StorageInv
<1>. QED BY <1>3, <1>4, <1>5 DEF Storing

LEMMA AppendEntriesStores ==
    ASSUME StorageInv, NEW m \in messages, AppendEntries(m)
    PROVE  Storing
<1>. DEFINE s == m.to
<1>1. m \in AppendRequest /\ s \in Server
  <2>1. m \in Message /\ m.type = "AppendEntries"
    BY DEF AppendEntries, StorageInv, TypeInv, TypeOK
  <2>. QED BY <2>1, MessageTypes
<1>2. UNCHANGED <<lastIncludedIndex, lastIncludedTerm>>
  BY DEF AppendEntries
<1>3. \A t \in Server \ {s} : currentTerm'[t] = currentTerm[t] /\ votedFor'[t] = votedFor[t]
  <2>1. CASE UNCHANGED electionVars
    BY <2>1 DEF electionVars
  <2>2. CASE StepDown(s, m.term)
    BY <1>1, <2>2 DEF StepDown, StorageInv, TypeInv, TypeOK
  <2>. QED BY <2>1, <2>2 DEF AppendEntries
<1>4. CASE /\ Consistent(s, m)
           /\ AppendAndApply(s, m, currentTerm[s])
           /\ Persist(s)
  BY <1>1, <1>2, <1>3, <1>4, AppendAndApplyStores DEF Consistent
<1>5. CASE /\ UNCHANGED <<log, applyVars>>
           /\ Persist(s) \/ UNCHANGED <<electionVars, disk>>
           /\ \/ UNCHANGED messages
              \/ \E term, success, c :
                    messages' = Answer(m, AppendAnswer(m, term, success, c), messages)
  <2>1. Stored
    BY <1>1, <1>3, <1>5 DEF Stored, SavesNothing, Saves, electionVars
  <2>2. Executed
    BY <1>5 DEF Executed, applyVars
  <2>3. NoSnapshotSent
    <3>1. \A term, success, c : AppendAnswer(m, term, success, c).type # "InstallSnapshot"
      BY DEF AppendAnswer
    <3>. QED BY <1>5, <3>1, SameMessages, AnsweredSnapshotless DEF StorageInv
  <2>. QED BY <1>2, <2>1, <2>2, <2>3 DEF Storing
<1>6. CASE /\ m.term < currentTerm[s]
           /\ \E g \in Garbage :
                 messages' = Answer(m, AppendAnswer(m, currentTerm[s], FALSE, g), messages)
           /\ UNCHANGED <<electionVars, log, disk, applyVars, handler>>
  BY <1>5, <1>6
<1>7. CASE /\ UNCHANGED <<log, applyVars>>
           /\ Persist(s) \/ UNCHANGED <<electionVars, disk>>
           /\ \/ UNCHANGED messages
              \/ \E c \in ConflictIndexes(s, m) :
                   messages' = Answer(m, AppendAnswer(m, currentTerm[s], FALSE, c), messages)
  BY <1>5, <1>7
<1>. QED BY <1>4, <1>6, <1>7 DEF AppendEntries

LEMMA ResumeAppendEntriesStores ==
    ASSUME StorageInv, NEW s \in Server, ResumeAppendEntries(s)
    PROVE  Storing
<1>. DEFINE m == handler[s].args
<1>1. m \in AppendRequest
  BY DEF ResumeAppendEntries, Idle, StorageInv, TypeInv, TypeOK, Call
<1>2. m.preLogIndex \in lastIncludedIndex[s]..LastLogIndex(s)
  BY DEF ResumeAppendEntries, StorageInv, TypeInv, InBounds
<1>3. /\ AppendAndApply(s, m, handler[s].term) /\ Persist(s)
      /\ UNCHANGED <<currentTerm, votedFor, lastIncludedIndex, lastIncludedTerm>>
  BY DEF ResumeAppendEntries, electionVars
<1>. HIDE DEF m
<1>. QED BY <1>1, <1>2, <1>3, AppendAndApplyStores

LEMMA HandleAppendReplyStores ==
    ASSUME StorageInv, NEW m \in messages, HandleAppendReply(m)
    PROVE  Storing
<1>. DEFINE s == m.to
            d == m.from
<1>1. /\ m \in AppendReply /\ s \in Server /\ d \in Server /\ m.match \in Nat
  <2>1. m \in Message /\ m.type = "AppendEntriesReply"
    BY DEF HandleAppendReply, StorageInv, TypeInv, TypeOK
  <2>2. m \in AppendReply
    BY <2>1, MessageTypes
  <2>. QED BY <2>2 DEF AppendReply
<1>2. UNCHANGED <<log, lastIncludedIndex, lastIncludedTerm>>
  BY DEF HandleAppendReply
<1>3. CASE StepDown(s, m.term) /\ Persist(s) /\ UNCHANGED <<applyVars, messages>>
  <2>1. Stored
    BY <1>1, <1>2, <1>3, StepDownSaved DEF StorageInv
  <2>2. NoSnapshotSent
    BY <1>3, SameMessages DEF StorageInv
  <2>. QED BY <1>2, <1>3, <2>1, <2>2 DEF Storing, Executed, applyVars
<1>4. CASE /\ matchIndex' = [matchIndex EXCEPT ![s][d] = Greatest(matchIndex[s][d], m.match)]
           /\ ApplyUpTo(s, log[s], LeaderCommit(s, matchIndex'[s]))
           /\ UNCHANGED <<electionVars, disk, messages>>
  <2>1. matchIndex \in [Server -> [Server -> Nat]] /\ log[s] \in Seq(Entry)
    BY <1>1 DEF StorageInv, TypeInv, TypeOK
  <2>2. matchIndex[s][d] \in Nat
    BY <1>1, <2>1
  <2>3. Greatest(matchIndex[s][d], m.match) \in Nat
    BY <1>1, <2>2 DEF Greatest
  <2>4. matchIndex'[s] \in [Server -> Nat]
    BY <1>1, <1>4, <2>1, <2>3
  <2>5. LeaderCommit(s, matchIndex'[s]) \in Nat
    BY <1>1, <2>4, LeaderCommitType DEF StorageInv, TypeInv
  <2>6. Executed
    BY <1>1, <1>4, <2>1, <2>5 DEF Executed
  <2>7. NoSnapshotSent
    BY <1>4, SameMessages DEF StorageInv
  <2>. QED BY <1>2, <1>4, <2>6, <2>7 DEF Storing, Stored, SavesNothing, electionVars
<1>5. CASE /\ messages' = messages \/ messages' = messages \cup {InstallArgs(s, d)}
           /\ UNCHANGED <<electionVars, disk, applyVars>>
  <2>1. NoSnapshotSent
    BY <1>1, <1>5, InstallArgsSnapshotless DEF StorageInv, NothingCompacted, NoSnapshotSent
  <2>. QED BY <1>2, <1>5, <2>1 DEF Storing, Stored, SavesNothing, Executed, electionVars, applyVars
<1>. QED BY <1>3, <1>4, <1>5 DEF HandleAppendReply

(* No snapshot is newer than index 0.                                      *)
LEMMA NothingToInstall ==
    ASSUME StorageInv, NEW m \in messages, m.type = "InstallSnapshot"
    PROVE  m.to \in Server /\ ~(m.snapshot.index > lastIncludedIndex[m.to])
<1>1. m.to \in Server
  BY MessageTypes DEF StorageInv, TypeInv, TypeOK
<1>. QED BY <1>1 DEF StorageInv, NothingCompacted

LEMMA HandleInstallSnapshotStores ==
    ASSUME StorageInv, NEW m \in messages, HandleInstallSnapshot(m)
    PROVE  Storing
<1>. DEFINE s == m.to
<1>1. s \in Server /\ UNCHANGED <<logVars, applyVars>>
  BY NothingToInstall DEF HandleInstallSnapshot
<1>2. Stored
  <2>1. CASE m.term > currentTerm[s]
    <3>1. StepDown(s, m.term) /\ Persist(s) /\ UNCHANGED log
      <4>1. m.term \in Nat /\ currentTerm[s] \in Nat
        BY <1>1, MessageTypes DEF StorageInv, TypeInv, TypeOK
      <4>2. ~(m.term <= currentTerm[s])
        BY <2>1, <4>1
      <4>. QED BY <1>1, <2>1, <4>2, NothingToInstall DEF HandleInstallSnapshot, logVars
    <3>. QED BY <1>1, <3>1, StepDownSaved DEF StorageInv
  <2>2. CASE ~(m.term > currentTerm[s])
    BY <1>1, <2>2, NothingToInstall
    DEF HandleInstallSnapshot, Stored, SavesNothing, electionVars, logVars
  <2>. QED BY <2>1, <2>2
<1>3. NoSnapshotSent
  <2>1. \E r : r.type = "InstallSnapshotReply" /\ messages' = Answer(m, r, messages)
    BY DEF HandleInstallSnapshot
  <2>. QED BY <2>1, AnsweredSnapshotless DEF StorageInv
<1>. QED BY <1>1, <1>2, <1>3 DEF Storing, Executed, logVars, applyVars

LEMMA HandleInstallReplyStores ==
    ASSUME StorageInv, NEW m \in messages, HandleInstallReply(m)
    PROVE  Storing
<1>1. m.to \in Server
  BY MessageTypes DEF StorageInv, TypeInv, TypeOK
<1>2. Stored
  BY <1>1, StepDownSaved DEF HandleInstallReply, StorageInv, Stored, SavesNothing, electionVars
<1>3. NoSnapshotSent
  BY SameMessages DEF HandleInstallReply, StorageInv
<1>. QED BY <1>2, <1>3 DEF HandleInstallReply, Storing, Executed, applyVars

-----------------------------------------------------------------------------
(* Restarts, and the steps that cannot happen.                             *)

(* A restart reads back exactly the log there was, and an empty snapshot.  *)
LEMMA CrashStores ==
    ASSUME StorageInv, TypeInv', NEW s \in Server, Crash(s)
    PROVE  StorageInv' /\ UNCHANGED <<log, lastIncludedIndex>>
<1>1. /\ disk' = disk
      /\ currentTerm' = currentTerm /\ votedFor' = votedFor /\ log' = log
      /\ lastIncludedIndex' = lastIncludedIndex /\ lastIncludedTerm' = lastIncludedTerm
  BY DEF Crash, Restart, ReadPersist, StorageInv, Durable, TypeInv, TypeOK
<1>2. NoSnapshotSent
  <2>1. messages' = Abandon(s, messages)
    BY DEF Crash, Restart
  <2>. QED BY <2>1, AbandonedSnapshotless DEF StorageInv, NoSnapshotSent
<1>3. AppliedInOrder'
  <2>1. /\ applied' = [applied EXCEPT ![s] = <<>>]
        /\ lastApplied' = [lastApplied EXCEPT ![s] = 0]
    <3>1. /\ applied' = [applied EXCEPT ![s] = disk[s].snapshot.commands]
          /\ lastApplied' = [lastApplied EXCEPT ![s] = disk[s].snapshot.index]
      BY DEF Crash, Restart, ReadPersist, IngestSnap
    <3>2. disk[s].snapshot = NoSnapshot
      BY DEF StorageInv, NothingCompacted
    <3>. QED BY <3>1, <3>2 DEF NoSnapshot
  <2>. QED BY <2>1 DEF StorageInv, AppliedInOrder, TypeInv, TypeOK
<1>. QED BY <1>1, <1>2, <1>3 DEF StorageInv, NothingCompacted, Durable, NoSnapshotSent

(* Every step stores what it changes, or is a crash.                       *)
LEMMA StepStores ==
    ASSUME NoCompaction, StorageInv, Next
    PROVE  Storing \/ \E s \in Server : Crash(s)
<1>1. ASSUME NEW s \in Server,
             \/ StartElection(s) \/ BecomeLeader(s) \/ \E c \in Command : Start(s, c)
             \/ BroadcastAppendEntries(s) \/ ResumeAppendEntries(s)
      PROVE  Storing
  BY <1>1, StartElectionStores, BecomeLeaderStores, StartStores, BroadcastStores,
     ResumeAppendEntriesStores
<1>2. ASSUME NEW m \in messages,
             \/ HandleRequestVote(m) \/ HandleVoteReply(m) \/ AppendEntries(m)
             \/ HandleAppendReply(m) \/ HandleInstallSnapshot(m) \/ HandleInstallReply(m)
      PROVE  Storing
  BY <1>2, HandleRequestVoteStores, HandleVoteReplyStores, AppendEntriesStores,
     HandleAppendReplyStores, HandleInstallSnapshotStores, HandleInstallReplyStores
<1>3. \A s \in Server : ~TakeSnapshot(s)
  BY DEF NoCompaction, TakeSnapshot
<1>4. \A m \in messages : ~CrashInInstallSnapshot(m)
  BY NothingToInstall DEF CrashInInstallSnapshot
<1>. QED BY <1>1, <1>2, <1>3, <1>4 DEF Next

(* Nothing else adds to crashes.                                           *)
LEMMA CrashesOnly ==
    ASSUME NoCompaction, StorageInv, Next, crashes' > crashes
    PROVE  \E s \in Server : Crash(s)
<1>1. crashes \in Nat
  BY BoundsAssumption DEF StorageInv, TypeInv, TypeOK
<1>2. ~UNCHANGED crashes
  BY <1>1
<1>3. ASSUME NEW s \in Server,
             \/ StartElection(s) \/ BecomeLeader(s) \/ \E c \in Command : Start(s, c)
             \/ BroadcastAppendEntries(s) \/ ResumeAppendEntries(s) \/ TakeSnapshot(s)
      PROVE  UNCHANGED crashes
  BY <1>3 DEF StartElection, BecomeLeader, Start, BroadcastAppendEntries,
     ResumeAppendEntries, TakeSnapshot, boundVars
<1>4. ASSUME NEW m \in messages,
             \/ HandleRequestVote(m) \/ HandleVoteReply(m) \/ AppendEntries(m)
             \/ HandleAppendReply(m) \/ HandleInstallSnapshot(m) \/ HandleInstallReply(m)
      PROVE  UNCHANGED crashes
  BY <1>4 DEF HandleRequestVote, HandleVoteReply, AppendEntries, HandleAppendReply,
     HandleInstallSnapshot, HandleInstallReply, boundVars
<1>5. \A m \in messages : ~CrashInInstallSnapshot(m)
  BY NothingToInstall DEF CrashInInstallSnapshot
<1>. QED BY <1>2, <1>3, <1>4, <1>5 DEF Next

LEMMA InitStorage ==
    ASSUME Init
    PROVE  StorageInv
<1>1. NothingCompacted /\ Durable
  BY DEF Init, NothingCompacted, Durable, NoSnapshot
<1>2. AppliedInOrder
  BY DEF Init, AppliedInOrder
<1>. QED BY <1>1, <1>2, InitType DEF StorageInv

LEMMA NextStorage ==
    ASSUME NoCompaction, StorageInv, [Next]_vars
    PROVE  StorageInv'
<1>1. TypeInv'
  BY NextType DEF NoCompaction, StorageInv
<1>2. CASE UNCHANGED vars
  BY <1>1, <1>2 DEF StorageInv, NothingCompacted, Durable, AppliedInOrder, vars,
     electionVars, logVars, applyVars
<1>3. CASE Next
  <2>1. CASE Storing
    BY <1>1, <2>1, StorageStep DEF Storing
  <2>2. ASSUME NEW s \in Server, Crash(s)
        PROVE  StorageInv'
    BY <1>1, <2>2, CrashStores
  <2>. QED BY <1>3, <2>1, <2>2, StepStores
<1>. QED BY <1>2, <1>3

-----------------------------------------------------------------------------
(* The theorems.                                                           *)

(* No critical section of raft.cpp ends with a term, vote or log that is   *)
(* not on disk, whatever the timing of calls, elections and crashes, as    *)
(* long as the service never asks for a snapshot.                          *)
THEOREM AlwaysDurable ==
    ASSUME NoCompaction
    PROVE  Spec => []Durable
<1>1. Init => StorageInv
  BY InitStorage
<1>2. StorageInv /\ [Next]_vars => StorageInv'
  BY NextStorage
<1>3. StorageInv => Durable
  BY DEF StorageInv
<1>. QED BY <1>1, <1>2, <1>3, PTL DEF Spec

(* The state machine has executed exactly the first m_lastApplied entries: *)
(* the apply loops push each entry once, in order, after a restart too,    *)
(* and applierSnap never reports "apply out of order".                     *)
THEOREM AlwaysAppliedInOrder ==
    ASSUME NoCompaction
    PROVE  Spec => []AppliedInOrder
<1>1. Init => StorageInv
  BY InitStorage
<1>2. StorageInv /\ [Next]_vars => StorageInv'
  BY NextStorage
<1>3. StorageInv => AppliedInOrder
  BY DEF StorageInv
<1>. QED BY <1>1, <1>2, <1>3, PTL DEF Spec

(* A server restarted from its persister has the log the crashed instance  *)
(* had.                                                                    *)
THEOREM RestartFindsLog ==
    ASSUME NoCompaction
    PROVE  Spec => RestartKeepsLog
<1>1. Init => StorageInv
  BY InitStorage
<1>2. StorageInv /\ [Next]_vars => StorageInv'
  BY NextStorage
<1>3. StorageInv /\ [Next]_vars =>
        [crashes' > crashes => \A s \in Server : LastLogIndex(s)' >= LastLogIndex(s)]_vars
  <2>. SUFFICES ASSUME StorageInv, Next, crashes' > crashes, NEW t \in Server
                PROVE  LastLogIndex(t)' >= LastLogIndex(t)
    OBVIOUS
  <2>1. LastLogIndex(t) \in Nat
    BY LastLogType DEF StorageInv, TypeInv
  <2>2. PICK s \in Server : Crash(s)
    BY CrashesOnly
  <2>3. UNCHANGED <<log, lastIncludedIndex>>
    BY <2>2, CrashStores, NextType DEF StorageInv, NoCompaction
  <2>. QED BY <2>1, <2>3 DEF LastLogIndex
<1>. QED BY <1>1, <1>2, <1>3, PTL DEF Spec, RestartKeepsLog

=============================================================================
