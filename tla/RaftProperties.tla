--------------------------- MODULE RaftProperties ---------------------------
(***************************************************************************)
(* What the Raft module promises: its type invariant, the safety           *)
(* invariants that make the replicated log a log, and the action           *)
(* properties that say what no step may do.                                *)
(***************************************************************************)
EXTENDS Raft

(* Every variable has its type.                                            *)
TypeOK ==
    /\ currentTerm \in [Server -> Nat]
    /\ votedFor \in [Server -> Server \cup {Nil}]
    /\ votesGranted \in [Server -> Nat]
    /\ voters \in [Server -> SUBSET Server]
    /\ state \in [Server -> State]
    /\ log \in [Server -> Seq(Entry)]
    /\ lastIncludedIndex \in [Server -> Nat]
    /\ lastIncludedTerm \in [Server -> Nat]
    /\ commitIndex \in [Server -> Nat]
    /\ lastApplied \in [Server -> Nat]
    /\ applied \in [Server -> Seq(Command)]
    /\ nextIndex \in [Server -> [Server -> Nat]]
    /\ matchIndex \in [Server -> [Server -> Nat]]
    /\ disk \in [Server -> Disk]
    /\ handler \in [Server -> Call \cup {Nil}]
    /\ messages \subseteq Message
    /\ requests \subseteq Command
    /\ crashes \in 0..MaxCrashes

-----------------------------------------------------------------------------
(* The absolute indexes of the entries s still holds, and the entry at one. *)
Indexes(s)    == lastIncludedIndex[s] + 1 .. LastLogIndex(s)
EntryAt(s, i) == log[s][i - lastIncludedIndex[s]]

(* checkOneLeader's "multiple leaders in one term!" never happens: votes   *)
(* counted by the reply callbacks belong to the election they were cast in. *)
ElectionSafety ==
    \A s, t \in Server :
        state[s] = "leader" /\ state[t] = "leader" /\ currentTerm[s] = currentTerm[t]
            => s = t

(* Two logs that hold an entry of the same term at the same index are      *)
(* equal up to there (as far as neither has compacted it away): what the   *)
(* consistency check and the mark loop of appendEntries are for.           *)
LogMatching ==
    \A s, t \in Server : \A i \in Indexes(s) \cap Indexes(t) :
        EntryAt(s, i).term = EntryAt(t, i).term =>
            \A j \in Indexes(s) \cap Indexes(t) : j <= i => EntryAt(s, j) = EntryAt(t, j)

(* A leader's log holds every entry any server of the same or an earlier   *)
(* term knows to be committed: requestVote's up-to-date test and the       *)
(* current-term test of helperUpdateLeaderCommitIndex together.            *)
LeaderCompleteness ==
    \A s, t \in Server :
        state[s] = "leader" /\ currentTerm[s] >= currentTerm[t] =>
            /\ commitIndex[t] <= LastLogIndex(s)
            /\ \A i \in Indexes(s) \cap Indexes(t) :
                  i <= commitIndex[t] => EntryAt(s, i) = EntryAt(t, i)

(* nCommitted's "different commands committed at same index" never         *)
(* happens: of two state machines one has executed a prefix of the other.  *)
StateMachineSafety ==
    \A s, t \in Server : \A i \in DOMAIN applied[s] \cap DOMAIN applied[t] :
        applied[s][i] = applied[t][i]

(* applierSnap's "apply out of order" never happens: the state machine is  *)
(* exactly where m_lastApplied says, so the next entry is the one it wants. *)
AppliedInOrder ==
    \A s \in Server : Len(applied[s]) = lastApplied[s]

(* What a leader counts as replicated is on the follower's log, and on its *)
(* disk, as long as the follower is in the leader's term: an old or        *)
(* reordered reply never makes matchIndex claim more.                      *)
MatchTruthful ==
    \A s, d \in Server :
        state[s] = "leader" /\ currentTerm[d] = currentTerm[s] /\ s # d =>
            /\ matchIndex[s][d] <= LastLogIndex(d)
            /\ \A i \in Indexes(s) \cap Indexes(d) :
                  i <= matchIndex[s][d] => EntryAt(d, i) = EntryAt(s, i)

(* What a server takes for committed ("safely committed in the majority of *)
(* the cluster") is on the logs or in the snapshots of a majority.         *)
CommittedOnMajority ==
    \A s \in Server : \A i \in Indexes(s) :
        i <= commitIndex[s] =>
            Majority(Cardinality({d \in Server :
                \/ i <= lastIncludedIndex[d]
                \/ i \in Indexes(d) /\ EntryAt(d, i) = EntryAt(s, i)}))

(* A leader never believes a peer's next entry is one it does not have     *)
(* itself yet: broadcastAppendEntries would read m_logs past its end.      *)
NextIndexInLog ==
    \A s, d \in Server :
        state[s] = "leader" => nextIndex[s][d] <= LastLogIndex(s) + 1

(* What a restart would read back is what m_mu protects: no step leaves    *)
(* its critical section with a term, vote or log it has not persisted.     *)
Durable ==
    \A s \in Server :
        /\ disk[s].term = currentTerm[s]
        /\ disk[s].votedFor = votedFor[s]
        /\ disk[s].log = log[s]
        /\ disk[s].snapshot.index = lastIncludedIndex[s]
        /\ disk[s].snapshot.term = lastIncludedTerm[s]

-----------------------------------------------------------------------------
(* The indexes of a server stay in step: nothing is committed that is not  *)
(* applied, the snapshot covers only what was applied, and an appendEntries *)
(* that passed the consistency check still finds preLogIndex in its log.   *)
(* With these, no critical section reads m_logs outside its bounds.        *)
InBounds ==
    /\ \A s \in Server :
         /\ commitIndex[s] <= lastApplied[s]
         /\ Len(applied[s]) <= lastApplied[s]
         /\ lastIncludedIndex[s] <= lastApplied[s]
         /\ lastIncludedIndex[s] = disk[s].snapshot.index
         /\ Len(disk[s].snapshot.commands) <= disk[s].snapshot.index
         /\ ~Idle(s) => handler[s].args.preLogIndex \in lastIncludedIndex[s]..LastLogIndex(s)
    /\ \A m \in messages :
         m.type = "InstallSnapshot" => Len(m.snapshot.commands) <= m.snapshot.index

-----------------------------------------------------------------------------
(* The votes of an election, from the ballot to the count.                 *)

Running(s) == state[s] \in {"candidate", "leader"}

(* v voted for s in term; it may have moved on to a later term since.      *)
Cast(v, s, term) ==
    \/ currentTerm[v] > term
    \/ currentTerm[v] = term /\ votedFor[v] = s

(* What the network holds of the vote s asked of d and still waits for.    *)
IsBallot(m, s, d) ==
    \/ m.type = "RequestVote" /\ m.live /\ m.from = s /\ m.to = d
    \/ m.type = "RequestVoteReply" /\ m.from = d /\ m.to = s

IsVote(m) == m.type = "RequestVoteReply" /\ m.voteGranted

VotesOnDisk ==
    \A s \in Server : disk[s].term = currentTerm[s] /\ disk[s].votedFor = votedFor[s]

BallotsCurrent ==
    \A m \in messages : \A s, d \in Server :
        IsBallot(m, s, d) =>
            /\ s # d
            /\ state[s] = "candidate" =>
                  currentTerm[s] = IF m.type = "RequestVote" THEN m.term ELSE m.argsTerm

OneBallotEach ==
    \A s, d \in Server : state[s] = "candidate" =>
        /\ \A m, n \in messages : IsBallot(m, s, d) /\ IsBallot(n, s, d) => m = n
        /\ d \in voters[s] => \A m \in messages : ~IsBallot(m, s, d)

VotesCast ==
    /\ \A m \in messages : IsVote(m) => Cast(m.from, m.to, m.argsTerm)
    /\ \A s \in Server : Running(s) => \A v \in voters[s] : Cast(v, s, currentTerm[s])

VotesCounted ==
    \A s \in Server :
        /\ Running(s) => votesGranted[s] = Cardinality(voters[s])
        /\ state[s] = "leader" => Majority(votesGranted[s])

OneVoteEach ==
    /\ \A s, t \in Server :
          Running(s) /\ Running(t) /\ currentTerm[s] = currentTerm[t] /\ s # t =>
              voters[s] \cap voters[t] = {}
    /\ \A m \in messages : \A t \in Server :
          IsVote(m) /\ Running(t) /\ currentTerm[t] = m.argsTerm /\ t # m.to =>
              m.from \notin voters[t]
    /\ \A m, n \in messages :
          IsVote(m) /\ IsVote(n) /\ m.from = n.from /\ m.argsTerm = n.argsTerm =>
              m.to = n.to

(* Every vote a candidate or leader has counted, and every one still on    *)
(* its way, was cast by its sender in this very election, is counted at    *)
(* most once, and for one candidate only; a restart remembers it.          *)
HonestCount ==
    /\ VotesOnDisk
    /\ BallotsCurrent
    /\ OneBallotEach
    /\ VotesCast
    /\ VotesCounted
    /\ OneVoteEach

-----------------------------------------------------------------------------
(* A restart finds on disk every index the instance held: the state and    *)
(* the snapshot it is rebuilt from were saved atomically.                  *)
RestartKeepsLog ==
    [][crashes' > crashes => \A s \in Server : LastLogIndex(s)' >= LastLogIndex(s)]_vars

(* A server's term never goes back, a restart included.                    *)
TermMonotonic ==
    [][\A s \in Server : currentTerm'[s] >= currentTerm[s]]_vars

(* A server never changes the vote it cast in a term, a restart included.  *)
VoteOnce ==
    [][\A s \in Server :
          currentTerm'[s] = currentTerm[s] /\ votedFor[s] # Nil
              => votedFor'[s] = votedFor[s]]_vars

(* While it leads, a server only appends to its log (and compacts what it  *)
(* applied): a straggling appendEntries never truncates a leader's log.    *)
LeaderAppendOnly ==
    [][\A s \in Server :
          state[s] = "leader" /\ state'[s] = "leader" =>
              /\ LastLogIndex(s)' >= LastLogIndex(s)
              /\ \A i \in Indexes(s) \cap Indexes(s)' : EntryAt(s, i)' = EntryAt(s, i)]_vars

(* commitIndex goes back only when the instance is replaced, although      *)
(* appendEntries takes min(leaderCommit, last new entry) without comparing *)
(* it with the old value.                                                  *)
CommitMonotonic ==
    [][\A s \in Server : commitIndex'[s] < commitIndex[s] => crashes' > crashes]_vars

=============================================================================
