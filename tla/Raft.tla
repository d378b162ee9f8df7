-------------------------------- MODULE Raft --------------------------------
(***************************************************************************)
(* The Raft instance of Lab3_Raft/src/raft.cpp, one per server, with the   *)
(* persister it writes to, the requests and replies in the network and the *)
(* state machine that consumes its apply channel.                          *)
(*                                                                         *)
(* One action is one critical section of m_mu (or several adjacent ones    *)
(* that no other step can tell apart; the comment of the action says so).  *)
(*                                                                         *)
(* messages is a set.  A vote request or reply is there once and is taken  *)
(* out when it is handled.  Any other member stands for as many identical  *)
(* copies as the leader's broadcasts put in flight, so it is never taken   *)
(* out.  A message may be handled late, in any order, or never: loss,      *)
(* delay, reordering and disconnection need no action of their own.        *)
(***************************************************************************)
EXTENDS Integers, Sequences, FiniteSets

CONSTANTS
    Server,             \* ids of the servers (m_peers)
    Command,            \* what clients pass to start(), each once; bounds the log
    Nil,                \* "no server", "no handler running"
    SnapshotInterval,   \* the state machine snapshots every so many entries; 0: never
    Garbage,            \* what an uninitialised reply.conflictIndex may hold
    HugeIndex,          \* the sanity bound of broadcastAppendEntries on nextIndex
    Races,              \* the timing-dependent races of the code to include
    MaxTerm,            \* bound: elections stop at this term
    MaxCrashes          \* bound: crashes

(* "late_reply": the callback of a call may run after its server started   *)
(*               another election (calls give up after 100 ms, elections   *)
(*               are 700 ms apart, but callbacks queue in a thread pool).  *)
(* "timer":      the election timer may fire between two critical sections *)
(*               of a running appendEntries.                               *)
(* "snapshot":   snapshot() may run between two critical sections of a     *)
(*               running appendEntries.                                    *)
Race == {"late_reply", "timer", "snapshot"}

Preemption == Races \cap {"timer", "snapshot"}

ASSUME ServerAssumption  == IsFiniteSet(Server) /\ Server # {}
ASSUME NilAssumption     == Nil \notin Server
ASSUME BoundsAssumption  == /\ SnapshotInterval \in Nat
                            /\ MaxTerm \in Nat
                            /\ MaxCrashes \in Nat
ASSUME RacesAssumption   == Races \subseteq Race
ASSUME GarbageAssumption == Garbage \subseteq Nat /\ HugeIndex \in Nat

VARIABLES
    currentTerm, votedFor, votesGranted, state,         \* election
    log, lastIncludedIndex, lastIncludedTerm,           \* m_logs without its dummy
    commitIndex, lastApplied,
    nextIndex, matchIndex,                              \* leader's view of the peers
    disk,           \* persister: term, vote, log, and the snapshot
    handler,        \* appendEntries call between its critical sections, or Nil
    applied,        \* commands the state machine has executed, in order
    messages,       \* requests and replies in the network
    requests,       \* the commands accepted so far
    crashes,        \* crashes so far, bounded by MaxCrashes
    voters          \* history: whose votes votesGranted counts

electionVars == <<currentTerm, votedFor, votesGranted, state, voters>>
logVars      == <<log, lastIncludedIndex, lastIncludedTerm>>
applyVars    == <<commitIndex, lastApplied, applied>>
leaderVars   == <<nextIndex, matchIndex>>
boundVars    == <<requests, crashes>>
vars == <<electionVars, logVars, applyVars, leaderVars, boundVars,
          disk, handler, messages>>

-----------------------------------------------------------------------------
(* Types.                                                                  *)

State    == {"follower", "candidate", "leader"}
Entry    == [term : Nat, command : Command]
Snapshot == [index : Nat, term : Nat, commands : Seq(Command)]
NoSnapshot == [index |-> 0, term |-> 0, commands |-> <<>>]
Disk     == [term : Nat, votedFor : Server \cup {Nil},
             log : Seq(Entry), snapshot : Snapshot]

(* live: the caller still waits for the reply.  argsTerm and match are what *)
(* the caller's callback captured of its own arguments.                     *)
VoteRequest   == [type : {"RequestVote"}, from : Server, to : Server, live : BOOLEAN,
                  term : Nat, lastLogIndex : Nat, lastLogTerm : Nat]
VoteReply     == [type : {"RequestVoteReply"}, from : Server, to : Server,
                  argsTerm : Nat, term : Nat, voteGranted : BOOLEAN]
AppendRequest == [type : {"AppendEntries"}, from : Server, to : Server, live : BOOLEAN,
                  term : Nat, preLogIndex : Nat, preLogTerm : Nat,
                  entries : Seq(Entry), leaderCommit : Nat]
AppendReply   == [type : {"AppendEntriesReply"}, from : Server, to : Server,
                  argsTerm : Nat, match : Nat,
                  term : Nat, success : BOOLEAN, conflictIndex : Nat]
InstallRequest == [type : {"InstallSnapshot"}, from : Server, to : Server, live : BOOLEAN,
                   term : Nat, snapshot : Snapshot]
InstallReply  == [type : {"InstallSnapshotReply"}, from : Server, to : Server, term : Nat]
Request == VoteRequest \cup AppendRequest \cup InstallRequest
Reply   == VoteReply \cup AppendReply \cup InstallReply
Message == Request \cup Reply
Call    == [args : AppendRequest, term : Nat]      \* reply.term is set on entry

-----------------------------------------------------------------------------
(* Helpers.                                                                *)

Least(a, b)    == IF a < b THEN a ELSE b
Greatest(a, b) == IF a > b THEN a ELSE b
MaxOf(S)       == CHOOSE x \in S : \A y \in S : y <= x
MinOf(S)       == CHOOSE x \in S : \A y \in S : x <= y

LastLogIndex(s) == lastIncludedIndex[s] + Len(log[s])

(* m_logs[i - m_lastIncludedIndex]->term; position 0 is the dummy entry,   *)
(* which holds the term of the last entry in the snapshot.                 *)
TermAt(s, i) == IF i = lastIncludedIndex[s] THEN lastIncludedTerm[s]
                ELSE log[s][i - lastIncludedIndex[s]].term
LastLogTerm(s) == TermAt(s, LastLogIndex(s))

IsRequest(m) == m.type \in {"RequestVote", "AppendEntries", "InstallSnapshot"}

(* Mutated form of Majority: half of an odd number, rounded down, suffices. *)
MajorityOfHalf(n) == n >= Cardinality(Server) \div 2

Majority(n) == n > Cardinality(Server) \div 2

(* Mutated form of Abandon: the calls go on, and so do their replies.      *)
AbandonNothing(s, M) == M

(* The calls s has outstanding end without it: the requests stay in the    *)
(* network, their replies go nowhere.                                      *)
Abandon(s, M) ==
    LET replies == {m \in M : ~IsRequest(m) /\ m.to = s}
        pending == {m \in M : IsRequest(m) /\ m.from = s /\ m.live}
    IN  (M \ (replies \cup pending)) \cup {[m EXCEPT !.live = FALSE] : m \in pending}

(* A reply travels back only to a caller that still waits for it.          *)
Answer(m, r, M) == IF m.live THEN M \cup {r} ELSE M

(* Mutated forms of Persist: one of the three fields is not written.       *)
PersistButTerm(s) ==
    disk' = [disk EXCEPT ![s].votedFor = votedFor'[s], ![s].log = log'[s]]
PersistButVote(s) ==
    disk' = [disk EXCEPT ![s].term = currentTerm'[s], ![s].log = log'[s]]
PersistButLog(s) ==
    disk' = [disk EXCEPT ![s].term = currentTerm'[s], ![s].votedFor = votedFor'[s]]

(* helperPersist: term, vote and log are written before m_mu is released.  *)
Persist(s) ==
    disk' = [disk EXCEPT ![s].term = currentTerm'[s],
                         ![s].votedFor = votedFor'[s],
                         ![s].log = log'[s]]

(* Mutated form of StepDown: the role is not changed.                      *)
StepDownInTermOnly(s, term) ==
    /\ currentTerm' = [currentTerm EXCEPT ![s] = term]
    /\ votedFor' = [votedFor EXCEPT ![s] = Nil]
    /\ UNCHANGED <<state, votesGranted, voters>>

(* helperStepDownToFollower, always called with a higher term.             *)
StepDown(s, term) ==
    /\ currentTerm' = [currentTerm EXCEPT ![s] = term]
    /\ votedFor' = [votedFor EXCEPT ![s] = Nil]
    /\ state' = [state EXCEPT ![s] = "follower"]
    /\ UNCHANGED <<votesGranted, voters>>

(* One handler at a time runs on a server: Server::dispatch holds its      *)
(* mutex while it does.                                                    *)
Idle(s) == handler[s] = Nil

(* Mutated form of ApplyUpTo: applies everything up to commit again.       *)
ApplyAgain(s, newLog, commit) ==
    LET new == [i \in 1..commit |-> newLog[i - lastIncludedIndex[s]].command]
    IN  /\ commitIndex' = [commitIndex EXCEPT ![s] = commit]
        /\ lastApplied' = [lastApplied EXCEPT ![s] = Greatest(@, commit)]
        /\ applied' = [applied EXCEPT ![s] = @ \o new]

(* applierSnap: the state machine executes the commands that follow index  *)
(* previous only if they are the next ones it expects.                     *)
Execute(s, previous, commands) ==
    applied' = IF Len(applied[s]) = previous
               THEN [applied EXCEPT ![s] = @ \o commands] ELSE applied

(* ingestSnap: the state machine becomes what the snapshot holds.          *)
IngestSnap(s, snapshot) == applied' = [applied EXCEPT ![s] = snapshot.commands]

(* The apply loop pushes entries lastApplied+1 .. commit.                  *)
ApplyUpTo(s, newLog, commit) ==
    LET new == [i \in 1..Greatest(commit - lastApplied[s], 0) |->
                  newLog[lastApplied[s] + i - lastIncludedIndex[s]].command]
    IN  /\ commitIndex' = [commitIndex EXCEPT ![s] = commit]
        /\ lastApplied' = [lastApplied EXCEPT ![s] = Greatest(@, commit)]
        /\ Execute(s, lastApplied[s], new)

-----------------------------------------------------------------------------
Init ==
    /\ currentTerm = [s \in Server |-> 0]
    /\ votedFor = [s \in Server |-> Nil]
    /\ votesGranted = [s \in Server |-> 0]
    /\ voters = [s \in Server |-> {}]
    /\ state = [s \in Server |-> "follower"]
    /\ log = [s \in Server |-> <<>>]
    /\ lastIncludedIndex = [s \in Server |-> 0]
    /\ lastIncludedTerm = [s \in Server |-> 0]
    /\ commitIndex = [s \in Server |-> 0]
    /\ lastApplied = [s \in Server |-> 0]
    /\ applied = [s \in Server |-> <<>>]
    /\ nextIndex = [s \in Server |-> [d \in Server |-> 0]]
    /\ matchIndex = [s \in Server |-> [d \in Server |-> 0]]
    /\ disk = [s \in Server |-> [term |-> 0, votedFor |-> Nil, log |-> <<>>,
                                 snapshot |-> NoSnapshot]]
    /\ handler = [s \in Server |-> Nil]
    /\ messages = {}
    /\ requests = {}
    /\ crashes = 0

-----------------------------------------------------------------------------
(* Elections.                                                              *)

(* The election timer of s fires in startRaft: helperPromoteToCandidate    *)
(* and startElection, with the vote requests it enqueues.  They are one    *)
(* step: a step-down between them only makes startElection return early    *)
(* (requests that are never handled), and m_votesGranted is reset anyway.  *)
StartElection(s) ==
    /\ state[s] \in {"follower", "candidate"}
    /\ "timer" \in Races \/ Idle(s)
    /\ currentTerm[s] < MaxTerm
    /\ currentTerm' = [currentTerm EXCEPT ![s] = @ + 1]
    /\ votedFor' = [votedFor EXCEPT ![s] = s]
    /\ votesGranted' = [votesGranted EXCEPT ![s] = 1]
    /\ voters' = [voters EXCEPT ![s] = {s}]
    /\ state' = [state EXCEPT ![s] = "candidate"]
    /\ UNCHANGED log
    /\ Persist(s)
    /\ LET earlier == IF "late_reply" \in Races THEN messages ELSE Abandon(s, messages)
       IN  messages' = earlier \cup
             {[type |-> "RequestVote", from |-> s, to |-> d, live |-> TRUE,
               term |-> currentTerm[s] + 1, lastLogIndex |-> LastLogIndex(s),
               lastLogTerm |-> LastLogTerm(s)] : d \in Server \ {s}}
    /\ UNCHANGED <<lastIncludedIndex, lastIncludedTerm, applyVars, leaderVars,
                   boundVars, handler>>

(* Mutated form of UpToDate: any log will do.                              *)
AnyLog(s, m) == TRUE

UpToDate(s, m) ==
    \/ m.lastLogTerm > LastLogTerm(s)
    \/ m.lastLogTerm = LastLogTerm(s) /\ m.lastLogIndex >= LastLogIndex(s)

(* requestVote.  reply.term is read before a step-down raises the term.    *)
HandleRequestVote(m) ==
    LET s == m.to
        vote == IF m.term > currentTerm[s] THEN Nil ELSE votedFor[s]
        grant == m.term >= currentTerm[s] /\ vote \in {Nil, m.from} /\ UpToDate(s, m)
        reply == [type |-> "RequestVoteReply", from |-> s, to |-> m.from,
                  argsTerm |-> m.term, term |-> currentTerm[s], voteGranted |-> grant]
    IN  /\ m.type = "RequestVote"
        /\ Idle(s)
        /\ messages' = Answer(m, reply, messages \ {m})
        /\ \/ /\ m.term < currentTerm[s]
              /\ UNCHANGED <<electionVars, disk, log>>
           \/ /\ m.term >= currentTerm[s]
              /\ currentTerm' = [currentTerm EXCEPT ![s] = m.term]
              /\ votedFor' = [votedFor EXCEPT ![s] = IF grant THEN m.from ELSE vote]
              /\ state' = [state EXCEPT ![s] = IF m.term > currentTerm[s]
                                               THEN "follower" ELSE @]
              /\ UNCHANGED <<votesGranted, voters, log>>
              /\ Persist(s)
        /\ UNCHANGED <<lastIncludedIndex, lastIncludedTerm, applyVars, leaderVars,
                       boundVars, handler>>

(* The callback of a vote request.  It checks that s is a candidate, not   *)
(* that the election is the one the vote was asked for.  A reply the code  *)
(* would ignore is a reply that is never handled.                          *)
HandleVoteReply(m) ==
    LET s == m.to
    IN  /\ m.type = "RequestVoteReply"
        /\ state[s] = "candidate"
        /\ messages' = messages \ {m}
        /\ UNCHANGED log
        /\ \/ /\ m.voteGranted
              /\ votesGranted' = [votesGranted EXCEPT ![s] = @ + 1]
              /\ voters' = [voters EXCEPT ![s] = @ \cup {m.from}]
              /\ UNCHANGED <<currentTerm, votedFor, state, disk>>
           \/ /\ ~m.voteGranted
              /\ m.term > currentTerm[s]
              /\ StepDown(s, m.term)
              /\ Persist(s)
        /\ UNCHANGED <<lastIncludedIndex, lastIncludedTerm, applyVars, leaderVars,
                       boundVars, handler>>

(* startRaft sees enough votes.                                            *)
BecomeLeader(s) ==
    /\ state[s] = "candidate"
    /\ Majority(votesGranted[s])
    /\ state' = [state EXCEPT ![s] = "leader"]
    /\ nextIndex' = [nextIndex EXCEPT ![s] = [d \in Server |-> LastLogIndex(s) + 1]]
    /\ matchIndex' = [matchIndex EXCEPT ![s] = [d \in Server |-> 0]]
    /\ UNCHANGED <<currentTerm, votedFor, votesGranted, voters, logVars, applyVars,
                   boundVars, disk, handler, messages>>

-----------------------------------------------------------------------------
(* Replication.                                                            *)

(* start(command) on a leader.  Commands are distinct, as in the tests.    *)
Start(s, c) ==
    /\ state[s] = "leader"
    /\ c \notin requests
    /\ requests' = requests \cup {c}
    /\ log' = [log EXCEPT ![s] = Append(@, [term |-> currentTerm[s], command |-> c])]
    /\ UNCHANGED <<electionVars, lastIncludedIndex, lastIncludedTerm>>
    /\ Persist(s)
    /\ UNCHANGED <<applyVars, leaderVars, crashes, handler, messages>>

(* The arguments helperTriggerInstallSnapshot builds: the snapshot it      *)
(* reads back from the persister, under m_lastIncludedIndex and -Term.     *)
InstallArgs(s, d) ==
    [type |-> "InstallSnapshot", from |-> s, to |-> d, live |-> TRUE,
     term |-> currentTerm[s],
     snapshot |-> [index |-> lastIncludedIndex[s], term |-> lastIncludedTerm[s],
                   commands |-> disk[s].snapshot.commands]]

(* The arguments broadcastAppendEntries builds: everything from nextIndex  *)
(* to the end of the log (nothing: a heartbeat).                           *)
AppendArgs(s, d) ==
    LET next == nextIndex[s][d]
    IN  [type |-> "AppendEntries", from |-> s, to |-> d, live |-> TRUE,
         term |-> currentTerm[s], preLogIndex |-> next - 1,
         preLogTerm |-> TermAt(s, next - 1),
         entries |-> SubSeq(log[s], next - lastIncludedIndex[s], Len(log[s])),
         leaderCommit |-> commitIndex[s]]

(* broadcastAppendEntries.  A peer whose nextIndex the log no longer       *)
(* reaches (helperNeedsSnapshot) is sent the snapshot; one whose nextIndex *)
(* is garbage ("DATA CORRUPTION", or past the end of m_logs) is not sent   *)
(* anything.  Each peer has its critical section in the loop; as any       *)
(* message may be lost, one step for all peers has every outcome.          *)
(* (termStarted is read a lock later than the arguments are built; if s    *)
(* stepped down between, its callback does nothing.)                       *)
BroadcastAppendEntries(s) ==
    LET behind == {d \in Server \ {s} : nextIndex[s][d] <= lastIncludedIndex[s]}
        intact == {d \in Server \ {s} : nextIndex[s][d] <= Least(HugeIndex, LastLogIndex(s) + 1)}
    IN  /\ state[s] = "leader"
        /\ messages' = messages \cup {InstallArgs(s, d) : d \in behind}
                                \cup {AppendArgs(s, d) : d \in intact \ behind}
        /\ UNCHANGED <<electionVars, logVars, applyVars, leaderVars, boundVars,
                       disk, handler>>

(* Mutated form of AppendAnswer: claims one entry too many.                *)
AppendAnswerPastEnd(m, term, success, conflictIndex) ==
    [type |-> "AppendEntriesReply", from |-> m.to, to |-> m.from, argsTerm |-> m.term,
     match |-> m.preLogIndex + Len(m.entries) + 1,
     term |-> term, success |-> success, conflictIndex |-> conflictIndex]

AppendAnswer(m, term, success, conflictIndex) ==
    [type |-> "AppendEntriesReply", from |-> m.to, to |-> m.from, argsTerm |-> m.term,
     match |-> m.preLogIndex + Len(m.entries),
     term |-> term, success |-> success, conflictIndex |-> conflictIndex]

(* Mutated form of ConflictIndexes: one below the last entry of a log that *)
(* is too short.                                                           *)
ConflictBeforeLast(s, m) ==
    IF m.preLogIndex > LastLogIndex(s) THEN {LastLogIndex(s) - 1}
    ELSE {m.preLogIndex}

(* Mutated form of ConflictIndexes: the index the refused entries start at. *)
ConflictAtNext(s, m) == {m.preLogIndex + 1}

(* The conflictIndex a failed consistency check reports: the last index of *)
(* a log that is too short; else the first index of the term found at      *)
(* preLogIndex, never below the dummy entry; nothing at all (whatever the  *)
(* uninitialised field held) when preLogIndex is inside the snapshot.      *)
ConflictIndexes(s, m) ==
    IF m.preLogIndex < lastIncludedIndex[s] THEN Garbage
    ELSE IF m.preLogIndex > LastLogIndex(s) THEN {LastLogIndex(s)}
    ELSE {MinOf({i \in lastIncludedIndex[s]..m.preLogIndex :
                   \A j \in i..m.preLogIndex : TermAt(s, j) = TermAt(s, m.preLogIndex)})}

(* Mutated form of Consistent: an entry at preLogIndex will do.            *)
ConsistentInLength(s, m) == m.preLogIndex \in lastIncludedIndex[s]..LastLogIndex(s)

Consistent(s, m) ==
    /\ m.preLogIndex \in lastIncludedIndex[s]..LastLogIndex(s)
    /\ TermAt(s, m.preLogIndex) = m.preLogTerm

(* Mutated form of AppendedLog: what is there already stays.               *)
AppendedUncut(s, m) ==
    log[s] \o SubSeq(m.entries, LastLogIndex(s) - m.preLogIndex + 1, Len(m.entries))

(* The log after the third critical section.  position is i + adj of the   *)
(* code, an unsigned number: one below the dummy wraps round and is past   *)
(* the end of any log.  The first entry of another term truncates the log  *)
(* there; without one, as many entries are skipped as match, wherever they *)
(* match.  (The dummy never conflicts: what it stands for is committed.)   *)
AppendedLog(s, m) ==
    LET position(i) == m.preLogIndex + i - lastIncludedIndex[s]
        overlap == {i \in DOMAIN m.entries : position(i) \in DOMAIN log[s]}
        conflicts == {i \in overlap : log[s][position(i)].term # m.entries[i].term}
        matches == {i \in overlap : log[s][position(i)] = m.entries[i]}
        mark == IF conflicts = {} THEN Cardinality(matches) ELSE MinOf(conflicts) - 1
        kept == IF conflicts = {} THEN log[s]
                ELSE SubSeq(log[s], 1, position(MinOf(conflicts)) - 1)
    IN  kept \o SubSeq(m.entries, mark + 1, Len(m.entries))

(* Mutated form of NewCommit: leaderCommit is not compared with our own.   *)
NewCommitAlways(s, m) == Least(m.leaderCommit, m.preLogIndex + Len(m.entries))

(* leaderCommit > m_commitIndex is tested; that the new m_commitIndex is   *)
(* not below the old one is not.                                           *)
NewCommit(s, m) ==
    IF m.leaderCommit > commitIndex[s]
    THEN Least(m.leaderCommit, m.preLogIndex + Len(m.entries))
    ELSE commitIndex[s]

(* The last two critical sections of appendEntries, for a call accepted by *)
(* the first two: append and persist, then commit and apply.  The last one *)
(* touches only the committed part of the log, which no other thread       *)
(* changes meanwhile.                                                      *)
AppendAndApply(s, m, term) ==
    /\ log' = [log EXCEPT ![s] = AppendedLog(s, m)]
    /\ ApplyUpTo(s, log'[s], NewCommit(s, m))
    /\ messages' = Answer(m, AppendAnswer(m, term, TRUE, 0), messages)

(* The first two critical sections of appendEntries: the term check with   *)
(* the step-down, then the consistency check.  Between them another thread *)
(* could only step further down, or snapshot a log the check then reads.   *)
(* Only the races Preemption names can tell the last two sections from the *)
(* first two; without them the call is one step.                           *)
AppendEntries(m) ==
    LET s == m.to
        answer(success, c) == AppendAnswer(m, currentTerm[s], success, c)
    IN  /\ m.type = "AppendEntries"
        /\ Idle(s)
        /\ \/ /\ m.term < currentTerm[s]
              /\ \E g \in Garbage : messages' = Answer(m, answer(FALSE, g), messages)
              /\ UNCHANGED <<electionVars, log, disk, applyVars, handler>>
           \/ /\ m.term >= currentTerm[s]
              /\ IF m.term > currentTerm[s] THEN StepDown(s, m.term)
                                            ELSE UNCHANGED electionVars
              /\ \/ /\ Consistent(s, m)
                    /\ Preemption = {}
                    /\ AppendAndApply(s, m, currentTerm[s])
                    /\ UNCHANGED handler
                 \/ /\ Consistent(s, m)
                    /\ Preemption # {}
                    /\ handler' = [handler EXCEPT ![s] =
                                     [args |-> m, term |-> currentTerm[s]]]
                    /\ UNCHANGED <<log, applyVars, messages>>
                 \/ /\ ~Consistent(s, m)
                    /\ \E c \in ConflictIndexes(s, m) :
                          messages' = Answer(m, answer(FALSE, c), messages)
                    /\ UNCHANGED <<log, applyVars, handler>>
              /\ IF m.term > currentTerm[s] \/ (Consistent(s, m) /\ Preemption = {})
                 THEN Persist(s) ELSE UNCHANGED disk
        /\ UNCHANGED <<lastIncludedIndex, lastIncludedTerm, leaderVars, boundVars>>

ResumeAppendEntries(s) ==
    /\ ~Idle(s)
    /\ handler' = [handler EXCEPT ![s] = Nil]
    /\ AppendAndApply(s, handler[s].args, handler[s].term)
    /\ UNCHANGED electionVars
    /\ Persist(s)
    /\ UNCHANGED <<lastIncludedIndex, lastIncludedTerm, leaderVars, boundVars>>

(* Mutated forms of LeaderCommit: an entry of any term will do; a peer     *)
(* that lacks only the entry itself counts.                                *)
LeaderCommitAnyTerm(s, match) ==
    LET replicas(n) == {s} \cup {d \in Server \ {s} : match[d] >= n}
        committable == {n \in commitIndex[s] + 1 .. LastLogIndex(s) :
                          Majority(Cardinality(replicas(n)))}
    IN  IF committable = {} THEN commitIndex[s] ELSE MaxOf(committable)
LeaderCommitOneMore(s, match) ==
    LET replicas(n) == {s} \cup {d \in Server \ {s} : match[d] + 1 >= n}
        committable == {n \in commitIndex[s] + 1 .. LastLogIndex(s) :
                          Majority(Cardinality(replicas(n)))}
    IN  IF committable = {} THEN commitIndex[s] ELSE MaxOf(committable)

(* helperUpdateLeaderCommitIndex: the highest entry of the current term    *)
(* that a majority holds, s itself included.                               *)
LeaderCommit(s, match) ==
    LET replicas(n) == {s} \cup {d \in Server \ {s} : match[d] >= n}
        committable == {n \in Greatest(commitIndex[s] + 1, lastIncludedIndex[s])..LastLogIndex(s) :
                          /\ Majority(Cardinality(replicas(n)))
                          /\ TermAt(s, n) = currentTerm[s]}
    IN  IF committable = {} THEN commitIndex[s] ELSE MaxOf(committable)

(* The callback of an AppendEntries call: only in the term of the call and *)
(* only while s leads.  Its two critical sections are one step: after a    *)
(* step-down between them the second returns.  (Not modelled: s leads      *)
(* again, in a later term, before the second one runs.)                    *)
HandleAppendReply(m) ==
    LET s == m.to
        d == m.from
        match == Greatest(matchIndex[s][d], m.match)
        next == IF m.conflictIndex > 0 THEN m.conflictIndex
                ELSE IF nextIndex[s][d] > lastIncludedIndex[s] + 1 THEN nextIndex[s][d] - 1
                ELSE nextIndex[s][d]
    IN  /\ m.type = "AppendEntriesReply"
        /\ state[s] = "leader"
        /\ currentTerm[s] = m.argsTerm
        /\ UNCHANGED log
        /\ \/ /\ m.term > currentTerm[s]
              /\ StepDown(s, m.term)
              /\ Persist(s)
              /\ UNCHANGED <<leaderVars, applyVars, messages>>
           \/ /\ m.term <= currentTerm[s]
              /\ m.success
              /\ matchIndex' = [matchIndex EXCEPT ![s][d] = match]
              /\ nextIndex' = [nextIndex EXCEPT ![s][d] = match + 1]
              /\ ApplyUpTo(s, log[s], LeaderCommit(s, matchIndex'[s]))
              /\ UNCHANGED <<electionVars, disk, messages>>
           \/ /\ m.term <= currentTerm[s]
              /\ ~m.success
              /\ nextIndex' = [nextIndex EXCEPT ![s][d] = next]
              /\ messages' = IF next <= lastIncludedIndex[s]
                             THEN messages \cup {InstallArgs(s, d)} ELSE messages
              /\ UNCHANGED <<electionVars, disk, matchIndex, applyVars>>
        /\ UNCHANGED <<lastIncludedIndex, lastIncludedTerm, boundVars, handler>>

-----------------------------------------------------------------------------
(* Snapshots.                                                              *)

(* Mutated form of TakeSnapshot: the last entry compacted stays in the log. *)
TakeSnapshotKeepingOne(s) ==
    LET index == (lastIncludedIndex[s] \div SnapshotInterval + 1) * SnapshotInterval
        kept == SubSeq(log[s], index - lastIncludedIndex[s], Len(log[s]))
    IN  /\ SnapshotInterval > 0
        /\ index <= Len(applied[s])
        /\ "snapshot" \in Races \/ Idle(s)
        /\ index <= LastLogIndex(s)
        /\ lastIncludedIndex' = [lastIncludedIndex EXCEPT ![s] = index]
        /\ lastIncludedTerm' = [lastIncludedTerm EXCEPT ![s] = TermAt(s, index)]
        /\ log' = [log EXCEPT ![s] = kept]
        /\ disk' = [disk EXCEPT ![s] =
                      [term |-> currentTerm[s], votedFor |-> Nil, log |-> kept,
                       snapshot |-> [index |-> index, term |-> TermAt(s, index),
                                     commands |-> SubSeq(applied[s], 1, index)]]]
        /\ UNCHANGED <<electionVars, applyVars, leaderVars, boundVars, handler, messages>>

(* snapshot(index): the state machine just executed index, the next        *)
(* multiple of the interval.  The raft state is saved with the key "Voted" *)
(* where helperReadPersist looks for "VotedFor".                           *)
TakeSnapshot(s) ==
    LET index == (lastIncludedIndex[s] \div SnapshotInterval + 1) * SnapshotInterval
        kept == SubSeq(log[s], index - lastIncludedIndex[s] + 1, Len(log[s]))
    IN  /\ SnapshotInterval > 0
        /\ index <= Len(applied[s])
        /\ "snapshot" \in Races \/ Idle(s)
        /\ index <= LastLogIndex(s)
        /\ lastIncludedIndex' = [lastIncludedIndex EXCEPT ![s] = index]
        /\ lastIncludedTerm' = [lastIncludedTerm EXCEPT ![s] = TermAt(s, index)]
        /\ log' = [log EXCEPT ![s] = kept]
        /\ disk' = [disk EXCEPT ![s] =
                      [term |-> currentTerm[s], votedFor |-> Nil, log |-> kept,
                       snapshot |-> [index |-> index, term |-> TermAt(s, index),
                                     commands |-> SubSeq(applied[s], 1, index)]]]
        /\ UNCHANGED <<electionVars, applyVars, leaderVars, boundVars, handler, messages>>

(* Mutated form of Install: m_lastApplied stays behind.                    *)
InstallUnapplied(s, snapshot) ==
    /\ log' = [log EXCEPT ![s] = <<>>]
    /\ lastIncludedIndex' = [lastIncludedIndex EXCEPT ![s] = snapshot.index]
    /\ lastIncludedTerm' = [lastIncludedTerm EXCEPT ![s] = snapshot.term]
    /\ applied' = [applied EXCEPT ![s] = snapshot.commands]
    /\ disk' = [disk EXCEPT ![s] = [term |-> currentTerm'[s], votedFor |-> votedFor'[s],
                                    log |-> <<>>, snapshot |-> snapshot]]
    /\ UNCHANGED <<commitIndex, lastApplied>>

(* installSnapshot of a snapshot newer than ours: the whole log goes, with *)
(* whatever it held beyond the snapshot.                                   *)
Install(s, snapshot) ==
    /\ log' = [log EXCEPT ![s] = <<>>]
    /\ lastIncludedIndex' = [lastIncludedIndex EXCEPT ![s] = snapshot.index]
    /\ lastIncludedTerm' = [lastIncludedTerm EXCEPT ![s] = snapshot.term]
    /\ lastApplied' = [lastApplied EXCEPT ![s] = Greatest(@, snapshot.index)]
    /\ IngestSnap(s, snapshot)
    /\ disk' = [disk EXCEPT ![s] = [term |-> currentTerm'[s], votedFor |-> votedFor'[s],
                                    log |-> <<>>, snapshot |-> snapshot]]
    /\ UNCHANGED commitIndex

HandleInstallSnapshot(m) ==
    LET s == m.to
        reply == [type |-> "InstallSnapshotReply", from |-> s, to |-> m.from,
                  term |-> currentTerm[s]]
    IN  /\ m.type = "InstallSnapshot"
        /\ Idle(s)
        /\ messages' = Answer(m, reply, messages)
        /\ \/ m.term > currentTerm[s] /\ StepDown(s, m.term)
           \/ m.term <= currentTerm[s] /\ UNCHANGED electionVars
        /\ \/ /\ m.term >= currentTerm[s]
              /\ m.snapshot.index > lastIncludedIndex[s]
              /\ Install(s, m.snapshot)
           \/ /\ m.term < currentTerm[s] \/ m.snapshot.index <= lastIncludedIndex[s]
              /\ UNCHANGED <<logVars, applyVars>>
              /\ IF m.term > currentTerm[s] THEN Persist(s) ELSE UNCHANGED disk
        /\ UNCHANGED <<leaderVars, boundVars, handler>>

(* The callback of an InstallSnapshot call.  It does not return after a    *)
(* step-down, does not check its term, and records the index of the        *)
(* leader's current snapshot, not of the one it sent.                      *)
HandleInstallReply(m) ==
    LET s == m.to
    IN  /\ m.type = "InstallSnapshotReply"
        /\ state[s] = "leader"
        /\ matchIndex' = [matchIndex EXCEPT ![s][m.from] = lastIncludedIndex[s]]
        /\ nextIndex' = [nextIndex EXCEPT ![s][m.from] = lastIncludedIndex[s] + 1]
        /\ UNCHANGED log
        /\ \/ m.term > currentTerm[s] /\ StepDown(s, m.term) /\ Persist(s)
           \/ m.term <= currentTerm[s] /\ UNCHANGED <<electionVars, disk>>
        /\ UNCHANGED <<lastIncludedIndex, lastIncludedTerm, applyVars, boundVars,
                       handler, messages>>

-----------------------------------------------------------------------------
(* Crashes.                                                                *)

(* helperReadPersist.                                                      *)
ReadPersist(s, saved) ==
    /\ currentTerm' = [currentTerm EXCEPT ![s] = saved.term]
    /\ votedFor' = [votedFor EXCEPT ![s] = saved.votedFor]
    /\ log' = [log EXCEPT ![s] = saved.log]
    /\ lastIncludedIndex' = [lastIncludedIndex EXCEPT ![s] = saved.snapshot.index]
    /\ lastIncludedTerm' = [lastIncludedTerm EXCEPT ![s] = saved.snapshot.term]
    /\ lastApplied' = [lastApplied EXCEPT ![s] = saved.snapshot.index]

(* The harness copies the persister, destroys the instance and starts a    *)
(* new one from the copy (startServer, the constructor), with a state      *)
(* machine rebuilt from the snapshot.                                      *)
Restart(s, saved) ==
    /\ crashes < MaxCrashes
    /\ crashes' = crashes + 1
    /\ disk' = [disk EXCEPT ![s] = saved]
    /\ ReadPersist(s, saved)
    /\ IngestSnap(s, saved.snapshot)
    /\ votesGranted' = [votesGranted EXCEPT ![s] = 0]
    /\ voters' = [voters EXCEPT ![s] = {}]
    /\ state' = [state EXCEPT ![s] = "follower"]
    /\ commitIndex' = [commitIndex EXCEPT ![s] = 0]
    /\ nextIndex' = [nextIndex EXCEPT ![s] = [d \in Server |-> 0]]
    /\ matchIndex' = [matchIndex EXCEPT ![s] = [d \in Server |-> 0]]
    /\ handler' = [handler EXCEPT ![s] = Nil]
    /\ messages' = Abandon(s, messages)
    /\ UNCHANGED requests

Crash(s) == Restart(s, disk[s])

(* The persister is copied after installSnapshot's helperPersist wrote the *)
(* emptied log and before saveStateAndSnapshot wrote the snapshot.         *)
CrashInInstallSnapshot(m) ==
    LET s == m.to
        higher == m.term > currentTerm[s]
    IN  /\ m.type = "InstallSnapshot"
        /\ Idle(s)
        /\ m.term >= currentTerm[s]
        /\ m.snapshot.index > lastIncludedIndex[s]
        /\ Restart(s, [disk[s] EXCEPT !.term = m.term,
                                      !.votedFor = IF higher THEN Nil ELSE votedFor[s],
                                      !.log = <<>>])

-----------------------------------------------------------------------------
Next ==
    \/ \E s \in Server :
         \/ StartElection(s)
         \/ BecomeLeader(s)
         \/ \E c \in Command : Start(s, c)
         \/ BroadcastAppendEntries(s)
         \/ ResumeAppendEntries(s)
         \/ TakeSnapshot(s)
         \/ Crash(s)
    \/ \E m \in messages :
         \/ HandleRequestVote(m)
         \/ HandleVoteReply(m)
         \/ AppendEntries(m)
         \/ HandleAppendReply(m)
         \/ HandleInstallSnapshot(m)
         \/ HandleInstallReply(m)
         \/ CrashInInstallSnapshot(m)

Spec == Init /\ [][Next]_vars

=============================================================================
