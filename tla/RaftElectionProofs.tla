-------------------------- MODULE RaftElectionProofs --------------------------
(***************************************************************************)
(* Election safety of Raft for any number of servers, as long as the two   *)
(* faults that break it are absent: no reply is handled in a later         *)
(* election than its own, and no snapshot() overwrites the persisted vote. *)
(* The inductive invariant is HonestCount: every vote counted, or still on *)
(* its way, was cast by its sender for this candidate in this term.        *)
(***************************************************************************)
EXTENDS RaftTypeProofs

-----------------------------------------------------------------------------
(* What every step does to terms, votes and ballots.                       *)

(* v keeps the vote it cast, or moves to a later term.                     *)
Kept(v) ==
    \/ currentTerm'[v] > currentTerm[v]
    \/ currentTerm'[v] = currentTerm[v] /\ votedFor[v] \in {Nil, votedFor'[v]}

IsVoteMessage(m) == m.type \in {"RequestVote", "RequestVoteReply"}

(* No vote message is new, but for requests nobody waits for any more.     *)
NoNewBallot ==
    \A m \in messages' : IsVoteMessage(m) =>
        \/ m \in messages
        \/ /\ m.type = "RequestVote" /\ ~m.live
           /\ \E n \in messages : n.type = "RequestVote" /\ m = [n EXCEPT !.live = FALSE]

ElectionsUnchanged(s) ==
    /\ currentTerm'[s] = currentTerm[s] /\ votedFor'[s] = votedFor[s]
    /\ votesGranted'[s] = votesGranted[s] /\ voters'[s] = voters[s]
    /\ state'[s] = state[s]

(* Whoever is, or wants to be, elected, is not touched.                    *)
Calm ==
    /\ \A v \in Server : Kept(v)
    /\ \A t \in Server : Running(t)' => ElectionsUnchanged(t)
    /\ NoNewBallot

(* A vote stays cast.                                                      *)
LEMMA CastKept ==
    ASSUME TypeOK, TypeOK', NEW v \in Server, Kept(v), NEW s \in Server, NEW term \in Nat,
           Cast(v, s, term)
    PROVE  Cast(v, s, term)'
<1>1. currentTerm[v] \in Nat /\ currentTerm'[v] \in Nat /\ s # Nil
  BY NilAssumption DEF TypeOK
<1>. QED BY <1>1 DEF Kept, Cast

(* A vote for one server in a term is none for another.                    *)
LEMMA CastOnce ==
    ASSUME TypeOK, NEW v \in Server, NEW s \in Server, Cast(v, s, currentTerm[v])
    PROVE  votedFor[v] = s
<1>1. currentTerm[v] \in Nat
  BY DEF TypeOK
<1>. QED BY <1>1 DEF Cast

LEMMA BallotTypes ==
    ASSUME TypeOK, NEW m \in messages
    PROVE  /\ m.from \in Server /\ m.to \in Server
           /\ m.type = "RequestVoteReply" => m.argsTerm \in Nat /\ m.voteGranted \in BOOLEAN
BY MessageTypes DEF TypeOK, VoteReply

(* A step in which at most s steps down or restarts, and no vote message   *)
(* appears.                                                                *)
LEMMA CalmStep ==
    ASSUME TypeOK, TypeOK', HonestCount, NEW s \in Server,
           \A t \in Server \ {s} : ElectionsUnchanged(t),
           ElectionsUnchanged(s) \/ (Kept(s) /\ state'[s] = "follower"),
           NoNewBallot,
           VotesOnDisk'
    PROVE  HonestCount' /\ Calm
<1>1. \A v \in Server : Kept(v)
  BY DEF ElectionsUnchanged, Kept
<1>2. \A t \in Server : Running(t)' => ElectionsUnchanged(t)
  BY DEF Running
<1>3. \A m \in messages', t, d \in Server :
        IsBallot(m, t, d) => m \in messages
  BY DEF NoNewBallot, IsBallot, IsVoteMessage
<1>4. \A m \in messages' : IsVote(m) => m \in messages
  BY DEF NoNewBallot, IsVote, IsVoteMessage
<1>5. BallotsCurrent'
  <2>1. \A t \in Server : state'[t] = "candidate" => state[t] = "candidate" /\ currentTerm'[t] = currentTerm[t]
    BY <1>2 DEF Running, ElectionsUnchanged
  <2>2. BallotsCurrent
    BY DEF HonestCount
  <2>. QED BY <1>3, <2>1, <2>2 DEF BallotsCurrent, IsBallot
<1>6. OneBallotEach'
  <2>1. \A t \in Server : state'[t] = "candidate" => state[t] = "candidate" /\ voters'[t] = voters[t]
    BY <1>2 DEF Running, ElectionsUnchanged
  <2>2. OneBallotEach
    BY DEF HonestCount
  <2>. QED BY <1>3, <2>1, <2>2 DEF OneBallotEach, IsBallot
<1>7. VotesCast'
  <2>1. ASSUME NEW m \in messages', IsVote(m)
        PROVE  Cast(m.from, m.to, m.argsTerm)'
    <3>1. m \in messages /\ Cast(m.from, m.to, m.argsTerm)
      BY <1>4, <2>1 DEF HonestCount, VotesCast
    <3>2. m.from \in Server /\ m.to \in Server /\ m.argsTerm \in Nat
      BY <2>1, <3>1, BallotTypes DEF IsVote
    <3>. QED BY <1>1, <3>1, <3>2, CastKept
  <2>2. ASSUME NEW t \in Server, Running(t)', NEW v \in voters'[t]
        PROVE  Cast(v, t, currentTerm[t])'
    <3>1. currentTerm'[t] = currentTerm[t] /\ voters'[t] = voters[t] /\ Running(t)
      BY <1>2, <2>2 DEF ElectionsUnchanged, Running
    <3>2. PICK term \in Nat : term = currentTerm[t]
      BY DEF TypeOK
    <3>3. Cast(v, t, term) /\ v \in Server
      BY <2>2, <3>1, <3>2 DEF HonestCount, VotesCast, TypeOK
    <3>4. Cast(v, t, term)'
      BY <1>1, <3>3, CastKept
    <3>. QED BY <3>1, <3>2, <3>4 DEF Cast
  <2>. QED BY <2>1, <2>2 DEF VotesCast, IsVote
<1>8. VotesCounted'
  <2>1. ASSUME NEW t \in Server
        PROVE  /\ Running(t)' => votesGranted'[t] = Cardinality(voters'[t])
               /\ state'[t] = "leader" => Majority(votesGranted'[t])
    BY <1>2 DEF HonestCount, VotesCounted, Running, ElectionsUnchanged
  <2>. QED BY <2>1 DEF VotesCounted, Majority
<1>9. OneVoteEach'
  <2>1. \A t \in Server : Running(t)' =>
          Running(t) /\ currentTerm'[t] = currentTerm[t] /\ voters'[t] = voters[t]
    BY <1>2 DEF Running, ElectionsUnchanged
  <2>2. OneVoteEach
    BY DEF HonestCount
  <2>. QED BY <1>4, <2>1, <2>2 DEF OneVoteEach, IsVote
<1>. QED BY <1>1, <1>2, <1>5, <1>6, <1>7, <1>8, <1>9 DEF HonestCount, Calm

LEMMA ElectionsAlone ==
    ASSUME UNCHANGED electionVars
    PROVE  \A t \in Server : ElectionsUnchanged(t)
BY DEF electionVars, ElectionsUnchanged

LEMMA StepDownCalm ==
    ASSUME TypeOK, NEW s \in Server, NEW term \in Nat, term > currentTerm[s], StepDown(s, term)
    PROVE  /\ \A t \in Server \ {s} : ElectionsUnchanged(t)
           /\ Kept(s) /\ state'[s] = "follower"
BY DEF TypeOK, StepDown, ElectionsUnchanged, Kept

(* The persister follows: written by s alone, or by nobody.                *)
LEMMA VotesPersisted ==
    ASSUME TypeOK, VotesOnDisk, NEW s \in Server, Persist(s),
           \A t \in Server \ {s} : ElectionsUnchanged(t)
    PROVE  VotesOnDisk'
<1>1. disk \in [Server -> Disk]
  BY DEF TypeOK
<1>2. disk'[s].term = currentTerm'[s] /\ disk'[s].votedFor = votedFor'[s]
  BY <1>1 DEF Persist, Disk
<1>3. \A t \in Server \ {s} : disk'[t] = disk[t]
  BY <1>1 DEF Persist
<1>. QED BY <1>2, <1>3 DEF VotesOnDisk, ElectionsUnchanged

LEMMA VotesAlone ==
    ASSUME VotesOnDisk, UNCHANGED disk, \A t \in Server : ElectionsUnchanged(t)
    PROVE  VotesOnDisk'
BY DEF VotesOnDisk, ElectionsUnchanged

LEMMA AnswerCalm ==
    ASSUME NEW m, NEW r, ~IsVoteMessage(r), messages' = Answer(m, r, messages)
    PROVE  NoNewBallot
BY DEF NoNewBallot, Answer

LEMMA AbandonedDead ==
    ASSUME NEW n \in Message, IsRequest(n)
    PROVE  LET m == [n EXCEPT !.live = FALSE] IN ~m.live /\ m.type = n.type
BY MessageTypes DEF IsRequest, VoteRequest, AppendRequest, InstallRequest

(* Abandoned calls leave requests nobody waits for, and no reply.          *)
LEMMA AbandonedBallots ==
    ASSUME TypeOK, NEW s, messages' = Abandon(s, messages)
    PROVE  NoNewBallot
<1>. SUFFICES ASSUME NEW m \in messages', IsVoteMessage(m), m \notin messages
              PROVE  /\ m.type = "RequestVote" /\ ~m.live
                     /\ \E n \in messages : n.type = "RequestVote" /\ m = [n EXCEPT !.live = FALSE]
  BY DEF NoNewBallot
<1>1. PICK n \in messages : IsRequest(n) /\ n.live /\ m = [n EXCEPT !.live = FALSE]
  BY DEF Abandon
<1>2. ~m.live /\ m.type = n.type
  BY <1>1, AbandonedDead DEF TypeOK
<1>3. m.type = "RequestVote"
  BY <1>1, <1>2 DEF IsVoteMessage, IsRequest
<1>. QED BY <1>1, <1>2, <1>3

-----------------------------------------------------------------------------
(* The steps that are not part of an election.                             *)

LEMMA StartElectionless ==
    ASSUME TypeOK, TypeOK', HonestCount, NEW s \in Server, NEW c \in Command, Start(s, c)
    PROVE  HonestCount' /\ Calm
<1>1. UNCHANGED electionVars /\ Persist(s) /\ UNCHANGED messages
  BY DEF Start
<1>2. \A t \in Server : ElectionsUnchanged(t)
  BY <1>1, ElectionsAlone
<1>3. VotesOnDisk'
  BY <1>1, <1>2, VotesPersisted DEF HonestCount
<1>4. NoNewBallot
  BY <1>1 DEF NoNewBallot
<1>. QED BY <1>2, <1>3, <1>4, CalmStep

LEMMA BroadcastElectionless ==
    ASSUME TypeOK, TypeOK', HonestCount, NEW s \in Server, BroadcastAppendEntries(s)
    PROVE  HonestCount' /\ Calm
<1>1. UNCHANGED electionVars /\ UNCHANGED disk
  BY DEF BroadcastAppendEntries
<1>2. \A t \in Server : ElectionsUnchanged(t)
  BY <1>1, ElectionsAlone
<1>3. VotesOnDisk'
  BY <1>1, <1>2, VotesAlone DEF HonestCount
<1>4. NoNewBallot
  <2>. SUFFICES ASSUME NEW m \in messages', m \notin messages
                PROVE  ~IsVoteMessage(m)
    BY DEF NoNewBallot
  <2>1. PICK d \in Server : m = InstallArgs(s, d) \/ m = AppendArgs(s, d)
    BY DEF BroadcastAppendEntries
  <2>. QED BY <2>1 DEF InstallArgs, AppendArgs, IsVoteMessage
<1>. QED BY <1>2, <1>3, <1>4, CalmStep

LEMMA AppendEntriesElectionless ==
    ASSUME TypeOK, TypeOK', HonestCount, NEW m \in messages, AppendEntries(m)
    PROVE  HonestCount' /\ Calm
<1>. DEFINE s == m.to
<1>1. s \in Server /\ m.term \in Nat /\ currentTerm[s] \in Nat
  BY MessageTypes DEF TypeOK
<1>2. NoNewBallot
  <2>1. \/ UNCHANGED messages
        \/ \E success \in BOOLEAN : \E c \in Garbage \cup ConflictIndexes(s, m) \cup {0} :
             messages' = Answer(m, AppendAnswer(m, currentTerm[s], success, c), messages)
    BY DEF AppendEntries, AppendAndApply
  <2>2. \A success, c : ~IsVoteMessage(AppendAnswer(m, currentTerm[s], success, c))
    BY DEF AppendAnswer, IsVoteMessage
  <2>3. CASE UNCHANGED messages
    BY <2>3 DEF NoNewBallot
  <2>. QED BY <2>1, <2>2, <2>3, AnswerCalm
<1>3. CASE UNCHANGED electionVars /\ (UNCHANGED disk \/ Persist(s))
  <2>1. \A t \in Server : ElectionsUnchanged(t)
    BY <1>3, ElectionsAlone
  <2>2. VotesOnDisk'
    BY <1>1, <1>3, <2>1, VotesAlone, VotesPersisted DEF HonestCount
  <2>. QED BY <1>1, <1>2, <2>1, <2>2, CalmStep
<1>4. CASE m.term > currentTerm[s] /\ StepDown(s, m.term) /\ Persist(s)
  <2>1. /\ \A t \in Server \ {s} : ElectionsUnchanged(t)
        /\ Kept(s) /\ state'[s] = "follower"
    BY <1>1, <1>4, StepDownCalm
  <2>2. VotesOnDisk'
    BY <1>1, <1>4, <2>1, VotesPersisted DEF HonestCount
  <2>. QED BY <1>1, <1>2, <2>1, <2>2, CalmStep
<1>. QED BY <1>3, <1>4 DEF AppendEntries

LEMMA ResumeElectionless ==
    ASSUME TypeOK, TypeOK', HonestCount, NEW s \in Server, ResumeAppendEntries(s)
    PROVE  HonestCount' /\ Calm
<1>. DEFINE m == handler[s].args
            reply == AppendAnswer(m, handler[s].term, TRUE, 0)
<1>1. /\ UNCHANGED electionVars /\ Persist(s)
      /\ messages' = Answer(m, reply, messages)
  BY DEF ResumeAppendEntries, AppendAndApply
<1>2. \A t \in Server : ElectionsUnchanged(t)
  BY <1>1, ElectionsAlone
<1>3. VotesOnDisk'
  BY <1>1, <1>2, VotesPersisted DEF HonestCount
<1>4. ~IsVoteMessage(reply)
  BY DEF AppendAnswer, IsVoteMessage
<1>. HIDE DEF m, reply
<1>5. NoNewBallot
  BY <1>1, <1>4, AnswerCalm
<1>. QED BY <1>2, <1>3, <1>5, CalmStep

LEMMA HandleAppendReplyElectionless ==
    ASSUME TypeOK, TypeOK', HonestCount, NEW m \in messages, HandleAppendReply(m)
    PROVE  HonestCount' /\ Calm
<1>. DEFINE s == m.to
<1>1. s \in Server /\ m.term \in Nat /\ currentTerm[s] \in Nat
  BY MessageTypes DEF TypeOK
<1>2. NoNewBallot
  <2>1. messages' \subseteq messages \cup {InstallArgs(s, m.from)}
    BY DEF HandleAppendReply
  <2>2. ~IsVoteMessage(InstallArgs(s, m.from))
    BY DEF InstallArgs, IsVoteMessage
  <2>. QED BY <2>1, <2>2 DEF NoNewBallot
<1>3. CASE UNCHANGED electionVars /\ UNCHANGED disk
  <2>1. \A t \in Server : ElectionsUnchanged(t)
    BY <1>3, ElectionsAlone
  <2>2. VotesOnDisk'
    BY <1>3, <2>1, VotesAlone DEF HonestCount
  <2>. QED BY <1>1, <1>2, <2>1, <2>2, CalmStep
<1>4. CASE m.term > currentTerm[s] /\ StepDown(s, m.term) /\ Persist(s)
  <2>1. /\ \A t \in Server \ {s} : ElectionsUnchanged(t)
        /\ Kept(s) /\ state'[s] = "follower"
    BY <1>1, <1>4, StepDownCalm
  <2>2. VotesOnDisk'
    BY <1>1, <1>4, <2>1, VotesPersisted DEF HonestCount
  <2>. QED BY <1>1, <1>2, <2>1, <2>2, CalmStep
<1>. QED BY <1>3, <1>4 DEF HandleAppendReply

LEMMA HandleInstallSnapshotElectionless ==
    ASSUME TypeOK, TypeOK', HonestCount, NEW m \in messages, HandleInstallSnapshot(m)
    PROVE  HonestCount' /\ Calm
<1>. DEFINE s == m.to
            reply == [type |-> "InstallSnapshotReply", from |-> s, to |-> m.from,
                      term |-> currentTerm[s]]
<1>1. s \in Server /\ m.term \in Nat /\ currentTerm[s] \in Nat
  BY MessageTypes DEF TypeOK
<1>2. NoNewBallot
  <2>1. messages' = Answer(m, reply, messages) /\ ~IsVoteMessage(reply)
    BY DEF HandleInstallSnapshot, IsVoteMessage
  <2>. HIDE DEF reply
  <2>. QED BY <2>1, AnswerCalm
<1>3. /\ \A t \in Server \ {s} : ElectionsUnchanged(t)
      /\ ElectionsUnchanged(s) \/ (Kept(s) /\ state'[s] = "follower")
  <2>1. CASE m.term > currentTerm[s] /\ StepDown(s, m.term)
    BY <1>1, <2>1, StepDownCalm
  <2>2. CASE UNCHANGED electionVars
    BY <1>1, <2>2, ElectionsAlone
  <2>. QED BY <2>1, <2>2 DEF HandleInstallSnapshot
<1>4. VotesOnDisk'
  <2>1. CASE Install(s, m.snapshot)
    <3>1. disk' = [disk EXCEPT ![s] = [term |-> currentTerm'[s], votedFor |-> votedFor'[s],
                                       log |-> <<>>, snapshot |-> m.snapshot]]
      BY <2>1 DEF Install
    <3>2. disk \in [Server -> Disk]
      BY DEF TypeOK
    <3>3. disk'[s].term = currentTerm'[s] /\ disk'[s].votedFor = votedFor'[s]
      BY <1>1, <3>1, <3>2
    <3>4. \A t \in Server \ {s} : disk'[t] = disk[t]
      BY <3>1, <3>2
    <3>. QED BY <1>3, <3>3, <3>4 DEF HonestCount, VotesOnDisk, ElectionsUnchanged
  <2>2. CASE Persist(s)
    BY <1>1, <1>3, <2>2, VotesPersisted DEF HonestCount
  <2>3. CASE UNCHANGED disk /\ UNCHANGED electionVars
    BY <2>3, ElectionsAlone, VotesAlone DEF HonestCount
  <2>. QED BY <1>1, <2>1, <2>2, <2>3 DEF HandleInstallSnapshot
<1>. QED BY <1>1, <1>2, <1>3, <1>4, CalmStep

LEMMA HandleInstallReplyElectionless ==
    ASSUME TypeOK, TypeOK', HonestCount, NEW m \in messages, HandleInstallReply(m)
    PROVE  HonestCount' /\ Calm
<1>. DEFINE s == m.to
<1>1. s \in Server /\ m.term \in Nat /\ currentTerm[s] \in Nat
  BY MessageTypes DEF TypeOK
<1>2. NoNewBallot
  BY DEF NoNewBallot, HandleInstallReply
<1>3. CASE UNCHANGED electionVars /\ UNCHANGED disk
  <2>1. \A t \in Server : ElectionsUnchanged(t)
    BY <1>3, ElectionsAlone
  <2>2. VotesOnDisk'
    BY <1>3, <2>1, VotesAlone DEF HonestCount
  <2>. QED BY <1>1, <1>2, <2>1, <2>2, CalmStep
<1>4. CASE m.term > currentTerm[s] /\ StepDown(s, m.term) /\ Persist(s)
  <2>1. /\ \A t \in Server \ {s} : ElectionsUnchanged(t)
        /\ Kept(s) /\ state'[s] = "follower"
    BY <1>1, <1>4, StepDownCalm
  <2>2. VotesOnDisk'
    BY <1>1, <1>4, <2>1, VotesPersisted DEF HonestCount
  <2>. QED BY <1>1, <1>2, <2>1, <2>2, CalmStep
<1>. QED BY <1>3, <1>4 DEF HandleInstallReply

(* A new instance made from a persister no older than the old instance.    *)
LEMMA RestartElectionless ==
    ASSUME TypeOK, TypeOK', HonestCount, NEW s \in Server, NEW saved, Restart(s, saved),
           \/ saved.term > currentTerm[s]
           \/ saved.term = currentTerm[s] /\ saved.votedFor = votedFor[s]
    PROVE  HonestCount' /\ Calm
<1>1. /\ disk' = [disk EXCEPT ![s] = saved]
      /\ currentTerm' = [currentTerm EXCEPT ![s] = saved.term]
      /\ votedFor' = [votedFor EXCEPT ![s] = saved.votedFor]
      /\ votesGranted' = [votesGranted EXCEPT ![s] = 0]
      /\ voters' = [voters EXCEPT ![s] = {}]
      /\ state' = [state EXCEPT ![s] = "follower"]
      /\ messages' = Abandon(s, messages)
  BY DEF Restart, ReadPersist
<1>2. \A t \in Server \ {s} : ElectionsUnchanged(t)
  BY <1>1 DEF TypeOK, ElectionsUnchanged
<1>3. currentTerm'[s] = saved.term /\ votedFor'[s] = saved.votedFor /\ state'[s] = "follower"
  BY <1>1 DEF TypeOK
<1>4. Kept(s)
  BY <1>3 DEF Kept
<1>5. NoNewBallot
  BY <1>1, AbandonedBallots
<1>6. VotesOnDisk'
  <2>1. disk'[s] = saved /\ \A t \in Server \ {s} : disk'[t] = disk[t]
    BY <1>1 DEF TypeOK
  <2>. QED BY <1>2, <1>3, <2>1 DEF HonestCount, VotesOnDisk, ElectionsUnchanged
<1>. QED BY <1>2, <1>3, <1>4, <1>5, <1>6, CalmStep

LEMMA CrashElectionless ==
    ASSUME TypeOK, TypeOK', HonestCount, NEW s \in Server, Crash(s)
    PROVE  HonestCount' /\ Calm
<1>. DEFINE saved == disk[s]
<1>1. Restart(s, saved)
  BY DEF Crash
<1>2. saved.term = currentTerm[s] /\ saved.votedFor = votedFor[s]
  BY DEF HonestCount, VotesOnDisk
<1>. HIDE DEF saved
<1>. QED BY <1>1, <1>2, RestartElectionless

LEMMA CrashInInstallElectionless ==
    ASSUME TypeOK, TypeOK', HonestCount, NEW m \in messages, CrashInInstallSnapshot(m)
    PROVE  HonestCount' /\ Calm
<1>. DEFINE s == m.to
            vote == IF m.term > currentTerm[s] THEN Nil ELSE votedFor[s]
            saved == [disk[s] EXCEPT !.term = m.term, !.votedFor = vote, !.log = <<>>]
<1>1. s \in Server /\ m.term \in Nat /\ currentTerm[s] \in Nat /\ disk[s] \in Disk
  BY MessageTypes DEF TypeOK
<1>2. Restart(s, saved) /\ m.term >= currentTerm[s]
  BY DEF CrashInInstallSnapshot
<1>3. saved.term = m.term /\ saved.votedFor = vote
  <2>. HIDE DEF vote, s
  <2>. QED BY <1>1 DEF Disk
<1>4. \/ saved.term > currentTerm[s]
      \/ saved.term = currentTerm[s] /\ saved.votedFor = votedFor[s]
  <2>. HIDE DEF s, saved
  <2>. QED BY <1>1, <1>2, <1>3
<1>. HIDE DEF saved
<1>. QED BY <1>1, <1>2, <1>4, RestartElectionless

-----------------------------------------------------------------------------
(* The steps of an election.                                               *)

LEMMA BecomeLeaderElection ==
    ASSUME TypeOK, TypeOK', HonestCount, NEW s \in Server, BecomeLeader(s)
    PROVE  HonestCount' /\ \A v \in Server : Kept(v)
<1>1. /\ state[s] = "candidate" /\ Majority(votesGranted[s])
      /\ state' = [state EXCEPT ![s] = "leader"] /\ state \in [Server -> State]
      /\ UNCHANGED <<currentTerm, votedFor, votesGranted, voters, disk, messages>>
  BY DEF BecomeLeader, TypeOK
<1>2. \A t \in Server : /\ state'[t] = "candidate" => state[t] = "candidate"
                        /\ Running(t)' => Running(t)
                        /\ state'[t] = "leader" => state[t] = "leader" \/ t = s
  BY <1>1 DEF Running
<1>3. \A v \in Server : Kept(v)
  BY <1>1 DEF Kept
<1>4. VotesOnDisk'
  BY <1>1 DEF HonestCount, VotesOnDisk
<1>5. BallotsCurrent'
  BY <1>1, <1>2 DEF HonestCount, BallotsCurrent, IsBallot
<1>6. OneBallotEach'
  BY <1>1, <1>2 DEF HonestCount, OneBallotEach, IsBallot
<1>7. VotesCast'
  BY <1>1, <1>2 DEF HonestCount, VotesCast, IsVote, Cast
<1>8. VotesCounted'
  BY <1>1, <1>2 DEF HonestCount, VotesCounted, Majority
<1>9. OneVoteEach'
  BY <1>1, <1>2 DEF HonestCount, OneVoteEach, IsVote
<1>. QED BY <1>3, <1>4, <1>5, <1>6, <1>7, <1>8, <1>9 DEF HonestCount

LEMMA StartElectionElection ==
    ASSUME "late_reply" \notin Races,
           TypeOK, TypeOK', HonestCount, NEW s \in Server, StartElection(s)
    PROVE  HonestCount' /\ \A v \in Server : Kept(v)
<1>. DEFINE term == currentTerm[s] + 1
            ballot(d) == [type |-> "RequestVote", from |-> s, to |-> d, live |-> TRUE,
                          term |-> term, lastLogIndex |-> LastLogIndex(s),
                          lastLogTerm |-> LastLogTerm(s)]
            ballots == {ballot(d) : d \in Server \ {s}}
<1>1. /\ currentTerm' = [currentTerm EXCEPT ![s] = term]
      /\ votedFor' = [votedFor EXCEPT ![s] = s]
      /\ votesGranted' = [votesGranted EXCEPT ![s] = 1]
      /\ voters' = [voters EXCEPT ![s] = {s}]
      /\ state' = [state EXCEPT ![s] = "candidate"]
      /\ Persist(s)
      /\ messages' = Abandon(s, messages) \cup ballots
  BY DEF StartElection
<1>2. /\ currentTerm[s] \in Nat /\ term \in Nat
      /\ currentTerm'[s] = term /\ votedFor'[s] = s /\ votesGranted'[s] = 1
      /\ voters'[s] = {s} /\ state'[s] = "candidate"
  BY <1>1 DEF TypeOK
<1>3. \A t \in Server \ {s} : ElectionsUnchanged(t)
  BY <1>1 DEF TypeOK, ElectionsUnchanged
<1>4. \A v \in Server : Kept(v)
  BY <1>2, <1>3 DEF Kept, ElectionsUnchanged
<1>5. \A m \in ballots : /\ m.type = "RequestVote" /\ m.from = s /\ m.to \in Server \ {s}
                         /\ m.term = term
  OBVIOUS
<1>6. \A m, n \in ballots : m.to = n.to => m = n
  <2>. SUFFICES ASSUME NEW d \in Server \ {s}, NEW e \in Server \ {s}
                PROVE  ballot(d).to = ballot(e).to => ballot(d) = ballot(e)
    OBVIOUS
  <2>. QED OBVIOUS
<1>. HIDE DEF ballots, term
<1>7. ASSUME NEW m \in messages', NEW t \in Server, NEW d \in Server, IsBallot(m, t, d)
      PROVE  IF t = s THEN m \in ballots ELSE m \in messages
  <2>1. CASE m \in ballots
    BY <1>5, <1>7, <2>1 DEF IsBallot
  <2>2. CASE m \in messages /\ m \notin ballots
    <3>1. \A n \in messages : m = [n EXCEPT !.live = FALSE] => ~(IsRequest(n) /\ n.live)
      <4>. SUFFICES ASSUME NEW n \in messages, IsRequest(n), m = [n EXCEPT !.live = FALSE]
                    PROVE  FALSE
        OBVIOUS
      <4>1. ~m.live /\ m.type = n.type
        BY AbandonedDead DEF TypeOK
      <4>. QED BY <1>7, <4>1 DEF IsBallot, IsRequest
    <3>2. m \in messages \ ({n \in messages : ~IsRequest(n) /\ n.to = s}
                            \cup {n \in messages : IsRequest(n) /\ n.from = s /\ n.live})
      BY <1>1, <2>2, <3>1 DEF Abandon
    <3>. QED BY <1>7, <2>2, <3>2 DEF IsBallot, IsRequest
  <2>3. CASE m \notin messages /\ m \notin ballots
    <3>1. PICK n \in messages : IsRequest(n) /\ n.live /\ m = [n EXCEPT !.live = FALSE]
      BY <1>1, <2>3 DEF Abandon
    <3>. QED BY <1>7, <2>3, <3>1 DEF IsBallot, IsRequest
  <2>. QED BY <2>1, <2>2, <2>3
<1>8. ASSUME NEW m \in messages', IsVote(m)
      PROVE  m \in messages
  <2>1. m \notin ballots
    BY <1>5, <1>8 DEF IsVote
  <2>2. SUFFICES ASSUME m \notin messages
                 PROVE  FALSE
    OBVIOUS
  <2>3. PICK n \in messages : IsRequest(n) /\ n.live /\ m = [n EXCEPT !.live = FALSE]
    BY <1>1, <2>1, <2>2 DEF Abandon
  <2>. QED BY <1>8, <2>2, <2>3 DEF IsVote, IsRequest
<1>9. \A m \in messages' : IsVote(m) =>
        /\ Cast(m.from, m.to, m.argsTerm)
        /\ m.from \in Server /\ m.to \in Server /\ m.argsTerm \in Nat
  BY <1>8, BallotTypes DEF HonestCount, VotesCast, IsVote
<1>10. \A t \in Server \ {s} : Running(t)' =>
         /\ Running(t) /\ currentTerm'[t] = currentTerm[t] /\ voters'[t] = voters[t]
         /\ \A v \in voters[t] : Cast(v, t, currentTerm[t])
  BY <1>3 DEF ElectionsUnchanged, Running, HonestCount, VotesCast
<1>11. \A t \in Server : ~Cast(s, t, term)
  BY <1>2 DEF Cast, term
<1>12. VotesOnDisk'
  BY <1>1, <1>3, VotesPersisted DEF HonestCount
<1>13. BallotsCurrent'
  <2>. SUFFICES ASSUME NEW m \in messages', NEW t \in Server, NEW d \in Server, IsBallot(m, t, d)
                PROVE  /\ t # d
                       /\ state'[t] = "candidate" =>
                            currentTerm'[t] = IF m.type = "RequestVote" THEN m.term ELSE m.argsTerm
    BY DEF BallotsCurrent, IsBallot
  <2>1. CASE t = s
    BY <1>2, <1>5, <1>7, <2>1 DEF IsBallot
  <2>2. CASE t # s
    BY <1>3, <1>7, <2>2 DEF HonestCount, BallotsCurrent, ElectionsUnchanged
  <2>. QED BY <2>1, <2>2
<1>14. OneBallotEach'
  <2>. SUFFICES ASSUME NEW t \in Server, NEW d \in Server, state'[t] = "candidate"
                PROVE  /\ \A m, n \in messages' : IsBallot(m, t, d) /\ IsBallot(n, t, d) => m = n
                       /\ d \in voters'[t] => \A m \in messages' : ~IsBallot(m, t, d)
    BY DEF OneBallotEach, IsBallot
  <2>1. CASE t = s
    <3>1. \A m \in messages' : IsBallot(m, t, d) => m \in ballots /\ m.to = d /\ d # s
      BY <1>5, <1>7, <2>1 DEF IsBallot
    <3>. QED BY <1>2, <1>6, <2>1, <3>1
  <2>2. CASE t # s
    <3>1. \A m \in messages' : IsBallot(m, t, d) => m \in messages
      BY <1>7, <2>2
    <3>2. state[t] = "candidate" /\ voters'[t] = voters[t]
      BY <1>3, <2>2 DEF ElectionsUnchanged
    <3>. QED BY <3>1, <3>2 DEF HonestCount, OneBallotEach
  <2>. QED BY <2>1, <2>2
<1>15. VotesCast'
  <2>1. ASSUME NEW m \in messages', IsVote(m)
        PROVE  Cast(m.from, m.to, m.argsTerm)'
    BY <1>4, <1>9, <2>1, CastKept
  <2>2. ASSUME NEW t \in Server, Running(t)', NEW v \in voters'[t]
        PROVE  Cast(v, t, currentTerm[t])'
    <3>1. CASE t = s
      BY <1>2, <2>2, <3>1 DEF Cast
    <3>2. CASE t # s
      <4>1. PICK c \in Nat : c = currentTerm[t]
        BY DEF TypeOK
      <4>2. Cast(v, t, c) /\ v \in Server /\ currentTerm'[t] = c
        BY <1>10, <2>2, <3>2, <4>1 DEF TypeOK
      <4>3. Cast(v, t, c)'
        BY <1>4, <4>2, CastKept
      <4>. QED BY <4>2, <4>3 DEF Cast
    <3>. QED BY <3>1, <3>2
  <2>. QED BY <2>1, <2>2 DEF VotesCast, IsVote
<1>16. VotesCounted'
  <2>1. Cardinality({s}) = 1
    BY FS_Singleton
  <2>2. ASSUME NEW t \in Server
        PROVE  /\ Running(t)' => votesGranted'[t] = Cardinality(voters'[t])
               /\ state'[t] = "leader" => Majority(votesGranted'[t])
    BY <1>2, <1>3, <2>1 DEF HonestCount, VotesCounted, Running, ElectionsUnchanged
  <2>. QED BY <2>2 DEF VotesCounted, Majority
<1>17. OneVoteEach'
  <2>1. ASSUME NEW t \in Server, t # s, Running(t)', currentTerm'[t] = term
        PROVE  s \notin voters'[t]
    BY <1>10, <1>11, <2>1
  <2>2. ASSUME NEW a \in Server, NEW b \in Server, Running(a)', Running(b)',
               currentTerm'[a] = currentTerm'[b], a # b
        PROVE  voters'[a] \cap voters'[b] = {}
    <3>1. CASE a # s /\ b # s
      BY <1>10, <2>2, <3>1 DEF HonestCount, OneVoteEach
    <3>2. CASE a = s \/ b = s
      BY <1>2, <2>1, <2>2, <3>2
    <3>. QED BY <3>1, <3>2
  <2>3. ASSUME NEW m \in messages', NEW t \in Server, IsVote(m), Running(t)',
               currentTerm'[t] = m.argsTerm, t # m.to
        PROVE  m.from \notin voters'[t]
    <3>1. CASE t = s
      BY <1>2, <1>9, <1>11, <2>3, <3>1
    <3>2. CASE t # s
      BY <1>8, <1>10, <2>3, <3>2 DEF HonestCount, OneVoteEach
    <3>. QED BY <3>1, <3>2
  <2>4. ASSUME NEW m \in messages', NEW n \in messages', IsVote(m), IsVote(n),
               m.from = n.from, m.argsTerm = n.argsTerm
        PROVE  m.to = n.to
    BY <1>8, <2>4 DEF HonestCount, OneVoteEach
  <2>. QED BY <2>2, <2>3, <2>4 DEF OneVoteEach, IsVote
<1>. QED BY <1>4, <1>12, <1>13, <1>14, <1>15, <1>16, <1>17 DEF HonestCount

LEMMA HandleRequestVoteElection ==
    ASSUME TypeOK, TypeOK', HonestCount, NEW m \in messages, HandleRequestVote(m)
    PROVE  HonestCount' /\ \A v \in Server : Kept(v)
<1>. DEFINE s == m.to
            c == m.from
            vote == IF m.term > currentTerm[s] THEN Nil ELSE votedFor[s]
            grant == m.term >= currentTerm[s] /\ vote \in {Nil, c} /\ UpToDate(s, m)
            reply == [type |-> "RequestVoteReply", from |-> s, to |-> c,
                      argsTerm |-> m.term, term |-> currentTerm[s], voteGranted |-> grant]
<1>1. /\ m.type = "RequestVote" /\ s \in Server /\ c \in Server /\ m.term \in Nat
      /\ currentTerm[s] \in Nat
  BY MessageTypes DEF TypeOK, HandleRequestVote
<1>2. /\ messages' = Answer(m, reply, messages \ {m})
      /\ \/ m.term < currentTerm[s] /\ UNCHANGED <<electionVars, disk, log>>
         \/ /\ m.term >= currentTerm[s]
            /\ currentTerm' = [currentTerm EXCEPT ![s] = m.term]
            /\ votedFor' = [votedFor EXCEPT ![s] = IF grant THEN c ELSE vote]
            /\ state' = [state EXCEPT ![s] = IF m.term > currentTerm[s] THEN "follower" ELSE @]
            /\ UNCHANGED <<votesGranted, voters, log>>
            /\ Persist(s)
  BY DEF HandleRequestVote
<1>3. /\ reply.type = "RequestVoteReply" /\ reply.from = s /\ reply.to = c
      /\ reply.argsTerm = m.term /\ reply.voteGranted = grant
  OBVIOUS
<1>4. \A n \in messages' : n \in messages \ {m} \/ (n = reply /\ m.live)
  BY <1>2 DEF Answer
<1>. HIDE DEF reply
<1>5. \A t \in Server \ {s} : /\ currentTerm'[t] = currentTerm[t] /\ votedFor'[t] = votedFor[t]
                              /\ state'[t] = state[t]
  BY <1>2 DEF electionVars, TypeOK
<1>6. voters' = voters /\ votesGranted' = votesGranted
  BY <1>2 DEF electionVars
<1>7. \A t \in Server : Running(t)' => state'[t] = state[t] /\ currentTerm'[t] = currentTerm[t]
  <2>1. Running(s)' => state'[s] = state[s] /\ currentTerm'[s] = currentTerm[s]
    <3>1. CASE UNCHANGED electionVars
      BY <3>1 DEF electionVars
    <3>2. CASE /\ m.term >= currentTerm[s]
               /\ currentTerm' = [currentTerm EXCEPT ![s] = m.term]
               /\ state' = [state EXCEPT ![s] = IF m.term > currentTerm[s] THEN "follower" ELSE @]
      <4>. HIDE DEF s
      <4>1. /\ currentTerm'[s] = m.term
            /\ state'[s] = IF m.term > currentTerm[s] THEN "follower" ELSE state[s]
        BY <1>1, <3>2 DEF TypeOK
      <4>. QED BY <1>1, <3>2, <4>1 DEF Running
    <3>. QED BY <1>2, <3>1, <3>2
  <2>. QED BY <1>5, <2>1
<1>8. Kept(s) /\ (grant => currentTerm'[s] = m.term /\ votedFor'[s] = c)
  <2>1. CASE m.term < currentTerm[s] /\ UNCHANGED electionVars
    BY <1>1, <2>1 DEF Kept, electionVars
  <2>2. CASE /\ m.term >= currentTerm[s]
             /\ currentTerm' = [currentTerm EXCEPT ![s] = m.term]
             /\ votedFor' = [votedFor EXCEPT ![s] = IF grant THEN c ELSE vote]
    <3>1. currentTerm'[s] = m.term /\ votedFor'[s] = IF grant THEN c ELSE vote
      <4>. HIDE DEF s, grant, vote, c
      <4>. QED BY <1>1, <2>2 DEF TypeOK
    <3>2. m.term = currentTerm[s] => vote = votedFor[s]
      BY <1>1
    <3>. QED BY <1>1, <2>2, <3>1, <3>2 DEF Kept
  <2>. QED BY <1>2, <2>1, <2>2
<1>9. \A v \in Server : Kept(v)
  BY <1>5, <1>8 DEF Kept
<1>10. grant => \A t \in Server : Cast(s, t, m.term) => t = c
  BY <1>1, NilAssumption DEF Cast
<1>. HIDE DEF grant, vote
<1>11. VotesOnDisk'
  <2>1. CASE UNCHANGED <<electionVars, disk>>
    BY <2>1 DEF HonestCount, VotesOnDisk, electionVars
  <2>2. CASE Persist(s)
    <3>1. /\ disk'[s].term = currentTerm'[s] /\ disk'[s].votedFor = votedFor'[s]
          /\ \A t \in Server \ {s} : disk'[t] = disk[t]
      BY <1>1, <2>2 DEF TypeOK, Persist, Disk
    <3>. QED BY <1>5, <3>1 DEF HonestCount, VotesOnDisk
  <2>. QED BY <1>2, <2>1, <2>2
<1>12. ASSUME NEW t \in Server, NEW d \in Server, IsBallot(reply, t, d), m.live
       PROVE  t = c /\ d = s /\ IsBallot(m, t, d)
  BY <1>1, <1>3, <1>12 DEF IsBallot
<1>13. BallotsCurrent'
  <2>. SUFFICES ASSUME NEW n \in messages', NEW t \in Server, NEW d \in Server, IsBallot(n, t, d)
                PROVE  /\ t # d
                       /\ state'[t] = "candidate" =>
                            currentTerm'[t] = IF n.type = "RequestVote" THEN n.term ELSE n.argsTerm
    BY DEF BallotsCurrent, IsBallot
  <2>1. state'[t] = "candidate" => state[t] = "candidate" /\ currentTerm'[t] = currentTerm[t]
    BY <1>7 DEF Running
  <2>2. CASE n \in messages
    BY <2>1, <2>2 DEF HonestCount, BallotsCurrent
  <2>3. CASE n = reply /\ m.live
    <3>1. IsBallot(m, t, d)
      BY <1>12, <2>3
    <3>2. t # d /\ (state[t] = "candidate" => currentTerm[t] = m.term)
      BY <1>1, <3>1 DEF HonestCount, BallotsCurrent
    <3>. QED BY <1>3, <2>1, <2>3, <3>2
  <2>. QED BY <1>4, <2>2, <2>3
<1>14. OneBallotEach'
  <2>. SUFFICES ASSUME NEW t \in Server, NEW d \in Server, state'[t] = "candidate"
                PROVE  /\ \A n, o \in messages' : IsBallot(n, t, d) /\ IsBallot(o, t, d) => n = o
                       /\ d \in voters'[t] => \A n \in messages' : ~IsBallot(n, t, d)
    BY DEF OneBallotEach, IsBallot
  <2>1. /\ \A n, o \in messages : IsBallot(n, t, d) /\ IsBallot(o, t, d) => n = o
        /\ d \in voters[t] => \A n \in messages : ~IsBallot(n, t, d)
    BY <1>7 DEF Running, HonestCount, OneBallotEach
  <2>2. CASE m.live /\ IsBallot(reply, t, d)
    <3>1. IsBallot(m, t, d)
      BY <1>12, <2>2
    <3>. QED BY <1>4, <1>6, <2>1, <3>1
  <2>3. CASE ~(m.live /\ IsBallot(reply, t, d))
    BY <1>4, <1>6, <2>1, <2>3
  <2>. QED BY <2>2, <2>3
<1>15. \A n \in messages' : IsVote(n) =>
         \/ n \in messages
         \/ /\ grant /\ n.from = s /\ n.to = c /\ n.argsTerm = m.term
  BY <1>3, <1>4 DEF IsVote
<1>16. VotesCast'
  <2>1. ASSUME NEW n \in messages', IsVote(n)
        PROVE  Cast(n.from, n.to, n.argsTerm)'
    <3>1. CASE n \in messages
      <4>1. Cast(n.from, n.to, n.argsTerm)
        BY <2>1, <3>1 DEF HonestCount, VotesCast
      <4>2. n.from \in Server /\ n.to \in Server /\ n.argsTerm \in Nat
        BY <2>1, <3>1, BallotTypes DEF IsVote
      <4>. QED BY <1>9, <4>1, <4>2, CastKept
    <3>2. CASE grant /\ n.from = s /\ n.to = c /\ n.argsTerm = m.term
      BY <1>8, <3>2 DEF Cast
    <3>. QED BY <1>15, <2>1, <3>1, <3>2
  <2>2. ASSUME NEW t \in Server, Running(t)', NEW v \in voters'[t]
        PROVE  Cast(v, t, currentTerm[t])'
    <3>1. PICK e \in Nat : e = currentTerm[t]
      BY DEF TypeOK
    <3>2. Running(t) /\ currentTerm'[t] = e /\ v \in voters[t] /\ v \in Server
      BY <1>6, <1>7, <2>2, <3>1 DEF Running, TypeOK
    <3>3. Cast(v, t, e)
      BY <3>1, <3>2 DEF HonestCount, VotesCast
    <3>4. Cast(v, t, e)'
      BY <1>9, <3>2, <3>3, CastKept
    <3>. QED BY <3>2, <3>4 DEF Cast
  <2>. QED BY <2>1, <2>2 DEF VotesCast, IsVote
<1>17. VotesCounted'
  BY <1>6, <1>7 DEF HonestCount, VotesCounted, Running, Majority
<1>18. OneVoteEach'
  <2>1. \A a, b \in Server :
          Running(a)' /\ Running(b)' /\ currentTerm'[a] = currentTerm'[b] /\ a # b =>
              voters'[a] \cap voters'[b] = {}
    BY <1>6, <1>7 DEF HonestCount, OneVoteEach, Running
  <2>2. ASSUME NEW n \in messages', NEW t \in Server, IsVote(n), Running(t)',
               currentTerm'[t] = n.argsTerm, t # n.to
        PROVE  n.from \notin voters'[t]
    <3>1. Running(t) /\ currentTerm[t] = n.argsTerm /\ voters'[t] = voters[t]
      BY <1>6, <1>7, <2>2 DEF Running
    <3>2. CASE n \in messages
      BY <2>2, <3>1, <3>2 DEF HonestCount, OneVoteEach
    <3>3. CASE grant /\ n.from = s /\ n.to = c /\ n.argsTerm = m.term
      <4>1. s \in voters[t] => Cast(s, t, m.term)
        BY <3>1, <3>3 DEF HonestCount, VotesCast
      <4>. QED BY <1>10, <2>2, <3>1, <3>3, <4>1
    <3>. QED BY <1>15, <2>2, <3>2, <3>3
  <2>3. ASSUME NEW n \in messages', NEW o \in messages', IsVote(n), IsVote(o),
               n.from = o.from, n.argsTerm = o.argsTerm
        PROVE  n.to = o.to
    <3>1. ASSUME NEW x \in messages, IsVote(x), grant, x.from = s, x.argsTerm = m.term
          PROVE  x.to = c
      <4>1. Cast(s, x.to, m.term) /\ x.to \in Server
        BY <3>1, BallotTypes DEF HonestCount, VotesCast
      <4>. QED BY <1>10, <3>1, <4>1
    <3>2. CASE n \in messages /\ o \in messages
      BY <2>3, <3>2 DEF HonestCount, OneVoteEach
    <3>. QED BY <1>15, <2>3, <3>1, <3>2
  <2>. QED BY <2>1, <2>2, <2>3 DEF OneVoteEach, IsVote, Running
<1>. QED BY <1>9, <1>11, <1>13, <1>14, <1>16, <1>17, <1>18 DEF HonestCount

LEMMA HandleVoteReplyElection ==
    ASSUME TypeOK, TypeOK', HonestCount, NEW m \in messages, HandleVoteReply(m)
    PROVE  HonestCount' /\ \A v \in Server : Kept(v)
<1>. DEFINE s == m.to
            d == m.from
<1>1. /\ m.type = "RequestVoteReply" /\ s \in Server /\ d \in Server /\ m.term \in Nat
      /\ m.argsTerm \in Nat /\ currentTerm[s] \in Nat /\ state[s] = "candidate"
      /\ messages' = messages \ {m}
  BY MessageTypes, BallotTypes DEF TypeOK, HandleVoteReply
<1>2. CASE m.term > currentTerm[s] /\ StepDown(s, m.term) /\ Persist(s)
  <2>1. /\ \A t \in Server \ {s} : ElectionsUnchanged(t)
        /\ Kept(s) /\ state'[s] = "follower"
    BY <1>1, <1>2, StepDownCalm
  <2>2. VotesOnDisk'
    BY <1>1, <1>2, <2>1, VotesPersisted DEF HonestCount
  <2>3. NoNewBallot
    BY <1>1 DEF NoNewBallot
  <2>. QED BY <1>1, <2>1, <2>2, <2>3, CalmStep DEF Calm
<1>3. CASE /\ m.voteGranted
           /\ votesGranted' = [votesGranted EXCEPT ![s] = @ + 1]
           /\ voters' = [voters EXCEPT ![s] = @ \cup {d}]
           /\ UNCHANGED <<currentTerm, votedFor, state, disk>>
  <2>. HIDE DEF s, d
  <2>1. \A v \in Server : Kept(v)
    BY <1>3 DEF Kept
  <2>2. /\ voters'[s] = voters[s] \cup {d} /\ votesGranted'[s] = votesGranted[s] + 1
        /\ \A t \in Server \ {s} : voters'[t] = voters[t] /\ votesGranted'[t] = votesGranted[t]
        /\ voters[s] \subseteq Server /\ votesGranted[s] \in Nat
    BY <1>1, <1>3 DEF TypeOK
  <2>3. \A t \in Server : Running(t)' <=> Running(t)
    BY <1>3 DEF Running
  <2>4. IsBallot(m, s, d) /\ IsVote(m) /\ Running(s)
    BY <1>1, <1>3 DEF IsBallot, IsVote, Running, s, d
  <2>5. currentTerm[s] = m.argsTerm /\ d \notin voters[s]
    BY <1>1, <2>4 DEF HonestCount, BallotsCurrent, OneBallotEach
  <2>6. VotesOnDisk'
    BY <1>3 DEF HonestCount, VotesOnDisk
  <2>7. BallotsCurrent'
    BY <1>1, <1>3 DEF HonestCount, BallotsCurrent, IsBallot
  <2>8. OneBallotEach'
    <3>. SUFFICES ASSUME NEW t \in Server, NEW e \in Server, state'[t] = "candidate"
                  PROVE  /\ \A n, o \in messages' : IsBallot(n, t, e) /\ IsBallot(o, t, e) => n = o
                         /\ e \in voters'[t] => \A n \in messages' : ~IsBallot(n, t, e)
      BY DEF OneBallotEach, IsBallot
    <3>1. /\ \A n, o \in messages : IsBallot(n, t, e) /\ IsBallot(o, t, e) => n = o
          /\ e \in voters[t] => \A n \in messages : ~IsBallot(n, t, e)
      BY <1>3 DEF HonestCount, OneBallotEach
    <3>2. CASE t = s /\ e = d
      BY <1>1, <2>4, <3>1, <3>2
    <3>3. CASE ~(t = s /\ e = d)
      <4>1. e \in voters'[t] => e \in voters[t]
        BY <2>2, <3>3
      <4>. QED BY <1>1, <3>1, <4>1
    <3>. QED BY <3>2, <3>3
  <2>9. VotesCast'
    <3>1. \A n \in messages' : IsVote(n) => Cast(n.from, n.to, n.argsTerm)'
      BY <1>1, <1>3 DEF HonestCount, VotesCast, Cast
    <3>2. ASSUME NEW t \in Server, Running(t)', NEW v \in voters'[t]
          PROVE  Cast(v, t, currentTerm[t])'
      <4>1. v \in voters[t] \/ (t = s /\ v = d)
        BY <2>2, <3>2
      <4>2. CASE v \in voters[t]
        BY <1>3, <2>3, <3>2, <4>2 DEF HonestCount, VotesCast, Cast
      <4>3. CASE t = s /\ v = d
        <5>1. Cast(d, s, m.argsTerm)
          BY <2>4 DEF HonestCount, VotesCast, s, d
        <5>. QED BY <1>3, <2>5, <4>3, <5>1 DEF Cast
      <4>. QED BY <4>1, <4>2, <4>3
    <3>. QED BY <3>1, <3>2 DEF VotesCast, IsVote
  <2>10. VotesCounted'
    <3>1. IsFiniteSet(voters[s])
      BY <2>2, FS_Subset, ServerAssumption
    <3>2. Cardinality(voters[s] \cup {d}) = Cardinality(voters[s]) + 1
      BY <2>5, <3>1, FS_AddElement
    <3>3. votesGranted'[s] = Cardinality(voters'[s])
      BY <1>1, <2>2, <2>4, <3>2 DEF HonestCount, VotesCounted
    <3>4. ASSUME NEW t \in Server
          PROVE  /\ Running(t)' => votesGranted'[t] = Cardinality(voters'[t])
                 /\ state'[t] = "leader" => Majority(votesGranted'[t])
      <4>1. CASE t = s
        BY <1>1, <1>3, <3>3, <4>1
      <4>2. CASE t # s
        BY <1>3, <2>2, <2>3, <4>2 DEF HonestCount, VotesCounted
      <4>. QED BY <4>1, <4>2
    <3>. QED BY <3>4 DEF VotesCounted, Majority
  <2>11. OneVoteEach'
    <3>1. \A t \in Server : Running(t) /\ currentTerm[t] = currentTerm[s] /\ t # s =>
            d \notin voters[t] /\ voters[s] \cap voters[t] = {}
      BY <1>1, <2>4, <2>5 DEF HonestCount, OneVoteEach, s, d
    <3>2. \A n \in messages : IsVote(n) /\ n.argsTerm = currentTerm[s] /\ n.to # s =>
            n.from # d /\ n.from \notin voters[s]
      BY <1>1, <2>4, <2>5 DEF HonestCount, OneVoteEach, s, d
    <3>3. \A a, b \in Server :
            Running(a)' /\ Running(b)' /\ currentTerm'[a] = currentTerm'[b] /\ a # b =>
                voters'[a] \cap voters'[b] = {}
      <4>. SUFFICES ASSUME NEW a \in Server, NEW b \in Server, Running(a), Running(b),
                           currentTerm[a] = currentTerm[b], a # b
                    PROVE  voters'[a] \cap voters'[b] = {}
        BY <1>3, <2>3
      <4>1. CASE a # s /\ b # s
        BY <2>2, <4>1 DEF HonestCount, OneVoteEach
      <4>2. CASE a = s \/ b = s
        BY <2>2, <3>1, <4>2
      <4>. QED BY <4>1, <4>2
    <3>4. \A n \in messages', t \in Server :
            IsVote(n) /\ Running(t)' /\ currentTerm'[t] = n.argsTerm /\ t # n.to =>
                n.from \notin voters'[t]
      <4>. SUFFICES ASSUME NEW n \in messages, NEW t \in Server, IsVote(n), Running(t),
                           currentTerm[t] = n.argsTerm, t # n.to
                    PROVE  n.from \notin voters'[t]
        BY <1>1, <1>3, <2>3
      <4>1. CASE t = s
        BY <2>2, <3>2, <4>1
      <4>2. CASE t # s
        BY <2>2, <4>2 DEF HonestCount, OneVoteEach
      <4>. QED BY <4>1, <4>2
    <3>5. \A n, o \in messages' :
            IsVote(n) /\ IsVote(o) /\ n.from = o.from /\ n.argsTerm = o.argsTerm => n.to = o.to
      BY <1>1 DEF HonestCount, OneVoteEach
    <3>. QED BY <3>3, <3>4, <3>5 DEF OneVoteEach, IsVote
  <2>. QED BY <2>1, <2>6, <2>7, <2>8, <2>9, <2>10, <2>11 DEF HonestCount
<1>. QED BY <1>2, <1>3 DEF HandleVoteReply

-----------------------------------------------------------------------------
(* The theorems.                                                           *)

(* The two faults these theorems leave out.                                *)
NoElectionFault ==
    /\ "late_reply" \notin Races
    /\ "snapshot" \notin Races
    /\ SnapshotInterval = 0

LEMMA InitElection ==
    ASSUME Init
    PROVE  HonestCount
<1>1. messages = {} /\ \A s \in Server : ~Running(s) /\ state[s] = "follower"
  BY DEF Init, Running
<1>2. VotesOnDisk
  BY DEF Init, VotesOnDisk
<1>3. BallotsCurrent /\ OneBallotEach
  BY <1>1 DEF BallotsCurrent, OneBallotEach
<1>4. VotesCast /\ VotesCounted /\ OneVoteEach
  BY <1>1 DEF VotesCast, VotesCounted, OneVoteEach
<1>. QED BY <1>2, <1>3, <1>4 DEF HonestCount

LEMMA StutterElection ==
    ASSUME TypeOK, HonestCount, UNCHANGED vars
    PROVE  HonestCount' /\ Calm
<1>1. UNCHANGED <<currentTerm, votedFor, votesGranted, state, voters, disk, messages>>
  BY DEF vars, electionVars
<1>2. TypeOK'
  BY DEF TypeOK, vars, electionVars, logVars, applyVars, leaderVars, boundVars
<1>3. \A t \in Server : ElectionsUnchanged(t)
  BY <1>1 DEF ElectionsUnchanged
<1>4. VotesOnDisk' /\ NoNewBallot
  BY <1>1 DEF HonestCount, VotesOnDisk, NoNewBallot
<1>. QED BY <1>2, <1>3, <1>4, ServerAssumption, CalmStep

LEMMA NextElection ==
    ASSUME NoElectionFault, TypeInv, HonestCount, [Next]_vars
    PROVE  HonestCount' /\ \A v \in Server : Kept(v)
<1>1. TypeOK /\ TypeOK'
  BY NextType DEF NoElectionFault, TypeInv
<1>2. CASE UNCHANGED vars
  BY <1>1, <1>2, StutterElection DEF Calm
<1>3. ASSUME NEW s \in Server,
             \/ StartElection(s) \/ BecomeLeader(s) \/ \E c \in Command : Start(s, c)
             \/ BroadcastAppendEntries(s) \/ ResumeAppendEntries(s) \/ Crash(s)
      PROVE  HonestCount' /\ \A v \in Server : Kept(v)
  BY <1>1, <1>3, StartElectionElection, BecomeLeaderElection, StartElectionless,
     BroadcastElectionless, ResumeElectionless, CrashElectionless DEF NoElectionFault, Calm
<1>4. ASSUME NEW s \in Server
      PROVE  ~TakeSnapshot(s)
  BY DEF TakeSnapshot, NoElectionFault
<1>5. ASSUME NEW m \in messages,
             \/ HandleRequestVote(m) \/ HandleVoteReply(m) \/ AppendEntries(m)
             \/ HandleAppendReply(m) \/ HandleInstallSnapshot(m) \/ HandleInstallReply(m)
             \/ CrashInInstallSnapshot(m)
      PROVE  HonestCount' /\ \A v \in Server : Kept(v)
  BY <1>1, <1>5, HandleRequestVoteElection, HandleVoteReplyElection, AppendEntriesElectionless,
     HandleAppendReplyElectionless, HandleInstallSnapshotElectionless,
     HandleInstallReplyElectionless, CrashInInstallElectionless DEF Calm
<1>. QED BY <1>2, <1>3, <1>4, <1>5 DEF Next

(* Two majorities share a voter, and a voter counts for one candidate.     *)
LEMMA OneLeader ==
    ASSUME TypeOK, HonestCount
    PROVE  ElectionSafety
<1>. SUFFICES ASSUME NEW s \in Server, NEW t \in Server, state[s] = "leader",
                     state[t] = "leader", currentTerm[s] = currentTerm[t], s # t
              PROVE  FALSE
  BY DEF ElectionSafety
<1>1. /\ votesGranted[s] = Cardinality(voters[s]) /\ Majority(votesGranted[s])
      /\ votesGranted[t] = Cardinality(voters[t]) /\ Majority(votesGranted[t])
  BY DEF HonestCount, VotesCounted, Running
<1>2. Cardinality(Server) \in Nat /\ votesGranted[s] \in Nat /\ votesGranted[t] \in Nat
  BY ServerAssumption, FS_CardinalityType DEF TypeOK
<1>3. Cardinality(voters[s]) + Cardinality(voters[t]) > Cardinality(Server)
  BY <1>1, <1>2 DEF Majority
<1>4. voters[s] \subseteq Server /\ voters[t] \subseteq Server
  BY DEF TypeOK
<1>5. voters[s] \cap voters[t] # {}
  BY <1>3, <1>4, ServerAssumption, FS_MajoritiesIntersect
<1>. QED BY <1>5 DEF HonestCount, OneVoteEach, Running

(* The votes counted are the votes cast, each once and for one candidate.  *)
THEOREM VotesHonest ==
    ASSUME NoElectionFault
    PROVE  Spec => []HonestCount
<1>1. Init => TypeInv /\ HonestCount
  BY InitType, InitElection
<1>2. TypeInv /\ HonestCount /\ [Next]_vars => (TypeInv /\ HonestCount)'
  BY NextType, NextElection DEF NoElectionFault
<1>. QED BY <1>1, <1>2, PTL DEF Spec

(* At most one leader in a term (checkOneLeader), whatever the messages    *)
(* and crashes do.                                                         *)
THEOREM AtMostOneLeader ==
    ASSUME NoElectionFault
    PROVE  Spec => []ElectionSafety
<1>1. Spec => []TypeOK
  <2>1. Spec => [](TypeOK /\ InBounds)
    BY TypeCorrect DEF NoElectionFault
  <2>. QED BY <2>1, PTL
<1>2. Spec => []HonestCount
  BY VotesHonest
<1>3. TypeOK /\ HonestCount => ElectionSafety
  BY OneLeader
<1>. QED BY <1>1, <1>2, <1>3, PTL

(* A vote is never taken back in its term, not by a restart either.        *)
THEOREM VotesOnce ==
    ASSUME NoElectionFault
    PROVE  Spec => VoteOnce
<1>1. Init => TypeInv /\ HonestCount
  BY InitType, InitElection
<1>2. TypeInv /\ HonestCount /\ [Next]_vars => (TypeInv /\ HonestCount)'
  BY NextType, NextElection DEF NoElectionFault
<1>3. TypeInv /\ HonestCount /\ [Next]_vars =>
        [\A s \in Server : currentTerm'[s] = currentTerm[s] /\ votedFor[s] # Nil
                             => votedFor'[s] = votedFor[s]]_vars
  <2>. SUFFICES ASSUME TypeInv, HonestCount, [Next]_vars, NEW s \in Server,
                       currentTerm'[s] = currentTerm[s], votedFor[s] # Nil
                PROVE  votedFor'[s] = votedFor[s]
    OBVIOUS
  <2>1. Kept(s)
    BY NextElection
  <2>2. currentTerm[s] \in Nat
    BY DEF TypeInv, TypeOK
  <2>. QED BY <2>1, <2>2 DEF Kept
<1>. QED BY <1>1, <1>2, <1>3, PTL DEF Spec, VoteOnce

(* Terms never go back, not in a restart either.                           *)
THEOREM TermsGrow ==
    ASSUME NoElectionFault
    PROVE  Spec => TermMonotonic
<1>1. Init => TypeInv /\ HonestCount
  BY InitType, InitElection
<1>2. TypeInv /\ HonestCount /\ [Next]_vars => (TypeInv /\ HonestCount)'
  BY NextType, NextElection DEF NoElectionFault
<1>3. TypeInv /\ HonestCount /\ [Next]_vars =>
        [\A s \in Server : currentTerm'[s] >= currentTerm[s]]_vars
  <2>. SUFFICES ASSUME TypeInv, HonestCount, [Next]_vars, NEW s \in Server
                PROVE  currentTerm'[s] >= currentTerm[s]
    OBVIOUS
  <2>1. Kept(s)
    BY NextElection
  <2>2. currentTerm[s] \in Nat /\ currentTerm'[s] \in Nat
    BY NextType DEF TypeInv, TypeOK, NoElectionFault
  <2>. QED BY <2>1, <2>2 DEF Kept
<1>. QED BY <1>1, <1>2, <1>3, PTL DEF Spec, TermMonotonic

=============================================================================
