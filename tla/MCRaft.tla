-------------------------------- MODULE MCRaft --------------------------------
(* Small instances of Raft for TLC.                                           *)
EXTENDS RaftProperties, TLC

LOCAL INSTANCE Functions

CONSTANTS
    s1, s2, s3, a, b, c,    \* servers and commands
    MaxInFlight             \* bound, where a run has the constraint FewInFlight

(* Servers that the initial state does not tell apart, and commands, are      *)
(* interchangeable.                                                           *)
Symmetry        == Permutations(Server) \cup Permutations(Command)
SymmetryElected == Permutations(Server \ {s1}) \cup Permutations(Command)

(* A view that forgets what can no longer matter in messages, when no race is *)
(* included: a request whose sender has left its term is one whose reply is   *)
(* ignored; such a request is ignored itself once its receiver is past its    *)
(* term; a reply counts only for a sender still in the term and state of the  *)
(* call; and of a reply.term only matters whether it is higher than the       *)
(* caller's.                                                                  *)
Awaited(m) == m.live /\ currentTerm[m.from] = m.term
Essence(m) ==
    CASE IsRequest(m)                     -> [m EXCEPT !.live = Awaited(m)]
      [] m.type = "RequestVoteReply"      -> [m EXCEPT !.term = IF m.voteGranted THEN 0 ELSE @]
      [] m.type = "AppendEntriesReply"    -> [m EXCEPT !.term = IF @ > m.argsTerm THEN @ ELSE 0]
      [] m.type = "InstallSnapshotReply"  -> m
Matters(m) ==
    CASE IsRequest(m)                     -> Awaited(m) \/ m.term >= currentTerm[m.to]
      [] m.type = "RequestVoteReply"      -> /\ state[m.to] = "candidate"
                                             /\ m.voteGranted \/ m.term > currentTerm[m.to]
      [] m.type = "AppendEntriesReply"    -> m.argsTerm = currentTerm[m.to]
      [] m.type = "InstallSnapshotReply"  -> state[m.to] = "leader"
View == <<electionVars, logVars, applyVars, leaderVars, boundVars, disk, handler,
          {Essence(m) : m \in {n \in messages : Matters(n)}}>>

(* A bound for the deepest runs: how many messages that matter are in flight. *)
FewInFlight == Cardinality({m \in messages : Matters(m)}) <= MaxInFlight

-----------------------------------------------------------------------------

(* A state a few steps into a run, from which deeper ones are in reach: the   *)
(* terms, the votes given, the logs, the snapshots (executed, and nothing     *)
(* beyond them), one leader, no request outstanding.                          *)
StartFrom(terms, votes, logs, snapshots, leader) ==
    /\ currentTerm = terms
    /\ votedFor = votes
    /\ log = logs
    /\ state = [s \in Server |-> IF s = leader THEN "leader" ELSE "follower"]
    /\ voters = [s \in Server |-> IF s = leader
                               THEN {d \in Server : votes[d] = s /\ terms[d] = terms[s]} ELSE {}]
    /\ votesGranted = [s \in Server |-> Cardinality(voters[s])]
    /\ lastIncludedIndex = [s \in Server |-> snapshots[s].index]
    /\ lastIncludedTerm = [s \in Server |-> snapshots[s].term]
    /\ commitIndex = [s \in Server |-> snapshots[s].index]
    /\ lastApplied = [s \in Server |-> snapshots[s].index]
    /\ applied = [s \in Server |-> snapshots[s].commands]
    /\ nextIndex = [s \in Server |-> [d \in Server |-> IF s = leader THEN LastLogIndex(s) + 1 ELSE 0]]
    /\ matchIndex = [s \in Server |-> [d \in Server |-> 0]]
    /\ disk = [s \in Server |-> [term |-> terms[s], votedFor |-> votes[s], log |-> logs[s],
                                 snapshot |-> snapshots[s]]]
    /\ handler = [s \in Server |-> Nil]
    /\ messages = {}
    /\ requests = UNION {{e.command : e \in Range(logs[s])} \cup Range(snapshots[s].commands) : s \in Server}
    /\ crashes = 0

Everywhere(x) == [s \in Server |-> x]

(* s1 asked for the votes of term 1 and got them.                             *)
Elected == StartFrom(Everywhere(1), Everywhere(s1), Everywhere(<<>>), Everywhere(NoSnapshot), s1)
SpecElected == Elected /\ [][Next]_vars

(* s1 led term 1 and kept a command to itself; s2 led term 2 and did the same *)
(* with another; s1 is elected again, for term 3, with the vote of s3.        *)
Diverged ==
    StartFrom([s \in Server |-> IF s = s2 THEN 2 ELSE 3],
              [s \in Server |-> IF s = s2 THEN s2 ELSE s1],
              [s \in Server |-> CASE s = s1 -> <<[term |-> 1, command |-> a]>>
                                  [] s = s2 -> <<[term |-> 2, command |-> b]>>
                                  [] OTHER  -> <<>>],
              Everywhere(NoSnapshot), s1)
SpecDiverged == Diverged /\ [][Next]_vars

(* s1 and s2 committed a command in term 1, without s3, and compacted it; s1  *)
(* is elected again, for term 2, with the vote of s2.                         *)
Compacted ==
    StartFrom([s \in Server |-> IF s = s3 THEN 1 ELSE 2], Everywhere(s1), Everywhere(<<>>),
              [s \in Server |-> IF s = s3 THEN NoSnapshot
                                ELSE [index |-> 1, term |-> 1, commands |-> <<a>>]], s1)

=============================================================================
