---------------------------- MODULE MCRaftLiveness ----------------------------
(* The start states of MCRaft, led for good.                                   *)
EXTENDS MCRaft, RaftLiveness

(* Diverged, later: s1 was given a third command, and s2 has heard of term 3    *)
(* and refused its vote.  The three logs differ, s1 has an entry of its own     *)
(* term, and no election is left in MaxTerm.                                    *)
Heard ==
    StartFrom(Everywhere(3), [s \in Server |-> IF s = s2 THEN Nil ELSE s1],
              [s \in Server |->
                 CASE s = s1 -> <<[term |-> 1, command |-> a], [term |-> 3, command |-> c]>>
                   [] s = s2 -> <<[term |-> 2, command |-> b]>>
                   [] OTHER  -> <<>>],
              Everywhere(NoSnapshot), s1)
LedHeard == Heard /\ [][Next]_vars /\ Leads(s1)

(* The log of s3 ends before the snapshot of s1.                               *)
LedCompacted == Compacted /\ [][Next]_vars /\ Leads(s1)

(* s1 brings all logs and state machines to its own.                           *)
LeaderConverges == Converges(s1)

(* No server stays behind the snapshot of s1.                                  *)
FollowersCatchUp == CatchesUp(s1)

===============================================================================
