------------------------------ MODULE MCRaftLog ------------------------------
(* The small instances of MCRaft, with the record of RaftLog.                 *)
EXTENDS MCRaft, RaftLog, RaftLogInvariant

LOCAL INSTANCE Functions

RecordedView == <<View, proposed, chosen>>

(* The record a start state has: its commands, and the longest snapshot.      *)
StartRecord ==
    /\ proposed = UNION {{[index |-> i, entry |-> applied[s][i]] : i \in 1 .. Len(applied[s])}
                         \cup {[index |-> lastIncludedIndex[s] + i, entry |-> log[s][i].command] :
                                  i \in 1 .. Len(log[s])} : s \in Server}
    /\ chosen = CHOOSE q \in Range(applied) : \A p \in Range(applied) : Len(p) <= Len(q)

ElectedRecord   == Elected /\ StartRecord
DivergedRecord  == Diverged /\ StartRecord
CompactedRecord == Compacted /\ StartRecord

RecordedElected   == ElectedRecord /\ [][RecordedNext]_recordedVars
RecordedDiverged  == DivergedRecord /\ [][RecordedNext]_recordedVars
RecordedCompacted == CompactedRecord /\ [][RecordedNext]_recordedVars

=============================================================================
