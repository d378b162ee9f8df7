-------------------------------- MODULE RaftLog --------------------------------
(* Raft with a record of what it promised its clients, and the proof           *)
(* obligation that it is the ReplicatedLog the key/value service runs on.     *)
EXTENDS RaftProperties

VARIABLES
    proposed,       \* history: what start() accepted, and the index it returned
    chosen          \* history: the longest sequence a state machine has executed

(* start() returns the index of the entry it appends.                         *)
Returned == {[index |-> lastIncludedIndex[s] + Len(log'[s]), entry |-> c] :
                s \in {t \in Server : log'[t] # log[t]}, c \in requests' \ requests}

LongerExecuted == {applied'[s] : s \in {t \in Server : Len(applied'[t]) > Len(chosen)}}

(* Every step of Raft, with its record.                                       *)
RecordedNext ==
    /\ Next
    /\ proposed' = proposed \cup Returned
    /\ chosen' = IF LongerExecuted = {} THEN chosen ELSE CHOOSE q \in LongerExecuted : TRUE

recordedVars == <<vars, proposed, chosen>>

RecordedSpec == Init /\ proposed = {} /\ chosen = <<>> /\ [][RecordedNext]_recordedVars

(* Raft is a replicated log: what start() accepts is executed at the index it *)
(* returned or nowhere; no index is executed with two different commands, by  *)
(* whatever servers, leaders or terms, before or after a crash or a snapshot; *)
(* a state machine goes back only to start again.                             *)
Log == INSTANCE ReplicatedLog WITH executed <- applied
ImplementsLog == Log!LogSpec

(* The same of the steps of a run that does not start from an empty log.      *)
StepsImplementLog == [][Log!LogNext]_(Log!logVars)

=============================================================================
