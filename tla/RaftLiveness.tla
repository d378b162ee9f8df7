----------------------------- MODULE RaftLiveness -----------------------------
(* What a leader must eventually bring about, and the fairness it takes.       *)
(* Fairness is strong because a message of Raft.tla stands for copies without  *)
(* number: between two steps that matter, late copies may come in for ever.    *)
(* What the fairness says of them is that they do not stand in the way of what *)
(* the leader sends now.                                                       *)
EXTENDS RaftProperties

(* What broadcastAppendEntries sends d as things are now.                      *)
CurrentCall(s, d) ==
    IF nextIndex[s][d] <= lastIncludedIndex[s] THEN InstallArgs(s, d) ELSE AppendArgs(s, d)

(* A server runs the handler of the call the leader makes now ...              *)
Serve(s, d) ==
    LET call == CurrentCall(s, d)
    IN  call \in messages /\ (AppendEntries(call) \/ HandleInstallSnapshot(call))

(* ... and the leader the callback of an answer that still is the right one.   *)
CurrentAnswer(m) ==
    LET call == CurrentCall(m.to, m.from)
    IN  /\ call.type = "AppendEntries"
        /\ m.match = call.preLogIndex + Len(call.entries)
        /\ m.success = Consistent(m.from, call)

Return(s, d) ==
    \E m \in messages :
        /\ m.from = d /\ m.to = s
        /\ HandleInstallReply(m) \/ (HandleAppendReply(m) /\ CurrentAnswer(m))

(* startRaft broadcasts every heartbeat for as long as s leads, the network    *)
(* loses only some of the calls, and handlers and callbacks end.  Nothing is   *)
(* asked of elections, of clients, of snapshots or of the messages of others.  *)
Leads(s) ==
    /\ SF_vars(BroadcastAppendEntries(s))
    /\ \A d \in Server \ {s} : SF_vars(Serve(s, d)) /\ SF_vars(Return(s, d))

(* A server that leads for good makes every log its own, whatever the logs     *)
(* hold and whatever restarts or late messages do to nextIndex meanwhile; and  *)
(* if it appended anything in its term, every state machine executes it all.   *)
(* (raft.cpp:380: each failed call must bring nextIndex to where the logs      *)
(* meet; :542: what a majority holds must be committed.)                       *)
Converges(s) ==
    <>[](state[s] = "leader") =>
        <>[](\A d \in Server :
               /\ log[d] = log[s]
               /\ LastLogTerm(s) = currentTerm[s] => Len(applied[d]) = LastLogIndex(s))

(* "we should be able to trigger install snapshot after reply fails"           *)
(* (raft.cpp:394): no server stays behind the snapshot of a leader for good.   *)
CatchesUp(s) ==
    <>[](state[s] = "leader") =>
        <>[](\A d \in Server : Len(applied[d]) >= lastIncludedIndex[s])

===============================================================================
