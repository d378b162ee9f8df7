----------------------------- MODULE ReplicatedLog -----------------------------
(***************************************************************************)
(* What a group of Raft instances promises to the state machines above     *)
(* them: there is one sequence of commands, what each server has executed  *)
(* is a prefix of it, and a command is in it at most once, at the index    *)
(* start() returned for it, if it is there at all.                         *)
(***************************************************************************)
EXTENDS Naturals, Sequences

CONSTANT Server

VARIABLES
    proposed,       \* what start() accepted: records of an index and an entry
    chosen,         \* the longest sequence that some server has executed
    executed        \* what each server has executed

logVars == <<proposed, chosen, executed>>

LogInit ==
    /\ proposed = {}
    /\ chosen = <<>>
    /\ executed = [s \in Server |-> <<>>]

ProposedAt(i) == {p \in proposed : p.index = i}

Prefix(q, r) == Len(q) <= Len(r) /\ q = SubSeq(r, 1, Len(q))

(* start(e) at s returned index i: past all that s has executed, and next  *)
(* to an entry start() accepted before.                                    *)
Propose(s, i, e) ==
    /\ i > Len(executed[s])
    /\ i = 1 \/ ProposedAt(i - 1) # {}
    /\ \A p \in proposed : p.entry # e
    /\ proposed' = proposed \cup {[index |-> i, entry |-> e]}
    /\ UNCHANGED <<chosen, executed>>

(* s executes more entries, up to having executed q: those that others     *)
(* have executed at their index, then any that were proposed for theirs.   *)
Execute(s, q) ==
    /\ Len(q) > Len(executed[s])
    /\ Prefix(q, chosen) \/ Prefix(chosen, q)
    /\ \A i \in Len(chosen) + 1 .. Len(q) : \E p \in ProposedAt(i) : q[i] = p.entry
    /\ chosen' = IF Len(q) > Len(chosen) THEN q ELSE chosen
    /\ executed' = [executed EXCEPT ![s] = q]
    /\ UNCHANGED proposed

(* s has lost its state machine and goes back to having executed q.        *)
Restart(s, q) ==
    /\ Prefix(q, executed[s])
    /\ executed' = [executed EXCEPT ![s] = q]
    /\ UNCHANGED <<proposed, chosen>>

LogNext ==
    \E s \in Server :
        \/ \E p \in proposed' : Propose(s, p.index, p.entry)
        \/ Execute(s, executed'[s])
        \/ Restart(s, executed'[s])

LogSpec == LogInit /\ [][LogNext]_logVars

=============================================================================
