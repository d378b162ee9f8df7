--------------------------- MODULE RaftLogInvariant ---------------------------
(***************************************************************************)
(* Why the logs of Raft agree: the inductive invariant LogInv from which   *)
(* the log properties of RaftProperties follow, for a service that takes   *)
(* no snapshots and calls that no timer interrupts.  It speaks of the      *)
(* state alone.  What the usual argument remembers in history variables    *)
(* is read off the votes, the acknowledgements and the AppendEntries       *)
(* calls, none of which the network forgets.                               *)
(***************************************************************************)
EXTENDS RaftProperties

(* The faults LogInv does not survive.                                     *)
NoLogFault == Races = {} /\ SnapshotInterval = 0

-----------------------------------------------------------------------------
(* Pieces of log.  A server's log is a piece, and what an AppendEntries    *)
(* call carries is one that may begin further up: at the entry before its  *)
(* first, of which only the term is known.                                 *)

Piece == [base : Nat, baseTerm : Nat, entries : Seq(Entry)]

Whole(l) == [base |-> 0, baseTerm |-> 0, entries |-> l]
Sent(m)  == [base |-> m.preLogIndex, baseTerm |-> m.preLogTerm, entries |-> m.entries]

End(R)        == R.base + Len(R.entries)
Span(R)       == R.base .. End(R)
EntryIn(R, i) == R.entries[i - R.base]
TermIn(R, i)  == IF i = R.base THEN R.baseTerm ELSE EntryIn(R, i).term
LastTerm(R)   == TermIn(R, End(R))

(* The AppendEntries calls in the network; whether anybody still waits for *)
(* the reply does not matter here.                                         *)
Appends == {[m EXCEPT !.live = FALSE] : m \in {n \in messages : n.type = "AppendEntries"}}
Pieces  == {Whole(log[s]) : s \in Server} \cup {Sent(m) : m \in Appends}

(* Terms are positive, but for the 0 before the first entry, and grow.     *)
WellFormed(R) ==
    /\ \A i \in Span(R) : TermIn(R, i) = 0 <=> i = 0
    /\ \A i, j \in Span(R) : i <= j => TermIn(R, i) <= TermIn(R, j)

(* Where both have the same term, they are equal, and so is all before.    *)
Matching(R, S) ==
    \A i, j \in Span(R) \cap Span(S) :
        TermIn(R, i) = TermIn(S, i) /\ j <= i =>
            /\ TermIn(R, j) = TermIn(S, j)
            /\ j > R.base /\ j > S.base => EntryIn(R, j) = EntryIn(S, j)

(* R reaches as far as an entry of the given term at index k, or is of a   *)
(* later term: what requestVote asks of a candidate's log.                 *)
Beyond(R, k, term) == LastTerm(R) > term \/ (LastTerm(R) = term /\ End(R) >= k)

(* R has the entry of the given term at index k, or begins after it.       *)
Has(R, k, term) ==
    /\ k <= End(R)
    /\ IF k >= R.base THEN TermIn(R, k) = term ELSE R.baseTerm >= term

(* The log l begins with L.                                                *)
Begins(l, L) == Len(L) <= Len(l) /\ \A i \in 1 .. Len(L) : l[i] = L[i]

-----------------------------------------------------------------------------
(* Elections.                                                              *)

(* l was elected for term: a majority voted for it and can never be        *)
(* counted for another.                                                    *)
Led(l, term) ==
    /\ currentTerm[l] >= term
    /\ currentTerm[l] = term => state[l] # "candidate"
    /\ \E Q \in SUBSET Server :
          /\ Majority(Cardinality(Q))
          /\ \A v \in Q :
                /\ Cast(v, l, term)
                /\ \A t \in Server : Running(t) /\ currentTerm[t] = term /\ t # l => v \notin voters[t]
                /\ \A m \in messages : IsVote(m) /\ m.from = v /\ m.argsTerm = term => m.to = l

(* c still has the log it asked for votes with: nobody leads its term yet. *)
Contends(c) ==
    /\ state[c] = "candidate"
    /\ \A m \in Appends : m.term # currentTerm[c]

(* x voted for c in the election c is in.                                  *)
Voted(x, c) == x \in voters[c] \/ \E m \in messages : IsVote(m) /\ m.from = x /\ m.to = c

-----------------------------------------------------------------------------
(* Acknowledgements.                                                       *)

IsAppendReply(m, s, x) ==
    /\ m.type = "AppendEntriesReply"
    /\ m.to = s /\ m.from = x
    /\ m.argsTerm = currentTerm[s]

(* How much of its log s knows, or is being told, that x has.              *)
Acks(s, x) == {matchIndex[s][x]} \cup {m.match : m \in {n \in messages : IsAppendReply(n, s, x) /\ n.success}}

Acked(s, x, i)  == \E a \in Acks(s, x) : i <= a
Ackers(s, i)    == {x \in Server \ {s} : Acked(s, x, i)}

(* The leader s will never have a majority for its entry i.                *)
Blocked(s, i) ==
    \E Q \in SUBSET Server :
        /\ Majority(Cardinality(Q))
        /\ \A x \in Q : currentTerm[x] > currentTerm[s] /\ ~Acked(s, x, i)

-----------------------------------------------------------------------------
(* Security.  L is the log of a leader up to an entry of its own term.     *)

(* Whatever comes later has the entry at k.                                *)
Inherited(k, term) ==
    /\ \A R \in Pieces : Beyond(R, k, term) => Has(R, k, term)
    /\ \A c \in Server : state[c] = "leader" /\ currentTerm[c] > term => Has(Whole(log[c]), k, term)
    /\ \A m \in Appends : m.term > term => Has(Sent(m), k, term)

(* No call of the term of L disagrees with it.                             *)
Uncontradicted(L) ==
    \A m \in Appends : m.term = L[Len(L)].term =>
        \A i \in Span(Sent(m)) \cap 1 .. Len(L) : TermIn(Sent(m), i) = L[i].term

(* x has L, and so has every candidate of a later term x voted for.        *)
HeldBy(x, L) ==
    /\ Begins(log[x], L)
    /\ \A c \in Server : Contends(c) /\ currentTerm[c] > L[Len(L)].term /\ Voted(x, c) =>
          Has(Whole(log[c]), Len(L), L[Len(L)].term)

(* As far as the servers in A can see to it, L is there for ever.          *)
Secure(A, L) ==
    /\ Inherited(Len(L), L[Len(L)].term)
    /\ Uncontradicted(L)
    /\ \A x \in A : HeldBy(x, L)

(* L is there for ever.                                                    *)
Chosen(L) == \E Q \in SUBSET Server : Majority(Cardinality(Q)) /\ Secure(Q, L)

-----------------------------------------------------------------------------
(* The parts of the invariant.                                             *)

NothingHalfDone == \A s \in Server : Idle(s)

TermsBounded ==
    /\ \A R \in Pieces : WellFormed(R)
    /\ \A s \in Server : LastTerm(Whole(log[s])) <= currentTerm[s]
    /\ \A m \in Appends : LastTerm(Sent(m)) <= m.term /\ m.from # m.to
    /\ \A s \in Server : Running(s) => currentTerm[s] > 0
    /\ \A m \in messages : m.type = "RequestVote" => m.term <= currentTerm[m.from]

TermsLed ==
    /\ \A R \in Pieces : \A i \in Span(R) : i > 0 => \E l \in Server : Led(l, TermIn(R, i))
    /\ \A m \in Appends : Led(m.from, m.term)
    /\ \A m \in messages : m.type = "AppendEntriesReply" =>
          m.from # m.to /\ Led(m.to, m.argsTerm)
    /\ \A s \in Server : state[s] = "leader" => Led(s, currentTerm[s])

PiecesMatch == \A R, S \in Pieces : Matching(R, S)

(* A leader has every entry of its term, and everything it sent.           *)
LeaderOwns ==
    \A s \in Server : state[s] = "leader" =>
        /\ \A R \in Pieces : \A i \in Span(R) : TermIn(R, i) = currentTerm[s] =>
              i <= Len(log[s]) /\ TermIn(Whole(log[s]), i) = currentTerm[s]
        /\ \A m \in Appends : m.term = currentTerm[s] =>
              /\ End(Sent(m)) <= Len(log[s])
              /\ \A i \in Span(Sent(m)) : TermIn(Sent(m), i) = TermIn(Whole(log[s]), i)

(* What a follower acknowledged it has, for as long as the leader's term.  *)
AcksTrue ==
    \A s, x \in Server : state[s] = "leader" /\ s # x =>
        \A a \in Acks(s, x) :
            /\ a <= Len(log[s])
            /\ a > 0 => currentTerm[x] >= currentTerm[s]
            /\ currentTerm[x] = currentTerm[s] =>
                  a <= Len(log[x]) /\ \A i \in 1 .. a : log[x][i] = log[s][i]

(* A candidate asks for votes with the log it has.                         *)
RequestsTrue ==
    \A m \in messages :
        m.type = "RequestVote" /\ Contends(m.from) /\ m.term = currentTerm[m.from] =>
            /\ m.lastLogIndex = Len(log[m.from])
            /\ m.lastLogTerm = LastTerm(Whole(log[m.from]))

(* A leader is not told to send what it does not have.                     *)
RefusalsTrue ==
    \A s, x \in Server : state[s] = "leader" =>
        /\ nextIndex[s][x] <= Len(log[s]) + 1
        /\ \A m \in messages : IsAppendReply(m, s, x) /\ ~m.success /\ m.term <= currentTerm[s] =>
              m.conflictIndex <= Len(log[s])

(* An entry of the leader's own term is on the logs of those who           *)
(* acknowledged it, and of all later leaders, unless it is too late for it *)
(* to be committed.                                                        *)
OwnEntriesSecure ==
    \A s \in Server : state[s] = "leader" =>
        \A i \in 1 .. Len(log[s]) : log[s][i].term = currentTerm[s] =>
            Blocked(s, i) \/ Secure(Ackers(s, i), SubSeq(log[s], 1, i))

(* What a server takes for committed, or is told is, is there for ever.    *)
CommitsChosen ==
    /\ \A s \in Server : commitIndex[s] > 0 =>
          commitIndex[s] <= Len(log[s]) /\ Chosen(SubSeq(log[s], 1, commitIndex[s]))
    /\ \A m \in Appends : m.leaderCommit > 0 =>
          /\ m.leaderCommit <= End(Sent(m))
          /\ \E y \in Server :
                /\ m.leaderCommit <= Len(log[y])
                /\ Chosen(SubSeq(log[y], 1, m.leaderCommit))
                /\ Has(Sent(m), m.leaderCommit, log[y][m.leaderCommit].term)

(* The state machine has executed what is committed.                       *)
CommitsExecuted ==
    \A s \in Server :
        /\ lastApplied[s] = commitIndex[s]
        /\ Len(applied[s]) = commitIndex[s]
        /\ \A i \in 1 .. commitIndex[s] : applied[s][i] = log[s][i].command

(* The inductive invariant.  After any elections, lost and repeated calls, *)
(* restarts and commits: terms have one leader, whose entries are the only *)
(* ones of the term; all logs and all calls agree as Raft's log matching   *)
(* has it; what followers answer is true of their logs; an entry with a    *)
(* majority in the leader's own term is in the log of every later leader;  *)
(* and only such entries, and those before them, are committed.            *)
LogInv ==
    /\ NothingHalfDone
    /\ TermsBounded
    /\ TermsLed
    /\ PiecesMatch
    /\ LeaderOwns
    /\ AcksTrue
    /\ RequestsTrue
    /\ RefusalsTrue
    /\ OwnEntriesSecure
    /\ CommitsChosen
    /\ CommitsExecuted

=============================================================================
