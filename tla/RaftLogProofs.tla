----------------------------- MODULE RaftLogProofs -----------------------------
(***************************************************************************)
(* Why the logs of Raft agree: proofs that LogInv is an invariant, that    *)
(* the log properties of RaftProperties follow from it, and that Raft      *)
(* implements ReplicatedLog.                                               *)
(*                                                                         *)
(* Every action is shown to be a step of a few kinds: one that changes no  *)
(* log and sends none (Quiet), one that elects (Elects), appends           *)
(* (Extends), sends (Sends) or accepts what was sent (Accepts).  For each  *)
(* kind Agreement, the part of LogInv that does not speak of commits, is   *)
(* kept, and what is Chosen stays Chosen and on the logs it is on          *)
(* (ChosenKept).  The rest follows from ChosenKept for all kinds at once.  *)
(***************************************************************************)
EXTENDS RaftLogInvariant, RaftLog, RaftElectionProofs, RaftStorageProofs

-----------------------------------------------------------------------------
(* Pieces of log, and how a log is spliced with what an AppendEntries call *)
(* carries.                                                                *)

LEMMA PieceType ==
    ASSUME NEW R \in Piece
    PROVE  /\ R.base \in Nat /\ R.baseTerm \in Nat
           /\ End(R) \in Nat /\ R.base <= End(R)
           /\ Span(R) \subseteq Nat /\ R.base \in Span(R) /\ End(R) \in Span(R)
           /\ \A i \in Span(R) : TermIn(R, i) \in Nat
           /\ \A i \in Span(R) : i > R.base => EntryIn(R, i) \in Entry /\ TermIn(R, i) = EntryIn(R, i).term
           /\ TermIn(R, R.base) = R.baseTerm
           /\ LastTerm(R) \in Nat
<1>1. R.base \in Nat /\ R.baseTerm \in Nat /\ R.entries \in Seq(Entry) /\ Len(R.entries) \in Nat
  BY DEF Piece
<1>2. /\ End(R) \in Nat /\ R.base <= End(R)
      /\ Span(R) \subseteq Nat /\ R.base \in Span(R) /\ End(R) \in Span(R)
  BY <1>1 DEF End, Span
<1>3. ASSUME NEW i \in Span(R), i > R.base
      PROVE  EntryIn(R, i) \in Entry /\ TermIn(R, i) = EntryIn(R, i).term /\ TermIn(R, i) \in Nat
  <2>1. i - R.base \in 1 .. Len(R.entries)
    BY <1>1, <1>3 DEF End, Span
  <2>2. EntryIn(R, i) \in Entry
    BY <1>1, <2>1, ElementOfSeq DEF EntryIn
  <2>3. i # R.base
    BY <1>1, <1>3
  <2>. QED BY <2>2, <2>3 DEF TermIn, Entry
<1>4. TermIn(R, R.base) = R.baseTerm
  BY DEF TermIn
<1>5. \A i \in Span(R) : i = R.base \/ i > R.base
  BY <1>1 DEF End, Span
<1>6. \A i \in Span(R) : TermIn(R, i) \in Nat
  BY <1>1, <1>3, <1>4, <1>5
<1>. QED BY <1>1, <1>2, <1>3, <1>4, <1>6 DEF LastTerm

(* A whole log is a piece that starts at the dummy entry.                  *)
LEMMA WholePiece ==
    ASSUME NEW l \in Seq(Entry)
    PROVE  /\ Whole(l) \in Piece /\ Whole(l).base = 0 /\ Whole(l).baseTerm = 0
           /\ End(Whole(l)) = Len(l) /\ Span(Whole(l)) = 0 .. Len(l) /\ Len(l) \in Nat
           /\ \A i \in 1 .. Len(l) : /\ EntryIn(Whole(l), i) = l[i]
                                     /\ TermIn(Whole(l), i) = l[i].term
                                     /\ l[i] \in Entry /\ l[i].term \in Nat
           /\ TermIn(Whole(l), 0) = 0
<1>1. Len(l) \in Nat /\ \A i \in 1 .. Len(l) : l[i] \in Entry
  BY ElementOfSeq
<1>2. /\ Whole(l) \in Piece /\ Whole(l).base = 0 /\ Whole(l).baseTerm = 0
      /\ Whole(l).entries = l
  BY DEF Whole, Piece
<1>3. End(Whole(l)) = Len(l) /\ Span(Whole(l)) = 0 .. Len(l)
  BY <1>1, <1>2 DEF End, Span
<1>4. ASSUME NEW i \in 1 .. Len(l)
      PROVE  EntryIn(Whole(l), i) = l[i] /\ TermIn(Whole(l), i) = l[i].term
  <2>1. i - 0 = i /\ i # 0
    BY <1>1
  <2>. QED BY <1>2, <2>1 DEF EntryIn, TermIn
<1>5. TermIn(Whole(l), 0) = 0
  BY <1>2 DEF TermIn
<1>6. \A i \in 1 .. Len(l) : l[i].term \in Nat
  BY <1>1 DEF Entry
<1>. QED BY <1>1, <1>2, <1>3, <1>4, <1>5, <1>6

LEMMA SentPiece ==
    ASSUME NEW m \in AppendRequest
    PROVE  /\ Sent(m) \in Piece
           /\ Sent(m).base = m.preLogIndex /\ Sent(m).baseTerm = m.preLogTerm
           /\ Sent(m).entries = m.entries
           /\ End(Sent(m)) = m.preLogIndex + Len(m.entries)
BY DEF AppendRequest, Sent, Piece, End

(* R and S have the same entry at i, as far as both know it.               *)
Same(R, S, i) ==
    /\ TermIn(R, i) = TermIn(S, i)
    /\ i > R.base /\ i > S.base => EntryIn(R, i) = EntryIn(S, i)

LEMMA MatchingSame ==
    ASSUME NEW R, NEW S, Matching(R, S),
           NEW i \in Span(R) \cap Span(S), TermIn(R, i) = TermIn(S, i),
           NEW j \in Span(R) \cap Span(S), j <= i
    PROVE  Same(R, S, j)
BY DEF Matching, Same

LEMMA SameMatching ==
    ASSUME NEW R, NEW S,
           ASSUME NEW i \in Span(R) \cap Span(S), TermIn(R, i) = TermIn(S, i),
                  NEW j \in Span(R) \cap Span(S), j <= i
           PROVE  Same(R, S, j)
    PROVE  Matching(R, S)
BY DEF Matching, Same

LEMMA MatchingSymmetric ==
    ASSUME NEW R, NEW S, Matching(R, S)
    PROVE  Matching(S, R)
BY DEF Matching

LEMMA MatchingReflexive ==
    ASSUME NEW R
    PROVE  Matching(R, R)
BY DEF Matching

(* S is a part of R.                                                       *)
Part(S, R) ==
    /\ R.base <= S.base
    /\ Span(S) \subseteq Span(R)
    /\ \A i \in Span(S) : Same(S, R, i)

LEMMA PartMatching ==
    ASSUME NEW S \in Piece, NEW R \in Piece, Part(S, R), NEW X \in Piece, Matching(R, X)
    PROVE  Matching(S, X)
<1>. SUFFICES ASSUME NEW i \in Span(S) \cap Span(X), TermIn(S, i) = TermIn(X, i),
                     NEW j \in Span(S) \cap Span(X), j <= i
              PROVE  Same(S, X, j)
  BY SameMatching
<1>1. i \in Span(R) /\ j \in Span(R) /\ TermIn(R, i) = TermIn(X, i)
  BY DEF Part, Same
<1>2. Same(R, X, j)
  BY <1>1, MatchingSame
<1>3. Same(S, R, j) /\ R.base <= S.base
  BY DEF Part
<1>4. S.base \in Nat /\ R.base \in Nat /\ j \in Nat
  BY PieceType
<1>. QED BY <1>2, <1>3, <1>4 DEF Same

LEMMA PartWellFormed ==
    ASSUME NEW S \in Piece, NEW R \in Piece, Part(S, R), WellFormed(R)
    PROVE  WellFormed(S)
BY DEF Part, WellFormed, Same

(* A part that reaches as far as the whole.                                *)
LEMMA PartTail ==
    ASSUME NEW S \in Piece, NEW R \in Piece, Part(S, R), End(S) = End(R), WellFormed(R)
    PROVE  /\ LastTerm(S) = LastTerm(R)
           /\ \A k, term \in Nat : /\ Beyond(S, k, term) <=> Beyond(R, k, term)
                                   /\ Has(R, k, term) => Has(S, k, term)
<1>1. LastTerm(S) = LastTerm(R)
  BY PieceType DEF LastTerm, Part, Same
<1>2. ASSUME NEW k \in Nat, NEW term \in Nat, Has(R, k, term)
      PROVE  Has(S, k, term)
  <2>1. /\ S.base \in Nat /\ R.base \in Nat /\ R.base <= S.base
        /\ S.base \in Span(S) /\ TermIn(S, S.base) = S.baseTerm
        /\ R.base \in Span(R) /\ TermIn(R, R.base) = R.baseTerm
        /\ S.base \in Span(R) /\ End(R) \in Nat /\ End(S) \in Nat
    BY PieceType DEF Part
  <2>2. TermIn(R, S.base) = S.baseTerm
    BY <2>1 DEF Part, Same
  <2>3. CASE k >= S.base
    <3>1. k \in Span(S) /\ k \in Span(R) /\ k >= R.base
      BY <1>2, <2>1, <2>3 DEF Has, Span
    <3>2. TermIn(S, k) = TermIn(R, k)
      BY <3>1 DEF Part, Same
    <3>. QED BY <1>2, <2>3, <3>1, <3>2 DEF Has
  <2>4. CASE k < S.base /\ k >= R.base
    <3>1. k \in Span(R) /\ TermIn(R, k) = term
      BY <1>2, <2>1, <2>4 DEF Has, Span
    <3>2. TermIn(R, k) <= TermIn(R, S.base)
      BY <2>1, <2>4, <3>1 DEF WellFormed
    <3>. QED BY <1>2, <2>1, <2>2, <2>4, <3>1, <3>2 DEF Has
  <2>5. CASE k < S.base /\ k < R.base
    <3>1. TermIn(R, R.base) <= TermIn(R, S.base)
      BY <2>1 DEF WellFormed
    <3>2. R.baseTerm >= term /\ R.baseTerm \in Nat /\ S.baseTerm \in Nat
      BY <1>2, <2>1, <2>5, PieceType DEF Has
    <3>. QED BY <1>2, <2>1, <2>2, <2>5, <3>1, <3>2 DEF Has
  <2>. QED BY <2>1, <2>3, <2>4, <2>5
<1>. QED BY <1>1, <1>2 DEF Beyond

-----------------------------------------------------------------------------
(* What appendEntries makes of a log: the mark loop, as a splice.          *)

(* new is old up to where P begins, followed by P; old itself where that   *)
(* has all of P already.                                                   *)
Spliced(new, old, P) ==
    /\ new \in Seq(Entry)
    /\ P.base <= Len(old)
    /\ TermIn(Whole(old), P.base) = P.baseTerm
    /\ \/ /\ new = old
          /\ End(P) <= Len(old)
          /\ \A i \in Span(P) : Same(Whole(old), P, i)
       \/ /\ Len(new) = End(P)
          /\ \A i \in 1 .. P.base : new[i] = old[i]
          /\ \A i \in P.base + 1 .. End(P) : new[i] = EntryIn(P, i)
          /\ \/ Len(old) < End(P)
             \/ \E i \in Span(P) : i <= Len(old) /\ TermIn(Whole(old), i) # TermIn(P, i)

(* A log that ends, after index b, in the first n of the entries e.        *)
Overlaps(kept, e, b, n) ==
    /\ Len(kept) = b + n
    /\ \A i \in 1 .. n : kept[b + i] = e[i]

LEMMA Concatenation ==
    ASSUME NEW p \in Seq(Entry), NEW q \in Seq(Entry), NEW pq, pq = p \o q
    PROVE  /\ pq \in Seq(Entry)
           /\ Len(pq) = Len(p) + Len(q)
           /\ \A i \in 1 .. Len(p) : pq[i] = p[i]
           /\ \A i \in Len(p) + 1 .. Len(p) + Len(q) : pq[i] = q[i - Len(p)]
<1>1. /\ p \o q \in Seq(Entry)
      /\ Len(p \o q) = Len(p) + Len(q)
      /\ \A i \in 1 .. Len(p) + Len(q) : (p \o q)[i] = IF i <= Len(p) THEN p[i] ELSE q[i - Len(p)]
  BY ConcatProperties
<1>2. Len(p) \in Nat /\ Len(q) \in Nat
  OBVIOUS
<1>. QED BY <1>1, <1>2

(* The part of the entries from position n on.                             *)
LEMMA RestOfEntries ==
    ASSUME NEW q \in Seq(Entry), NEW n \in Nat, n <= Len(q)
    PROVE  /\ SubSeq(q, n + 1, Len(q)) \in Seq(Entry)
           /\ Len(SubSeq(q, n + 1, Len(q))) = Len(q) - n
           /\ \A i \in 1 .. Len(q) - n : SubSeq(q, n + 1, Len(q))[i] = q[n + i]
<1>1. Len(q) \in Nat
  OBVIOUS
<1>2. \A i \in n + 1 .. Len(q) : q[i] \in Entry
  BY <1>1, ElementOfSeq
<1>3. /\ SubSeq(q, n + 1, Len(q)) \in Seq(Entry)
      /\ Len(SubSeq(q, n + 1, Len(q))) = IF n + 1 <= Len(q) THEN Len(q) - (n + 1) + 1 ELSE 0
      /\ \A i \in 1 .. Len(q) - (n + 1) + 1 : SubSeq(q, n + 1, Len(q))[i] = q[n + 1 + i - 1]
  <2>. DEFINE k == n + 1
  <2>1. k \in Int /\ Len(q) \in Int /\ \A i \in k .. Len(q) : q[i] \in Entry
    BY <1>1, <1>2
  <2>. HIDE DEF k
  <2>2. /\ SubSeq(q, k, Len(q)) \in Seq(Entry)
        /\ Len(SubSeq(q, k, Len(q))) = IF k <= Len(q) THEN Len(q) - k + 1 ELSE 0
        /\ \A i \in 1 .. Len(q) - k + 1 : SubSeq(q, k, Len(q))[i] = q[k + i - 1]
    BY <2>1, SubSeqProperties
  <2>. QED BY <2>2 DEF k
<1>4. Len(SubSeq(q, n + 1, Len(q))) = Len(q) - n
  BY <1>1, <1>3
<1>5. ASSUME NEW i \in 1 .. Len(q) - n
      PROVE  SubSeq(q, n + 1, Len(q))[i] = q[n + i]
  <2>1. n + 1 + i - 1 = n + i /\ i \in 1 .. Len(q) - (n + 1) + 1
    BY <1>1
  <2>. QED BY <1>3, <2>1
<1>. QED BY <1>3, <1>4, <1>5

LEMMA Prefix ==
    ASSUME NEW q \in Seq(Entry), NEW n \in Nat, n <= Len(q)
    PROVE  /\ SubSeq(q, 1, n) \in Seq(Entry)
           /\ Len(SubSeq(q, 1, n)) = n
           /\ \A i \in 1 .. n : SubSeq(q, 1, n)[i] = q[i]
<1>1. \A i \in 1 .. n : q[i] \in Entry
  BY ElementOfSeq
<1>2. /\ SubSeq(q, 1, n) \in Seq(Entry)
      /\ Len(SubSeq(q, 1, n)) = IF 1 <= n THEN n - 1 + 1 ELSE 0
      /\ \A i \in 1 .. n - 1 + 1 : SubSeq(q, 1, n)[i] = q[1 + i - 1]
  BY <1>1, SubSeqProperties
<1>. QED BY <1>2

LEMMA NothingLeft ==
    ASSUME NEW q \in Seq(Entry), NEW e \in Seq(Entry)
    PROVE  q \o SubSeq(e, Len(e) + 1, Len(e)) = q
<1>. DEFINE k == Len(e) + 1
<1>1. k \in Int /\ Len(e) \in Int /\ Len(e) < k
  OBVIOUS
<1>. HIDE DEF k
<1>2. SubSeq(e, k, Len(e)) = << >>
  BY <1>1, SubSeqEmpty
<1>. QED BY <1>2, ConcatEmptySeq DEF k

(* A log that ends with n of the entries, followed by the other entries.   *)
Joined(new, kept, e, b) ==
    /\ new \in Seq(Entry)
    /\ Len(new) = b + Len(e)
    /\ \A i \in 1 .. b : new[i] = kept[i]
    /\ \A i \in b + 1 .. b + Len(e) : new[i] = e[i - b]

LEMMA JoinedLogs ==
    ASSUME NEW kept \in Seq(Entry), NEW e \in Seq(Entry), NEW b \in Nat, NEW n \in Nat,
           n <= Len(e), Overlaps(kept, e, b, n)
    PROVE  Joined(kept \o SubSeq(e, n + 1, Len(e)), kept, e, b)
<1>. DEFINE rest == SubSeq(e, n + 1, Len(e))
            new == kept \o rest
<1>1. Len(kept) \in Nat /\ Len(e) \in Nat
  OBVIOUS
<1>2. rest \in Seq(Entry) /\ Len(rest) = Len(e) - n /\ \A i \in 1 .. Len(e) - n : rest[i] = e[n + i]
  BY RestOfEntries
<1>. HIDE DEF rest
<1>3. /\ new \in Seq(Entry)
      /\ Len(new) = Len(kept) + Len(rest)
      /\ \A i \in 1 .. Len(kept) : new[i] = kept[i]
      /\ \A i \in Len(kept) + 1 .. Len(kept) + Len(rest) : new[i] = rest[i - Len(kept)]
  <2>1. rest \in Seq(Entry) /\ new = kept \o rest
    BY <1>2
  <2>. HIDE DEF new
  <2>. QED BY <2>1, Concatenation
<1>. HIDE DEF new
<1>4. Len(new) = b + Len(e) /\ \A i \in 1 .. b : new[i] = kept[i]
  BY <1>1, <1>2, <1>3 DEF Overlaps
<1>5. ASSUME NEW i \in b + 1 .. b + Len(e)
      PROVE  new[i] = e[i - b]
  <2>1. CASE i <= b + n
    <3>1. i - b \in 1 .. n /\ b + (i - b) = i /\ new[i] = kept[i]
      BY <1>1, <1>3, <2>1 DEF Overlaps
    <3>. QED BY <3>1 DEF Overlaps
  <2>2. CASE i > b + n
    <3>1. i \in Len(kept) + 1 .. Len(kept) + Len(rest)
      BY <1>1, <1>2, <2>2 DEF Overlaps
    <3>2. new[i] = rest[i - Len(kept)]
      BY <1>3, <3>1
    <3>3. i - Len(kept) \in 1 .. Len(e) - n /\ n + (i - Len(kept)) = i - b
      BY <1>1, <1>2, <3>1 DEF Overlaps
    <3>. QED BY <1>2, <3>2, <3>3
  <2>. QED BY <1>1, <2>1, <2>2
<1>6. Joined(new, kept, e, b)
  BY <1>3, <1>4, <1>5 DEF Joined
<1>. QED BY <1>6 DEF new, rest

(* Of a log that matches the call, the mark loop makes a splice.           *)
LEMMA AppendedIsSpliced ==
    ASSUME TypeOK, NEW s \in Server, lastIncludedIndex[s] = 0,
           NEW m \in AppendRequest, m.preLogIndex <= Len(log[s]),
           TermIn(Whole(log[s]), m.preLogIndex) = m.preLogTerm,
           Matching(Whole(log[s]), Sent(m))
    PROVE  Spliced(AppendedLog(s, m), log[s], Sent(m))
<1>. DEFINE old == log[s]  e == m.entries  b == m.preLogIndex
            W == Whole(old)  P == Sent(m)
            position(i) == b + i - lastIncludedIndex[s]
            overlap == {i \in DOMAIN e : position(i) \in DOMAIN old}
            conflicts == {i \in overlap : old[position(i)].term # e[i].term}
            matches == {i \in overlap : old[position(i)] = e[i]}
            mark == IF conflicts = {} THEN Cardinality(matches) ELSE MinOf(conflicts) - 1
            kept == IF conflicts = {} THEN old ELSE SubSeq(old, 1, position(MinOf(conflicts)) - 1)
            new == AppendedLog(s, m)
<1>1. /\ old \in Seq(Entry) /\ Len(old) \in Nat /\ DOMAIN old = 1 .. Len(old)
      /\ e \in Seq(Entry) /\ Len(e) \in Nat /\ DOMAIN e = 1 .. Len(e)
      /\ b \in Nat /\ b <= Len(old)
  BY LenProperties DEF TypeOK, AppendRequest
<1>2. new = kept \o SubSeq(e, mark + 1, Len(e))
  BY DEF AppendedLog
<1>3. overlap = {i \in 1 .. Len(e) : b + i <= Len(old)} /\ \A i \in Nat : position(i) = b + i
  BY <1>1
<1>4. /\ P \in Piece /\ P.base = b /\ P.baseTerm = m.preLogTerm
      /\ P.entries = e /\ End(P) = b + Len(e) /\ Span(P) = b .. b + Len(e)
  BY SentPiece DEF Span
<1>5. /\ W \in Piece /\ W.base = 0 /\ Span(W) = 0 .. Len(old)
      /\ \A i \in 1 .. Len(old) : EntryIn(W, i) = old[i] /\ TermIn(W, i) = old[i].term
  BY <1>1, WholePiece
<1>6. ASSUME NEW i \in 1 .. Len(e)
      PROVE  b + i \in Span(P) /\ EntryIn(P, b + i) = e[i] /\ TermIn(P, b + i) = e[i].term
  <2>1. b + i \in Span(P) /\ b + i # b /\ b + i - b = i
    BY <1>1, <1>4
  <2>2. \A k : EntryIn(P, k) = P.entries[k - P.base]
    BY DEF EntryIn
  <2>3. EntryIn(P, b + i) = e[i]
    <3>. HIDE DEF P, e, b
    <3>. QED BY <1>1, <1>4, <2>1, <2>2
  <2>. QED BY <1>4, <2>1, <2>3 DEF TermIn
<1>7. \A i \in b + 1 .. b + Len(e) : EntryIn(P, i) = e[i - b]
  BY <1>4 DEF EntryIn
(* Where the terms agree, so do the entries.                               *)
<1>8. ASSUME NEW i \in overlap, old[b + i].term = e[i].term
      PROVE  old[b + i] = e[i]
  <2>1. i \in 1 .. Len(e) /\ b + i \in 1 .. Len(old)
    BY <1>1, <1>3
  <2>2. TermIn(W, b + i) = TermIn(P, b + i) /\ b + i \in Span(W) \cap Span(P)
    BY <1>1, <1>5, <1>6, <1>8, <2>1
  <2>3. Same(W, P, b + i)
    <3>. DEFINE k == b + i
    <3>1. k <= k /\ k \in Span(W) \cap Span(P) /\ TermIn(W, k) = TermIn(P, k)
      BY <1>1, <2>1, <2>2
    <3>2. Same(W, P, k)
      <4>. HIDE DEF k, W, P
      <4>. QED BY <3>1, MatchingSame DEF W, P
    <3>. QED BY <3>2
  <2>4. b + i > W.base /\ b + i > P.base
    BY <1>1, <1>4, <1>5, <2>1
  <2>. QED BY <1>5, <1>6, <2>1, <2>3, <2>4 DEF Same
(* Whatever is kept ends in what it has of the entries.                    *)
<1>9. CASE conflicts = {}
  <2>1. \A i \in overlap : old[b + i] = e[i]
    BY <1>3, <1>8, <1>9
  <2>2. matches = overlap
    BY <1>3, <2>1
  <2>3. kept = old /\ mark = Cardinality(overlap)
    BY <1>9, <2>2
  <2>4. new = old \o SubSeq(e, Cardinality(overlap) + 1, Len(e))
    BY <1>2, <2>3
  <2>. HIDE DEF new, kept, mark, matches, conflicts
  <2>5. CASE Len(e) <= Len(old) - b
    <3>1. overlap = 1 .. Len(e)
      BY <1>1, <1>3, <2>5
    <3>2. Cardinality(1 .. Len(e)) = Len(e)
      BY <1>1, FS_Interval
    <3>3. new = old
      BY <1>1, <2>4, <3>1, <3>2, NothingLeft
    <3>4. ASSUME NEW i \in Span(P)
          PROVE  Same(W, P, i)
      <4>1. CASE i = b
        BY <1>1, <1>4, <1>5, <4>1 DEF Same, TermIn
      <4>2. CASE i # b
        <5>1. i - b \in 1 .. Len(e) /\ i \in 1 .. Len(old) /\ b + (i - b) = i
          BY <1>1, <1>4, <2>5, <4>2
        <5>2. EntryIn(P, i) = e[i - b] /\ TermIn(P, i) = e[i - b].term
          BY <1>6, <5>1
        <5>3. EntryIn(W, i) = old[i] /\ TermIn(W, i) = old[i].term
          BY <1>5, <5>1
        <5>4. old[i] = e[i - b]
          BY <2>1, <3>1, <5>1
        <5>. QED BY <5>2, <5>3, <5>4 DEF Same
      <4>. QED BY <4>1, <4>2
    <3>5. End(P) <= Len(old) /\ P.base <= Len(old) /\ TermIn(W, P.base) = P.baseTerm
      BY <1>1, <1>4, <2>5
    <3>. HIDE DEF P, W, e, b
    <3>6. Spliced(old, old, P)
      BY <1>1, <3>4, <3>5 DEF Spliced, W
    <3>. QED BY <3>3, <3>6 DEF P, new
  <2>6. CASE Len(e) > Len(old) - b
    <3>. DEFINE n == Len(old) - b
    <3>1. n \in Nat /\ overlap = 1 .. n /\ Len(old) = b + n /\ n <= Len(e)
      <4>1. n \in Nat /\ Len(old) = b + n /\ n <= Len(e)
        BY <1>1, <2>6
      <4>2. \A i \in 1 .. Len(e) : b + i <= Len(old) <=> i <= n
        BY <1>1, <4>1
      <4>. HIDE DEF n, overlap, old, e, b
      <4>3. overlap = {i \in 1 .. Len(e) : i <= n}
        BY <1>3, <4>2
      <4>. QED BY <1>1, <4>1, <4>3
    <3>2. Cardinality(1 .. n) = n
      <4>. HIDE DEF n
      <4>. QED BY <3>1, FS_Interval
    <3>3. Overlaps(old, e, b, n)
      BY <2>1, <3>1 DEF Overlaps
    <3>4. new = old \o SubSeq(e, n + 1, Len(e))
      BY <2>4, <3>1, <3>2
    <3>. HIDE DEF n, e, b, W, P
    <3>5. Joined(new, old, e, b)
      BY <1>1, <3>1, <3>3, <3>4, JoinedLogs
    <3>6. Len(old) < b + Len(e)
      BY <1>1, <2>6
    <3>7. TermIn(W, P.base) = P.baseTerm
      BY <1>4 DEF W, b
    <3>8. Spliced(new, old, P)
      BY <1>1, <1>4, <1>7, <3>5, <3>6, <3>7 DEF Spliced, Joined, W
    <3>. QED BY <3>8 DEF new, P
  <2>. QED BY <1>1, <2>5, <2>6
<1>10. CASE conflicts # {}
  <2>. DEFINE c == MinOf(conflicts)
  <2>1. c \in conflicts /\ \A i \in conflicts : c <= i
    <3>1. conflicts \in SUBSET Nat
      BY <1>1
    <3>. HIDE DEF conflicts
    <3>. QED BY <1>10, <3>1, MinOfNat
  <2>2. \A i \in overlap : i \in conflicts <=> old[b + i].term # e[i].term
    BY <1>3
  <2>3. kept = SubSeq(old, 1, position(c) - 1) /\ mark = c - 1
    BY <1>10
  <2>4. c \in overlap
    BY <2>1
  <2>. HIDE DEF c, kept, mark, conflicts
  <2>5. c \in 1 .. Len(e) /\ b + c \in 1 .. Len(old) /\ old[b + c].term # e[c].term
    BY <1>1, <1>3, <2>1, <2>2, <2>4
  <2>. DEFINE n == c - 1
  <2>6. /\ n \in Nat /\ n <= Len(e) /\ b + n \in Nat /\ b + n <= Len(old)
        /\ position(c) - 1 = b + n
    BY <1>1, <1>3, <2>5
  <2>7. \A i \in 1 .. n : old[b + i] = e[i]
    <3>1. \A i \in 1 .. n : i \in overlap /\ ~(c <= i)
      BY <1>1, <1>3, <2>5
    <3>2. \A i \in 1 .. n : old[b + i].term = e[i].term
      BY <2>1, <2>2, <3>1
    <3>. QED BY <1>8, <3>1, <3>2
  <2>. HIDE DEF n, new, overlap
  <2>. DEFINE head == SubSeq(old, 1, b + n)
  <2>8. head \in Seq(Entry) /\ Len(head) = b + n /\ \A i \in 1 .. b + n : head[i] = old[i]
    <3>. DEFINE k == b + n
    <3>1. k \in Nat /\ k <= Len(old)
      BY <2>6
    <3>. HIDE DEF k, b
    <3>2. SubSeq(old, 1, k) \in Seq(Entry) /\ Len(SubSeq(old, 1, k)) = k
          /\ \A i \in 1 .. k : SubSeq(old, 1, k)[i] = old[i]
      BY <1>1, <3>1, Prefix
    <3>. QED BY <3>2 DEF k
  <2>9. new = head \o SubSeq(e, n + 1, Len(e))
    BY <1>2, <2>3, <2>6 DEF n
  <2>. HIDE DEF head
  <2>10. Overlaps(head, e, b, n)
    <3>1. ASSUME NEW i \in 1 .. n
          PROVE  head[b + i] = e[i]
      <4>1. b + i \in 1 .. b + n
        BY <1>1, <2>6
      <4>. QED BY <2>7, <2>8, <4>1
    <3>. QED BY <2>8, <3>1 DEF Overlaps
  <2>11. b + c \in Span(P) /\ b + c <= Len(old) /\ TermIn(W, b + c) # TermIn(P, b + c)
    BY <1>1, <1>5, <1>6, <2>5
  <2>. HIDE DEF e, b, W, P
  <2>12. Joined(new, head, e, b)
    BY <1>1, <2>6, <2>8, <2>9, <2>10, JoinedLogs
  <2>13. \A i \in 1 .. b : new[i] = old[i]
    <3>1. \A i \in 1 .. b : i \in 1 .. b + n
      BY <1>1, <2>6
    <3>. QED BY <2>8, <2>12, <3>1 DEF Joined
  <2>14. TermIn(W, P.base) = P.baseTerm
    BY <1>4 DEF W, b
  <2>15. Spliced(new, old, P)
    BY <1>1, <1>4, <1>7, <2>11, <2>12, <2>13, <2>14 DEF Spliced, Joined, W
  <2>. QED BY <2>15 DEF new, P
<1>. QED BY <1>9, <1>10

(* Up to where P begins a splice is the old log, from there on it is P.    *)
LEMMA SplicedSame ==
    ASSUME NEW old \in Seq(Entry), NEW new, NEW P \in Piece, Spliced(new, old, P)
    PROVE  /\ new \in Seq(Entry)
           /\ P.base \in Nat /\ P.base <= Len(new) /\ P.base <= Len(old)
           /\ End(P) \in Nat /\ End(P) <= Len(new)
           /\ \A i \in 0 .. P.base : Same(Whole(new), Whole(old), i)
           /\ \A i \in Span(P) : i <= Len(new) /\ Same(Whole(new), P, i)
           /\ new # old => Len(new) = End(P) /\ LastTerm(Whole(new)) = LastTerm(P)
<1>. DEFINE G == Whole(new)  W == Whole(old)
<1>1. /\ new \in Seq(Entry) /\ P.base <= Len(old)
      /\ TermIn(W, P.base) = P.baseTerm
  BY DEF Spliced
<1>2. /\ P.base \in Nat /\ End(P) \in Nat /\ P.base <= End(P)
      /\ TermIn(P, P.base) = P.baseTerm
      /\ P.base \in Span(P) /\ End(P) \in Span(P)
      /\ \A i \in Span(P) : i \in Nat /\ P.base <= i /\ i <= End(P)
  BY PieceType DEF Span
<1>3. \A i \in Span(P) : i > P.base => TermIn(P, i) = EntryIn(P, i).term
  BY PieceType
<1>4. /\ W.base = 0 /\ TermIn(W, 0) = 0 /\ Len(old) \in Nat
      /\ \A i \in 1 .. Len(old) : EntryIn(W, i) = old[i] /\ TermIn(W, i) = old[i].term
  BY WholePiece
<1>5. /\ G.base = 0 /\ TermIn(G, 0) = 0 /\ Len(new) \in Nat
      /\ End(G) = Len(new)
      /\ \A i \in 1 .. Len(new) : EntryIn(G, i) = new[i] /\ TermIn(G, i) = new[i].term
  BY <1>1, WholePiece
<1>. HIDE DEF G, W
<1>6. CASE new = old /\ End(P) <= Len(old) /\ \A i \in Span(P) : Same(W, P, i)
  <2>1. G = W
    BY <1>6 DEF G, W
  <2>2. \A i \in 0 .. P.base : Same(G, W, i)
    BY <2>1 DEF Same
  <2>. QED BY <1>1, <1>2, <1>6, <2>1, <2>2 DEF G, W
<1>7. CASE /\ Len(new) = End(P)
           /\ \A i \in 1 .. P.base : new[i] = old[i]
           /\ \A i \in P.base + 1 .. End(P) : new[i] = EntryIn(P, i)
  <2>1. ASSUME NEW i \in 0 .. P.base
        PROVE  Same(G, W, i) /\ TermIn(G, i) = TermIn(W, i)
    <3>1. CASE i = 0
      BY <1>4, <1>5, <3>1 DEF Same
    <3>2. CASE i # 0
      <4>1. i \in 1 .. P.base /\ i \in 1 .. Len(new) /\ i \in 1 .. Len(old)
        BY <1>1, <1>2, <1>4, <1>7, <3>2
      <4>2. new[i] = old[i]
        BY <1>7, <4>1
      <4>. QED BY <1>4, <1>5, <4>1, <4>2 DEF Same
    <3>. QED BY <3>1, <3>2
  <2>2. ASSUME NEW i \in Span(P)
        PROVE  i <= Len(new) /\ Same(G, P, i)
    <3>1. i <= Len(new)
      BY <1>2, <1>7
    <3>2. CASE i = P.base
      <4>1. TermIn(G, i) = TermIn(P, i)
        BY <1>1, <1>2, <2>1, <3>2
      <4>. QED BY <1>2, <3>1, <3>2, <4>1 DEF Same
    <3>3. CASE i # P.base
      <4>1. i \in P.base + 1 .. End(P) /\ i > P.base /\ i \in 1 .. Len(new)
        BY <1>2, <1>7, <3>3
      <4>2. new[i] = EntryIn(P, i)
        BY <1>7, <4>1
      <4>. QED BY <1>3, <1>5, <3>1, <4>1, <4>2 DEF Same
    <3>. QED BY <3>2, <3>3
  <2>3. LastTerm(G) = LastTerm(P)
    BY <1>2, <1>5, <1>7, <2>2 DEF LastTerm, Same
  <2>. QED BY <1>1, <1>2, <1>7, <2>1, <2>2, <2>3 DEF G, W
<1>8. \/ new = old /\ End(P) <= Len(old) /\ \A i \in Span(P) : Same(W, P, i)
      \/ /\ Len(new) = End(P)
         /\ \A i \in 1 .. P.base : new[i] = old[i]
         /\ \A i \in P.base + 1 .. End(P) : new[i] = EntryIn(P, i)
  BY DEF Spliced, W
<1>. QED BY <1>6, <1>7, <1>8

(* Two logs that are the same up to k begin with the same entries.         *)
LEMMA SameEntries ==
    ASSUME NEW l \in Seq(Entry), NEW n \in Seq(Entry), NEW i \in Nat, i > 0, i <= Len(l), i <= Len(n),
           Same(Whole(l), Whole(n), i)
    PROVE  l[i] = n[i]
<1>1. i \in 1 .. Len(l) /\ i \in 1 .. Len(n)
  OBVIOUS
<1>2. Whole(l).base = 0 /\ EntryIn(Whole(l), i) = l[i]
  BY <1>1, WholePiece
<1>3. Whole(n).base = 0 /\ EntryIn(Whole(n), i) = n[i]
  BY <1>1, WholePiece
<1>. QED BY <1>2, <1>3 DEF Same

(* The mark loop keeps what does not conflict.                             *)
LEMMA SplicedKeeps ==
    ASSUME NEW old \in Seq(Entry), NEW new, NEW P \in Piece, Spliced(new, old, P),
           Matching(Whole(old), P),
           NEW k \in Nat, k <= Len(old),
           \A i \in Span(P) : i <= k => TermIn(P, i) = TermIn(Whole(old), i)
    PROVE  k <= Len(new) /\ \A i \in 1 .. k : new[i] = old[i]
<1>. DEFINE G == Whole(new)  W == Whole(old)
<1>1. CASE new = old
  BY <1>1
<1>2. CASE new # old
  <2>1. /\ new \in Seq(Entry) /\ Len(new) \in Nat
        /\ P.base \in Nat /\ P.base <= Len(new) /\ P.base <= Len(old)
        /\ End(P) \in Nat /\ Len(new) = End(P)
        /\ \A i \in 0 .. P.base : Same(G, W, i)
        /\ \A i \in Span(P) : Same(G, P, i)
    BY <1>2, SplicedSame, LenProperties
  <2>2. /\ W \in Piece /\ W.base = 0 /\ Span(W) = 0 .. Len(old) /\ Len(old) \in Nat
    BY WholePiece
  <2>3. G.base = 0
    BY <2>1, WholePiece
  <2>4. k <= End(P)
    <3>1. SUFFICES ASSUME ~(k <= End(P))
                   PROVE  FALSE
      OBVIOUS
    <3>2. \/ Len(old) < End(P)
          \/ \E i \in Span(P) : i <= Len(old) /\ TermIn(W, i) # TermIn(P, i)
      BY <1>2 DEF Spliced
    <3>3. PICK i \in Span(P) : TermIn(W, i) # TermIn(P, i)
      BY <2>1, <2>2, <3>1, <3>2
    <3>4. i <= k
      BY <2>1, <3>1 DEF Span
    <3>. QED BY <3>3, <3>4
  <2>5. ASSUME NEW i \in 1 .. k
        PROVE  new[i] = old[i]
    <3>1. i \in Nat /\ i > 0 /\ i <= Len(new) /\ i <= Len(old)
      BY <2>1, <2>2, <2>4
    <3>2. CASE i <= P.base
      <4>1. Same(G, W, i)
        BY <2>1, <3>1, <3>2
      <4>. QED BY <2>1, <3>1, <4>1, SameEntries
    <3>3. CASE i > P.base
      <4>1. i \in Span(P) /\ i \in Span(W) /\ i <= k
        <5>1. P.base <= i /\ i <= End(P) /\ i <= k /\ i \in 0 .. Len(old)
          BY <2>1, <2>2, <2>4, <3>1, <3>3
        <5>2. i \in P.base .. End(P)
          BY <2>1, <3>1, <5>1
        <5>. QED BY <2>2, <5>1, <5>2 DEF Span
      <4>2. TermIn(W, i) = TermIn(P, i) /\ i <= i
        BY <3>1, <4>1
      <4>3. Same(W, P, i) /\ Same(G, P, i)
        <5>. HIDE DEF W, G
        <5>. QED BY <2>1, <4>1, <4>2, MatchingSame DEF W
      <4>4. Same(G, W, i)
        <5>. HIDE DEF W, G
        <5>. QED BY <2>1, <2>2, <2>3, <3>1, <3>3, <4>3 DEF Same
      <4>. QED BY <2>1, <3>1, <4>4, SameEntries
    <3>. QED BY <2>1, <3>1, <3>2, <3>3
  <2>. QED BY <2>1, <2>4, <2>5
<1>. QED BY <1>1, <1>2

(* What matched the old log and P matches the splice.                      *)
LEMMA SplicedMatching ==
    ASSUME NEW old \in Seq(Entry), NEW new, NEW P \in Piece, Spliced(new, old, P),
           NEW R \in Piece, Matching(Whole(old), R), Matching(P, R)
    PROVE  Matching(Whole(new), R)
<1>. DEFINE G == Whole(new)  W == Whole(old)
<1>1. /\ new \in Seq(Entry) /\ Len(new) \in Nat
      /\ P.base \in Nat /\ P.base <= Len(new) /\ P.base <= Len(old)
      /\ \A i \in 0 .. P.base : Same(G, W, i)
      /\ \A i \in Span(P) : Same(G, P, i)
      /\ new # old => Len(new) = End(P)
  BY SplicedSame, LenProperties
<1>2. W \in Piece /\ W.base = 0 /\ Span(W) = 0 .. Len(old) /\ Len(old) \in Nat
  BY WholePiece
<1>3. G \in Piece /\ G.base = 0 /\ Span(G) = 0 .. Len(new)
  BY <1>1, WholePiece
<1>4. R.base \in Nat /\ End(R) \in Nat /\ Span(R) = R.base .. End(R)
  BY PieceType DEF Span
<1>5. TermIn(W, P.base) = TermIn(P, P.base)
  BY PieceType DEF Spliced
<1>6. P.base \in Span(P)
  BY PieceType
<1>. HIDE DEF G, W
<1>. SUFFICES ASSUME new # old
              PROVE  Matching(G, R)
  BY DEF G
<1>7. Len(new) = End(P) /\ Span(P) = P.base .. End(P)
  BY <1>1 DEF Span
<1>8. Matching(W, R) /\ Matching(P, R)
  BY DEF W
(* Up to the seam.                                                         *)
<1>9. ASSUME NEW i \in Span(G) \cap Span(R), TermIn(G, i) = TermIn(R, i), i <= P.base,
             NEW j \in Span(G) \cap Span(R), j <= i
      PROVE  Same(G, R, j)
  <2>1. i \in 0 .. P.base /\ j \in 0 .. P.base /\ i \in Span(W) /\ j \in Span(W)
    BY <1>1, <1>2, <1>3, <1>9
  <2>2. Same(G, W, i) /\ Same(G, W, j)
    BY <1>1, <2>1
  <2>3. TermIn(W, i) = TermIn(R, i)
    BY <1>9, <2>2 DEF Same
  <2>4. Same(W, R, j)
    BY <1>8, <1>9, <2>1, <2>3, MatchingSame
  <2>. QED BY <1>2, <1>3, <2>2, <2>4 DEF Same
<1>. SUFFICES ASSUME NEW i \in Span(G) \cap Span(R), TermIn(G, i) = TermIn(R, i),
                     NEW j \in Span(G) \cap Span(R), j <= i
              PROVE  Same(G, R, j)
  BY SameMatching
<1>10. CASE i <= P.base
  BY <1>9, <1>10
<1>11. CASE ~(i <= P.base)
  <2>1. i \in Span(P) /\ i \in Nat /\ j \in Nat
    BY <1>1, <1>3, <1>7, <1>11
  <2>2. TermIn(P, i) = TermIn(R, i)
    BY <1>1, <2>1 DEF Same
  <2>3. CASE j > P.base
    <3>1. j \in Span(P)
      BY <1>1, <1>3, <1>7, <2>1, <2>3
    <3>2. Same(P, R, j)
      BY <1>8, <2>1, <2>2, <3>1, MatchingSame
    <3>3. Same(G, P, j)
      BY <1>1, <3>1
    <3>. QED BY <1>1, <1>3, <2>3, <3>2, <3>3 DEF Same
  <2>4. CASE j <= P.base
    <3>. DEFINE b == P.base
    <3>1. b \in Span(P) /\ b \in Span(R) /\ b \in Span(G) /\ b <= i
      BY <1>1, <1>3, <1>4, <1>6, <1>11, <2>1, <2>4
    <3>2. Same(P, R, b)
      <4>. HIDE DEF b
      <4>. QED BY <1>8, <2>1, <2>2, <3>1, MatchingSame
    <3>3. TermIn(G, b) = TermIn(R, b)
      <4>1. Same(G, P, b)
        BY <1>1, <3>1
      <4>. QED BY <3>2, <4>1 DEF Same
    <3>4. b <= P.base /\ j <= b
      BY <1>1, <2>4
    <3>. HIDE DEF b
    <3>. QED BY <1>9, <3>1, <3>3, <3>4
  <2>. QED BY <1>1, <2>1, <2>3, <2>4
<1>. QED BY <1>10, <1>11

(* A splice of well-formed pieces is well-formed.                          *)
LEMMA SplicedWellFormed ==
    ASSUME NEW old \in Seq(Entry), NEW new, NEW P \in Piece, Spliced(new, old, P),
           WellFormed(Whole(old)), WellFormed(P)
    PROVE  WellFormed(Whole(new))
<1>. DEFINE G == Whole(new)  W == Whole(old)  b == P.base
<1>1. /\ new \in Seq(Entry) /\ Len(new) \in Nat
      /\ b \in Nat /\ b <= Len(new) /\ b <= Len(old)
      /\ \A i \in 0 .. b : TermIn(G, i) = TermIn(W, i)
      /\ \A i \in Span(P) : TermIn(G, i) = TermIn(P, i)
      /\ new # old => Len(new) = End(P)
  BY SplicedSame, LenProperties DEF Same
<1>2. W \in Piece /\ Span(W) = 0 .. Len(old) /\ Len(old) \in Nat
  BY WholePiece
<1>3. G \in Piece /\ Span(G) = 0 .. Len(new) /\ \A i \in Span(G) : TermIn(G, i) \in Nat
  BY <1>1, WholePiece, PieceType
<1>. HIDE DEF G, W
<1>. SUFFICES ASSUME new # old
              PROVE  WellFormed(G)
  BY DEF G
<1>4. Span(P) = b .. Len(new) /\ b \in Span(P)
  BY <1>1, PieceType DEF Span
<1>. HIDE DEF b
<1>5. ASSUME NEW i \in Span(G)
      PROVE  TermIn(G, i) = 0 <=> i = 0
  <2>1. CASE i <= b
    BY <1>1, <1>2, <1>3, <2>1 DEF WellFormed, W
  <2>2. CASE i > b
    BY <1>1, <1>3, <1>4, <2>2 DEF WellFormed
  <2>. QED BY <1>1, <1>3, <2>1, <2>2
<1>6. ASSUME NEW i \in Span(G), NEW j \in Span(G), i <= j
      PROVE  TermIn(G, i) <= TermIn(G, j)
  <2>0. i \in Nat /\ j \in Nat
    BY <1>3
  <2>1. CASE j <= b
    <3>1. i \in 0 .. b /\ j \in 0 .. b /\ i \in Span(W) /\ j \in Span(W)
      BY <1>1, <1>2, <1>6, <2>0, <2>1
    <3>. QED BY <1>1, <1>6, <3>1 DEF WellFormed, W
  <2>2. CASE i >= b
    <3>1. i \in Span(P) /\ j \in Span(P)
      BY <1>1, <1>3, <1>4, <1>6, <2>0, <2>2
    <3>. QED BY <1>1, <1>6, <3>1 DEF WellFormed
  <2>3. CASE i < b /\ b < j
    <3>1. i \in 0 .. b /\ b \in 0 .. b /\ i \in Span(W) /\ b \in Span(W) /\ j \in Span(P) /\ b \in Span(G)
      BY <1>1, <1>2, <1>3, <1>4, <2>0, <2>3
    <3>2. TermIn(G, i) <= TermIn(G, b)
      BY <1>1, <2>0, <2>3, <3>1 DEF WellFormed, W
    <3>3. TermIn(G, b) <= TermIn(G, j)
      BY <1>1, <1>4, <2>0, <2>3, <3>1 DEF WellFormed
    <3>. QED BY <1>3, <3>1, <3>2, <3>3
  <2>. QED BY <1>1, <2>0, <2>1, <2>2, <2>3
<1>. QED BY <1>5, <1>6 DEF WellFormed

-----------------------------------------------------------------------------
(* The invariant, its types, and the elections.                            *)

Inv == StorageInv /\ HonestCount /\ LogInv

LEMMA InvTypes ==
    ASSUME Inv
    PROVE  /\ TypeInv /\ TypeOK /\ NothingCompacted /\ Durable /\ HonestCount /\ LogInv
           /\ \A s \in Server : lastIncludedIndex[s] = 0 /\ lastIncludedTerm[s] = 0
BY DEF Inv, StorageInv, TypeInv, NothingCompacted

LEMMA AppendFields ==
    ASSUME NEW m \in AppendRequest
    PROVE  LET n == [m EXCEPT !.live = FALSE]
           IN  /\ n \in AppendRequest /\ n.type = m.type
               /\ n.from = m.from /\ n.to = m.to /\ n.term = m.term
               /\ n.preLogIndex = m.preLogIndex /\ n.preLogTerm = m.preLogTerm
               /\ n.entries = m.entries /\ n.leaderCommit = m.leaderCommit
               /\ Sent(n) = Sent(m)
BY DEF AppendRequest, Sent

LEMMA AppendsTyped ==
    ASSUME TypeOK, NEW m \in Appends
    PROVE  /\ m \in AppendRequest
           /\ m.type = "AppendEntries"
           /\ m.from \in Server /\ m.to \in Server /\ m.term \in Nat
           /\ m.leaderCommit \in Nat
           /\ Sent(m) \in Piece /\ Sent(m) \in Pieces
<1>1. PICK n \in messages : n.type = "AppendEntries" /\ m = [n EXCEPT !.live = FALSE]
  BY DEF Appends
<1>2. n \in AppendRequest
  BY <1>1, MessageTypes DEF TypeOK
<1>3. m \in AppendRequest
  BY <1>1, <1>2, AppendFields
<1>4. Sent(m) \in Pieces
  BY DEF Pieces
<1>. QED BY <1>3, <1>4, SentPiece DEF AppendRequest

(* A call in the network, whoever waits for its reply, is among Appends.   *)
LEMMA CallSeen ==
    ASSUME TypeOK, NEW m \in messages, m.type = "AppendEntries"
    PROVE  /\ m \in AppendRequest
           /\ \E n \in Appends : /\ n.from = m.from /\ n.to = m.to /\ n.term = m.term
                                 /\ n.leaderCommit = m.leaderCommit
                                 /\ Sent(n) = Sent(m)
<1>1. m \in AppendRequest
  BY MessageTypes DEF TypeOK
<1>2. [m EXCEPT !.live = FALSE] \in Appends
  BY DEF Appends
<1>. QED BY <1>1, <1>2, AppendFields

LEMMA PiecesTyped ==
    ASSUME TypeOK
    PROVE  /\ Pieces \subseteq Piece
           /\ \A s \in Server : log[s] \in Seq(Entry) /\ Whole(log[s]) \in Pieces
           /\ \A m \in Appends : Sent(m) \in Pieces
           /\ \A s \in Server : currentTerm[s] \in Nat
<1>1. \A s \in Server : log[s] \in Seq(Entry) /\ currentTerm[s] \in Nat
  BY DEF TypeOK
<1>2. \A s \in Server : Whole(log[s]) \in Piece
  BY <1>1, WholePiece
<1>3. \A m \in Appends : Sent(m) \in Piece
  BY AppendsTyped
<1>. QED BY <1>1, <1>2, <1>3 DEF Pieces

(* The operators of Raft in terms of pieces.                               *)
LEMMA LogAsPiece ==
    ASSUME TypeOK, NEW s \in Server, lastIncludedIndex[s] = 0, lastIncludedTerm[s] = 0
    PROVE  /\ LastLogIndex(s) = Len(log[s]) /\ Len(log[s]) \in Nat
           /\ \A i \in 0 .. Len(log[s]) : TermAt(s, i) = TermIn(Whole(log[s]), i)
           /\ LastLogTerm(s) = LastTerm(Whole(log[s]))
<1>1. log[s] \in Seq(Entry) /\ Len(log[s]) \in Nat
  BY DEF TypeOK
<1>2. LastLogIndex(s) = Len(log[s])
  BY <1>1 DEF LastLogIndex
<1>3. /\ End(Whole(log[s])) = Len(log[s]) /\ TermIn(Whole(log[s]), 0) = 0
      /\ \A i \in 1 .. Len(log[s]) : TermIn(Whole(log[s]), i) = log[s][i].term
  BY <1>1, WholePiece
<1>4. ASSUME NEW i \in 0 .. Len(log[s])
      PROVE  TermAt(s, i) = TermIn(Whole(log[s]), i)
  <2>1. CASE i = 0
    BY <1>3, <2>1 DEF TermAt
  <2>2. CASE i # 0
    <3>1. i \in 1 .. Len(log[s]) /\ i - 0 = i
      BY <1>1, <2>2
    <3>. QED BY <1>3, <2>2, <3>1 DEF TermAt
  <2>. QED BY <2>1, <2>2
<1>. QED BY <1>1, <1>2, <1>3, <1>4 DEF LastLogTerm, LastTerm

(* Wherever an entry of a later term is, it is further up.                 *)
LEMMA TermsGrowIn ==
    ASSUME NEW R \in Piece, WellFormed(R)
    PROVE  /\ \A i \in Span(R) : TermIn(R, i) <= LastTerm(R)
           /\ \A k \in Span(R) : Beyond(R, k, TermIn(R, k))
<1>1. /\ End(R) \in Nat /\ End(R) \in Span(R) /\ LastTerm(R) \in Nat
      /\ Span(R) \subseteq Nat /\ \A i \in Span(R) : TermIn(R, i) \in Nat /\ i <= End(R)
  BY PieceType DEF Span
<1>2. \A i \in Span(R) : TermIn(R, i) <= LastTerm(R)
  BY <1>1 DEF WellFormed, LastTerm
<1>. QED BY <1>1, <1>2 DEF Beyond

(* Two logs that have an entry of the same term at k begin alike.          *)
LEMMA MatchingLogs ==
    ASSUME NEW l \in Seq(Entry), NEW n \in Seq(Entry), Matching(Whole(l), Whole(n)),
           NEW k \in Nat, k <= Len(l), k <= Len(n), TermIn(Whole(l), k) = TermIn(Whole(n), k)
    PROVE  \A i \in 1 .. k : l[i] = n[i]
<1>. SUFFICES ASSUME NEW i \in 1 .. k
              PROVE  l[i] = n[i]
  OBVIOUS
<1>1. Span(Whole(l)) = 0 .. Len(l) /\ Span(Whole(n)) = 0 .. Len(n) /\ Len(l) \in Nat /\ Len(n) \in Nat
  BY WholePiece
<1>2. /\ i \in Span(Whole(l)) \cap Span(Whole(n)) /\ k \in Span(Whole(l)) \cap Span(Whole(n))
      /\ i <= k /\ i \in Nat /\ i > 0 /\ i <= Len(l) /\ i <= Len(n)
  BY <1>1
<1>3. Same(Whole(l), Whole(n), i)
  BY <1>2, MatchingSame
<1>. QED BY <1>2, <1>3, SameEntries

-----------------------------------------------------------------------------
(* Majorities.                                                             *)

LEMMA MajoritiesMeet ==
    ASSUME NEW P \in SUBSET Server, NEW Q \in SUBSET Server,
           Majority(Cardinality(P)), Majority(Cardinality(Q))
    PROVE  \E x \in Server : x \in P /\ x \in Q
<1>1. Cardinality(P) \in Nat /\ Cardinality(Q) \in Nat /\ Cardinality(Server) \in Nat
  BY ServerAssumption, FS_Subset, FS_CardinalityType
<1>2. Cardinality(P) + Cardinality(Q) > Cardinality(Server)
  BY <1>1 DEF Majority
<1>. QED BY <1>2, ServerAssumption, FS_MajoritiesIntersect

-----------------------------------------------------------------------------
(* Who was elected, stays so.                                              *)

(* What every step does to the votes.                                      *)
StepVotes ==
    /\ \A v \in Server : Kept(v)
    /\ \A t \in Server : state'[t] = "candidate" =>
          \/ state[t] = "candidate" /\ currentTerm'[t] = currentTerm[t]
          \/ currentTerm'[t] > currentTerm[t]
    /\ \A t \in Server : Running(t)' =>
          \/ /\ Running(t) /\ currentTerm'[t] = currentTerm[t]
             /\ \A v \in voters'[t] : v \in voters[t] \/
                   \E m \in messages : IsVote(m) /\ m.from = v /\ m.to = t /\ m.argsTerm = currentTerm[t]
          \/ currentTerm'[t] > currentTerm[t] /\ voters'[t] = {t}
    /\ \A m \in messages' : IsVote(m) =>
          m \in messages \/ (currentTerm'[m.from] = m.argsTerm /\ votedFor'[m.from] = m.to)

LEMMA LedStable ==
    ASSUME TypeOK, TypeOK', StepVotes, NEW l \in Server, NEW term \in Nat, Led(l, term)
    PROVE  Led(l, term)'
<1>0. \A v \in Server : currentTerm[v] \in Nat /\ currentTerm'[v] \in Nat
  BY DEF TypeOK
<1>1. /\ \A v \in Server : currentTerm[v] \in Nat /\ currentTerm'[v] \in Nat
      /\ \A v \in Server : currentTerm'[v] >= currentTerm[v]
  BY <1>0 DEF StepVotes, Kept
<1>2. currentTerm'[l] >= term
  BY <1>1 DEF Led
<1>3. ASSUME currentTerm'[l] = term
      PROVE  state'[l] # "candidate"
  <2>1. currentTerm[l] = term /\ state[l] # "candidate"
    BY <1>1, <1>3 DEF Led
  <2>. QED BY <1>1, <1>3, <2>1 DEF StepVotes
<1>4. PICK Q \in SUBSET Server :
        /\ Majority(Cardinality(Q))
        /\ \A v \in Q :
              /\ Cast(v, l, term)
              /\ \A t \in Server : Running(t) /\ currentTerm[t] = term /\ t # l => v \notin voters[t]
              /\ \A m \in messages : IsVote(m) /\ m.from = v /\ m.argsTerm = term => m.to = l
  BY DEF Led
<1>5. ASSUME NEW v \in Q
      PROVE  /\ Cast(v, l, term)'
             /\ \A t \in Server : Running(t)' /\ currentTerm'[t] = term /\ t # l => v \notin voters'[t]
             /\ \A m \in messages' : IsVote(m) /\ m.from = v /\ m.argsTerm = term => m.to = l
  <2>1. Cast(v, l, term)'
    BY <1>4, CastKept DEF StepVotes
  <2>2. ASSUME NEW t \in Server, Running(t)', currentTerm'[t] = term, t # l
        PROVE  v \notin voters'[t]
    <3>1. CASE /\ Running(t) /\ currentTerm'[t] = currentTerm[t]
               /\ \A w \in voters'[t] : w \in voters[t] \/
                    \E m \in messages : IsVote(m) /\ m.from = w /\ m.to = t /\ m.argsTerm = currentTerm[t]
      BY <1>4, <2>2, <3>1
    <3>2. CASE currentTerm'[t] > currentTerm[t] /\ voters'[t] = {t}
      <4>1. SUFFICES ASSUME v = t
                     PROVE  FALSE
        BY <3>2
      <4>2. currentTerm[t] >= term
        BY <1>1, <1>4, <4>1 DEF Cast
      <4>. QED BY <1>1, <2>2, <3>2, <4>2
    <3>. QED BY <2>2, <3>1, <3>2 DEF StepVotes
  <2>3. ASSUME NEW m \in messages', IsVote(m), m.from = v, m.argsTerm = term
        PROVE  m.to = l
    <3>1. CASE m \in messages
      BY <1>4, <2>3, <3>1
    <3>2. CASE currentTerm'[m.from] = m.argsTerm /\ votedFor'[m.from] = m.to
      BY <1>1, <2>1, <2>3, <3>2 DEF Cast
    <3>. QED BY <2>3, <3>1, <3>2 DEF StepVotes
  <2>. QED BY <2>1, <2>2, <2>3
<1>. QED BY <1>2, <1>3, <1>4, <1>5 DEF Led, IsVote

(* Nobody else can be elected.                                             *)
LEMMA LedAlone ==
    ASSUME TypeOK, HonestCount, NEW c \in Server, Running(c), Majority(Cardinality(voters[c])),
           NEW l \in Server, Led(l, currentTerm[c])
    PROVE  l = c /\ state[c] = "leader"
<1>1. PICK Q \in SUBSET Server :
        /\ Majority(Cardinality(Q))
        /\ \A v \in Q : \A t \in Server :
              Running(t) /\ currentTerm[t] = currentTerm[c] /\ t # l => v \notin voters[t]
  BY DEF Led
<1>2. voters[c] \in SUBSET Server
  BY DEF TypeOK
<1>3. PICK v \in Server : v \in Q /\ v \in voters[c]
  BY <1>1, <1>2, MajoritiesMeet
<1>4. l = c
  BY <1>1, <1>3
<1>5. state[c] # "candidate"
  BY <1>4 DEF Led
<1>. QED BY <1>4, <1>5 DEF Running

LEMMA LeaderElected ==
    ASSUME TypeOK, HonestCount, NEW s \in Server, state[s] = "leader"
    PROVE  Running(s) /\ Majority(Cardinality(voters[s]))
BY DEF HonestCount, VotesCounted, Running

LEMMA LeaderAlone ==
    ASSUME TypeOK, HonestCount, NEW s \in Server, state[s] = "leader",
           NEW l \in Server, Led(l, currentTerm[s])
    PROVE  l = s
BY LeaderElected, LedAlone

(* Who voted for a candidate of a later term has reached it.               *)
LEMMA VotedTerm ==
    ASSUME TypeOK, HonestCount, NEW x \in Server, NEW c \in Server, Contends(c), Voted(x, c)
    PROVE  currentTerm[x] >= currentTerm[c]
<1>1. state[c] = "candidate" /\ Running(c) /\ currentTerm[c] \in Nat /\ currentTerm[x] \in Nat
  BY DEF Contends, Running, TypeOK
<1>2. CASE x \in voters[c]
  BY <1>1, <1>2 DEF HonestCount, VotesCast, Cast
<1>3. ASSUME NEW m \in messages, IsVote(m), m.from = x, m.to = c
      PROVE  currentTerm[x] >= currentTerm[c]
  <2>1. IsBallot(m, c, x) /\ m.type = "RequestVoteReply"
    BY <1>3 DEF IsBallot, IsVote
  <2>2. m.argsTerm = currentTerm[c]
    BY <1>1, <2>1 DEF HonestCount, BallotsCurrent
  <2>3. Cast(x, c, m.argsTerm)
    BY <1>3 DEF HonestCount, VotesCast
  <2>. QED BY <1>1, <2>2, <2>3 DEF Cast
<1>. QED BY <1>2, <1>3 DEF Voted

-----------------------------------------------------------------------------
(* One step: what it may assume, and what it must not do to the pieces.    *)

(* The votes, terms and types after a step, as shown so far.               *)
Step == Inv /\ StorageInv' /\ HonestCount' /\ NothingHalfDone' /\ StepVotes

LeadersKept ==
    \A s \in Server : state'[s] = "leader" =>
        state[s] = "leader" /\ currentTerm'[s] = currentTerm[s]

(* A candidate that may still win keeps its log, and who votes for it now  *)
(* has not more in its own.                                                *)
VotesJustified ==
    \A c \in Server : Contends(c)' =>
        /\ log'[c] = log[c]
        /\ \A x \in Server : Voted(x, c)' =>
              \/ Contends(c) /\ Voted(x, c) /\ currentTerm'[c] = currentTerm[c]
              \/ Beyond(Whole(log[c]), Len(log[x]), LastTerm(Whole(log[x])))

(* New requests for votes describe the log of the candidate.               *)
Requested ==
    \A m \in messages' : m.type = "RequestVote" =>
        \/ \E n \in messages :
              /\ n.type = "RequestVote" /\ n.from = m.from /\ n.term = m.term
              /\ n.lastLogIndex = m.lastLogIndex /\ n.lastLogTerm = m.lastLogTerm
        \/ /\ m.from \in Server /\ m.term <= currentTerm'[m.from]
           /\ m.lastLogIndex = Len(log[m.from])
           /\ m.lastLogTerm = LastTerm(Whole(log[m.from]))

(* New replies answer a call, and a refusal points into what was sent.     *)
Replied ==
    \A m \in messages' : m.type = "AppendEntriesReply" =>
        \/ m \in messages
        \/ \E n \in Appends :
              /\ m.to = n.from /\ m.from = n.to /\ m.argsTerm = n.term
              /\ m.success \/ m.term > n.term \/ m.conflictIndex <= End(Sent(n))

(* A leader's matchIndex comes from replies, its nextIndex is in its log.  *)
PeersKnown ==
    \A s, x \in Server : state'[s] = "leader" /\ s # x =>
        Acks(s, x)' \subseteq Acks(s, x) \cup {0}
NextKnown ==
    \A s, x \in Server : state'[s] = "leader" => nextIndex'[s][x] <= Len(log[s]) + 1

(* A step that appends nothing, and elects nobody.                         *)
Quiet ==
    /\ UNCHANGED log
    /\ Appends' = Appends
    /\ LeadersKept /\ VotesJustified /\ PeersKnown

LEMMA StepTypes ==
    ASSUME Step
    PROVE  /\ TypeOK /\ TypeOK' /\ Inv /\ LogInv /\ HonestCount /\ HonestCount' /\ StepVotes
           /\ \A s \in Server : /\ currentTerm[s] \in Nat /\ currentTerm'[s] \in Nat
                                /\ currentTerm'[s] >= currentTerm[s]
                                /\ log[s] \in Seq(Entry) /\ log'[s] \in Seq(Entry)
                                /\ Len(log[s]) \in Nat /\ Len(log'[s]) \in Nat
                                /\ lastIncludedIndex[s] = 0 /\ lastIncludedTerm[s] = 0
<1>1. TypeOK /\ TypeOK'
  BY InvTypes DEF Step, StorageInv, TypeInv
<1>2. \A s \in Server : /\ currentTerm[s] \in Nat /\ currentTerm'[s] \in Nat
                        /\ log[s] \in Seq(Entry) /\ log'[s] \in Seq(Entry)
  BY <1>1 DEF TypeOK
<1>3. \A s \in Server : currentTerm'[s] >= currentTerm[s]
  BY <1>2 DEF Step, StepVotes, Kept
<1>. QED BY <1>1, <1>2, <1>3, InvTypes DEF Step

LEMMA LedStays ==
    ASSUME Step, NEW l \in Server, NEW term \in Nat, Led(l, term)
    PROVE  Led(l, term)'
BY StepTypes, LedStable

(* A step that touches no candidate or leader.                             *)
LEMMA CalmVotes ==
    ASSUME TypeOK, Calm
    PROVE  /\ StepVotes
           /\ LeadersKept
           /\ \A m \in messages' : IsVote(m) => m \in messages
<1>1. \A m \in messages' : IsVote(m) => m \in messages
  BY DEF Calm, NoNewBallot, IsVote, IsVoteMessage
<1>2. \A t \in Server : Running(t)' => Running(t) /\ ElectionsUnchanged(t)
  BY DEF Calm, Running, ElectionsUnchanged
<1>. QED BY <1>1, <1>2 DEF StepVotes, LeadersKept, ElectionsUnchanged, Calm, Running

LEMMA CalmContenders ==
    ASSUME TypeOK, Calm, Appends \subseteq Appends', NEW c \in Server, Contends(c)'
    PROVE  /\ Contends(c) /\ currentTerm'[c] = currentTerm[c]
           /\ \A x \in Server : Voted(x, c)' => Voted(x, c)
<1>1. ElectionsUnchanged(c)
  BY DEF Calm, Contends, Running
<1>2. Contends(c)
  BY <1>1 DEF Contends, ElectionsUnchanged
<1>3. ASSUME NEW x \in Server, Voted(x, c)'
      PROVE  Voted(x, c)
  BY <1>1, <1>3, CalmVotes DEF Voted, ElectionsUnchanged, IsVote
<1>. QED BY <1>1, <1>2, <1>3 DEF ElectionsUnchanged

LEMMA CalmJustified ==
    ASSUME TypeOK, Calm, Appends \subseteq Appends',
           \A c \in Server : Contends(c)' => log'[c] = log[c]
    PROVE  VotesJustified
BY CalmContenders DEF VotesJustified

LEMMA CalmRequested ==
    ASSUME TypeOK, Calm
    PROVE  Requested
<1>. SUFFICES ASSUME NEW m \in messages', m.type = "RequestVote", m \notin messages
              PROVE  \E n \in messages :
                        /\ n.type = "RequestVote" /\ n.from = m.from /\ n.term = m.term
                        /\ n.lastLogIndex = m.lastLogIndex /\ n.lastLogTerm = m.lastLogTerm
  BY DEF Requested
<1>1. PICK n \in messages : n.type = "RequestVote" /\ m = [n EXCEPT !.live = FALSE]
  BY DEF Calm, NoNewBallot, IsVoteMessage
<1>2. n \in VoteRequest
  BY <1>1, MessageTypes DEF TypeOK
<1>3. /\ n.from = m.from /\ n.term = m.term
      /\ n.lastLogIndex = m.lastLogIndex /\ n.lastLogTerm = m.lastLogTerm
  BY <1>1, <1>2 DEF VoteRequest
<1>. QED BY <1>1, <1>3

-----------------------------------------------------------------------------
(* The calls in the network.                                               *)

LEMMA SameAppends ==
    ASSUME \A m \in messages' : m.type = "AppendEntries" =>
              \E n \in messages : n.type = "AppendEntries" /\ [m EXCEPT !.live = FALSE] = [n EXCEPT !.live = FALSE],
           \A m \in messages : m.type = "AppendEntries" =>
              \E n \in messages' : n.type = "AppendEntries" /\ [m EXCEPT !.live = FALSE] = [n EXCEPT !.live = FALSE]
    PROVE  Appends' = Appends
<1>1. ASSUME NEW a \in Appends
      PROVE  a \in Appends'
  <2>1. PICK m \in messages : m.type = "AppendEntries" /\ a = [m EXCEPT !.live = FALSE]
    BY DEF Appends
  <2>2. PICK n \in messages' : n.type = "AppendEntries" /\ [m EXCEPT !.live = FALSE] = [n EXCEPT !.live = FALSE]
    BY <2>1
  <2>. QED BY <2>1, <2>2 DEF Appends
<1>2. ASSUME NEW a \in Appends'
      PROVE  a \in Appends
  <2>1. PICK m \in messages' : m.type = "AppendEntries" /\ a = [m EXCEPT !.live = FALSE]
    BY DEF Appends
  <2>2. PICK n \in messages : n.type = "AppendEntries" /\ [m EXCEPT !.live = FALSE] = [n EXCEPT !.live = FALSE]
    BY <2>1
  <2>. QED BY <2>1, <2>2 DEF Appends
<1>. QED BY <1>1, <1>2

(* Messages of other types come and go.                                    *)
LEMMA OtherMessages ==
    ASSUME \A m \in messages' : m.type = "AppendEntries" => m \in messages,
           \A m \in messages : m.type = "AppendEntries" => m \in messages'
    PROVE  Appends' = Appends
BY SameAppends

(* Whoever abandons its calls leaves them in the network.                  *)
LEMMA AbandonedAppends ==
    ASSUME TypeOK, NEW s, NEW B, \A b \in B : b.type # "AppendEntries",
           messages' = Abandon(s, messages) \cup B
    PROVE  Appends' = Appends
<1>0. ASSUME NEW m \in messages, m.type = "AppendEntries", NEW n, n = [m EXCEPT !.live = FALSE]
      PROVE  n.type = "AppendEntries" /\ [m EXCEPT !.live = FALSE] = [n EXCEPT !.live = FALSE]
  <2>1. m \in AppendRequest
    BY <1>0, MessageTypes DEF TypeOK
  <2>. QED BY <1>0, <2>1 DEF AppendRequest
<1>1. ASSUME NEW m \in messages', m.type = "AppendEntries"
      PROVE  \E n \in messages : n.type = "AppendEntries" /\ [m EXCEPT !.live = FALSE] = [n EXCEPT !.live = FALSE]
  <2>1. CASE m \in messages
    BY <1>1, <2>1
  <2>2. CASE m \notin messages
    <3>1. PICK n \in messages : IsRequest(n) /\ n.live /\ m = [n EXCEPT !.live = FALSE]
      BY <1>1, <2>2 DEF Abandon
    <3>2. m.type = n.type
      BY <3>1, AbandonedDead DEF TypeOK
    <3>. QED BY <1>0, <1>1, <3>1, <3>2
  <2>. QED BY <2>1, <2>2
<1>2. ASSUME NEW m \in messages, m.type = "AppendEntries"
      PROVE  \E n \in messages' : n.type = "AppendEntries" /\ [m EXCEPT !.live = FALSE] = [n EXCEPT !.live = FALSE]
  <2>1. IsRequest(m)
    BY <1>2 DEF IsRequest
  <2>2. CASE m \in messages'
    BY <1>2, <2>2
  <2>3. CASE m \notin messages'
    <3>1. [m EXCEPT !.live = FALSE] \in messages'
      BY <2>1, <2>3 DEF Abandon
    <3>. QED BY <1>0, <1>2, <3>1
  <2>. QED BY <2>2, <2>3
<1>. QED BY <1>1, <1>2, SameAppends

(* What a leader is told does not grow.                                    *)
LEMMA AcksKept ==
    ASSUME LeadersKept, NEW s \in Server, NEW x \in Server, state'[s] = "leader",
           \A m \in messages' : m.type = "AppendEntriesReply" /\ m.success => m \in messages,
           matchIndex'[s][x] \in Acks(s, x) \cup {0}
    PROVE  Acks(s, x)' \subseteq Acks(s, x) \cup {0}
<1>. SUFFICES ASSUME NEW a \in Acks(s, x)', a # matchIndex'[s][x]
              PROVE  a \in Acks(s, x)
  OBVIOUS
<1>1. PICK m \in messages' : IsAppendReply(m, s, x)' /\ m.success /\ a = m.match
  BY DEF Acks
<1>2. m \in messages /\ IsAppendReply(m, s, x)
  BY <1>1 DEF IsAppendReply, LeadersKept
<1>. QED BY <1>1, <1>2 DEF Acks

LEMMA AcksTyped ==
    ASSUME TypeOK, NEW s \in Server, NEW x \in Server
    PROVE  /\ Acks(s, x) \subseteq Nat /\ matchIndex[s][x] \in Acks(s, x)
           /\ Ackers(s, 0) \subseteq Server
           /\ \A m \in messages : m.type = "AppendEntriesReply" => m \in AppendReply
<1>1. \A m \in messages : m.type = "AppendEntriesReply" => m \in AppendReply
  BY MessageTypes DEF TypeOK
<1>2. matchIndex[s][x] \in Nat
  BY DEF TypeOK
<1>3. \A m \in messages : IsAppendReply(m, s, x) => m.match \in Nat
  BY <1>1 DEF IsAppendReply, AppendReply
<1>. QED BY <1>1, <1>2, <1>3 DEF Acks, Ackers

-----------------------------------------------------------------------------
(* What lasts.                                                             *)

LEMMA HasWhole ==
    ASSUME NEW l \in Seq(Entry), NEW k \in Nat, NEW term
    PROVE  Has(Whole(l), k, term) <=> k <= Len(l) /\ TermIn(Whole(l), k) = term
<1>1. End(Whole(l)) = Len(l) /\ Whole(l).base = 0
  BY WholePiece
<1>. QED BY <1>1 DEF Has

LEMMA BeginsWith ==
    ASSUME NEW l \in Seq(Entry), NEW L \in Seq(Entry), L # << >>, Begins(l, L)
    PROVE  /\ Len(L) \in Nat /\ Len(L) > 0 /\ Len(L) <= Len(l)
           /\ L[Len(L)].term \in Nat
           /\ \A i \in 1 .. Len(L) : TermIn(Whole(l), i) = L[i].term
           /\ TermIn(Whole(l), Len(L)) = L[Len(L)].term
           /\ Len(L) \in Span(Whole(l))
           /\ Has(Whole(l), Len(L), L[Len(L)].term)
<1>1. Len(L) \in Nat /\ Len(L) > 0 /\ Len(L) <= Len(l) /\ Len(l) \in Nat /\ Len(L) \in 1 .. Len(L)
  BY EmptySeq DEF Begins
<1>2. /\ Span(Whole(l)) = 0 .. Len(l)
      /\ \A i \in 1 .. Len(l) : TermIn(Whole(l), i) = l[i].term
      /\ \A i \in 1 .. Len(L) : L[i].term \in Nat
  BY WholePiece
<1>3. \A i \in 1 .. Len(L) : i \in 1 .. Len(l) /\ l[i] = L[i]
  BY <1>1 DEF Begins
<1>4. \A i \in 1 .. Len(L) : TermIn(Whole(l), i) = L[i].term
  BY <1>2, <1>3
<1>5. TermIn(Whole(l), Len(L)) = L[Len(L)].term /\ Len(L) \in Span(Whole(l)) /\ L[Len(L)].term \in Nat
  BY <1>1, <1>2, <1>4
<1>6. Has(Whole(l), Len(L), L[Len(L)].term)
  BY <1>1, <1>5, HasWhole
<1>. QED BY <1>1, <1>4, <1>5, <1>6

(* L is the log l up to its entry n.                                       *)
UpTo(L, l, n) ==
    /\ L \in Seq(Entry) /\ L # << >> /\ Len(L) = n /\ Begins(l, L)
    /\ L[Len(L)] = l[n]

LEMMA PrefixUpTo ==
    ASSUME NEW l \in Seq(Entry), NEW n \in Nat, n > 0, n <= Len(l)
    PROVE  UpTo(SubSeq(l, 1, n), l, n)
<1>. DEFINE L == SubSeq(l, 1, n)
<1>1. /\ L \in Seq(Entry)
      /\ Len(L) = n
      /\ \A i \in 1 .. n : L[i] = l[i]
  BY Prefix
<1>2. L # << >>
  <2>. HIDE DEF L
  <2>. QED BY <1>1, EmptySeq
<1>. HIDE DEF L
<1>3. Begins(l, L) /\ L[Len(L)] = l[n]
  BY <1>1 DEF Begins
<1>4. UpTo(L, l, n)
  BY <1>1, <1>2, <1>3 DEF UpTo
<1>. QED BY <1>4 DEF L

LEMMA PrefixIs ==
    ASSUME NEW l \in Seq(Entry), NEW L \in Seq(Entry), Begins(l, L)
    PROVE  SubSeq(l, 1, Len(L)) = L
<1>1. Len(L) \in Nat /\ Len(L) <= Len(l)
  BY DEF Begins
<1>2. /\ SubSeq(l, 1, Len(L)) \in Seq(Entry)
      /\ Len(SubSeq(l, 1, Len(L))) = Len(L)
      /\ \A i \in 1 .. Len(L) : SubSeq(l, 1, Len(L))[i] = l[i]
  BY <1>1, Prefix
<1>. QED BY <1>2, SeqEqual DEF Begins

(* A longer log has all that a shorter one has.                            *)
LEMMA BeyondTransitive ==
    ASSUME NEW R \in Piece, NEW k \in Nat, NEW term \in Nat, NEW n \in Nat, NEW t \in Nat,
           Beyond(R, n, t), t > term \/ (t = term /\ n >= k)
    PROVE  Beyond(R, k, term)
<1>1. LastTerm(R) \in Nat /\ End(R) \in Nat
  BY PieceType
<1>. QED BY <1>1 DEF Beyond

LEMMA WholeBeyond ==
    ASSUME NEW l \in Seq(Entry), WellFormed(Whole(l)), NEW k \in 0 .. Len(l)
    PROVE  LET t == LastTerm(Whole(l)) u == TermIn(Whole(l), k)
           IN  t \in Nat /\ u \in Nat /\ (t > u \/ (t = u /\ Len(l) >= k))
<1>1. Whole(l) \in Piece /\ Span(Whole(l)) = 0 .. Len(l) /\ Len(l) \in Nat
  BY WholePiece
<1>2. LastTerm(Whole(l)) \in Nat /\ TermIn(Whole(l), k) \in Nat
  BY <1>1, PieceType
<1>3. TermIn(Whole(l), k) <= LastTerm(Whole(l))
  BY <1>1, TermsGrowIn
<1>. QED BY <1>1, <1>2, <1>3

(* Who holds L goes on doing so, and votes only for those that do.         *)
LEMMA HeldOn ==
    ASSUME Step, VotesJustified, NEW L \in Seq(Entry), L # << >>, NEW x \in Server,
           HeldBy(x, L), Inherited(Len(L), L[Len(L)].term), Begins(log'[x], L)
    PROVE  HeldBy(x, L)'
<1>. SUFFICES ASSUME NEW c \in Server, Contends(c)', currentTerm'[c] > L[Len(L)].term, Voted(x, c)'
              PROVE  Has(Whole(log'[c]), Len(L), L[Len(L)].term)
  BY DEF HeldBy, Contends, Voted, Has, Whole, End, TermIn, EntryIn
<1>1. log'[c] = log[c]
  BY DEF VotesJustified
<1>2. CASE Contends(c) /\ Voted(x, c) /\ currentTerm'[c] = currentTerm[c]
  BY <1>1, <1>2 DEF HeldBy
<1>3. CASE Beyond(Whole(log[c]), Len(log[x]), LastTerm(Whole(log[x])))
  <2>1. /\ log[x] \in Seq(Entry) /\ log[c] \in Seq(Entry) /\ TypeOK /\ LogInv
        /\ Whole(log[c]) \in Piece /\ Whole(log[c]) \in Pieces /\ Whole(log[x]) \in Pieces
        /\ Len(log[x]) \in Nat
    BY StepTypes, PiecesTyped, WholePiece
  <2>2. /\ Len(L) \in 0 .. Len(log[x]) /\ Len(L) \in Nat
        /\ TermIn(Whole(log[x]), Len(L)) = L[Len(L)].term /\ L[Len(L)].term \in Nat
    BY <2>1, BeginsWith DEF HeldBy
  <2>3. WellFormed(Whole(log[x]))
    BY <2>1 DEF LogInv, TermsBounded
  <2>4. PICK t : t = LastTerm(Whole(log[x]))
    OBVIOUS
  <2>5. t \in Nat /\ (t > L[Len(L)].term \/ (t = L[Len(L)].term /\ Len(log[x]) >= Len(L)))
    BY <2>1, <2>2, <2>3, <2>4, WholeBeyond
  <2>6. Beyond(Whole(log[c]), Len(L), L[Len(L)].term)
    BY <1>3, <2>1, <2>2, <2>4, <2>5, BeyondTransitive
  <2>. QED BY <1>1, <2>1, <2>6 DEF Inherited
<1>. QED BY <1>2, <1>3 DEF VotesJustified

(* Of a log that a server has, what is secure stays secure.                *)
LEMMA SecureOn ==
    ASSUME Step, VotesJustified, NEW L \in Seq(Entry), L # << >>, NEW A \in SUBSET Server,
           Secure(A, L), Inherited(Len(L), L[Len(L)].term)', Uncontradicted(L)',
           \A x \in A : Begins(log'[x], L)
    PROVE  Secure(A, L)'
<1>1. \A x \in A : HeldBy(x, L)'
  BY HeldOn DEF Secure
<1>. QED BY <1>1 DEF Secure

(* The parts of LogInv that do not speak of what is committed.             *)
Agreement ==
    /\ NothingHalfDone /\ TermsBounded /\ TermsLed /\ PiecesMatch /\ LeaderOwns
    /\ AcksTrue /\ RequestsTrue /\ RefusalsTrue /\ OwnEntriesSecure

ChosenKept ==
    \A L \in Seq(Entry) : L # << >> /\ Chosen(L) =>
        /\ Chosen(L)'
        /\ \A y \in Server : Begins(log[y], L) => Begins(log'[y], L)

-----------------------------------------------------------------------------
(* Requests, replies and running terms, in every step.                     *)

LEMMA RequestsStay ==
    ASSUME Step, VotesJustified, Requested, Appends \subseteq Appends'
    PROVE  /\ RequestsTrue'
           /\ \A m \in messages' : m.type = "RequestVote" => m.term <= currentTerm'[m.from]
<1>1. /\ TypeOK' /\ RequestsTrue
      /\ \A m \in messages : m.type = "RequestVote" => m.term <= currentTerm[m.from]
      /\ \A s \in Server : currentTerm[s] \in Nat /\ currentTerm'[s] \in Nat /\ currentTerm'[s] >= currentTerm[s]
  BY StepTypes DEF LogInv, TermsBounded
<1>. SUFFICES ASSUME NEW m \in messages', m.type = "RequestVote"
              PROVE  /\ m.term <= currentTerm'[m.from]
                     /\ Contends(m.from)' /\ m.term = currentTerm'[m.from] =>
                          /\ m.lastLogIndex = Len(log'[m.from])
                          /\ m.lastLogTerm = LastTerm(Whole(log'[m.from]))
  BY DEF RequestsTrue, Contends, LastTerm, Whole, TermIn, End, EntryIn
<1>2. m.from \in Server /\ m.term \in Nat
  BY <1>1, MessageTypes DEF TypeOK
<1>3. CASE /\ m.term <= currentTerm'[m.from]
           /\ m.lastLogIndex = Len(log[m.from])
           /\ m.lastLogTerm = LastTerm(Whole(log[m.from]))
  BY <1>2, <1>3 DEF VotesJustified
<1>4. ASSUME NEW n \in messages,
             n.type = "RequestVote", n.from = m.from, n.term = m.term,
             n.lastLogIndex = m.lastLogIndex, n.lastLogTerm = m.lastLogTerm
      PROVE  /\ m.term <= currentTerm'[m.from]
             /\ Contends(m.from)' /\ m.term = currentTerm'[m.from] =>
                  /\ m.lastLogIndex = Len(log'[m.from])
                  /\ m.lastLogTerm = LastTerm(Whole(log'[m.from]))
  <2>1. m.term <= currentTerm[m.from]
    BY <1>1, <1>4
  <2>2. m.term <= currentTerm'[m.from]
    BY <1>1, <1>2, <2>1
  <2>3. ASSUME Contends(m.from)', m.term = currentTerm'[m.from]
        PROVE  /\ m.lastLogIndex = Len(log'[m.from])
               /\ m.lastLogTerm = LastTerm(Whole(log'[m.from]))
    <3>1. currentTerm'[m.from] = currentTerm[m.from]
      BY <1>1, <1>2, <2>1, <2>3
    <3>2. state[m.from] = "candidate"
      BY <1>1, <1>2, <2>3, <3>1 DEF Contends, Step, StepVotes
    <3>3. Contends(m.from)
      BY <2>3, <3>1, <3>2 DEF Contends
    <3>4. log'[m.from] = log[m.from]
      BY <1>2, <2>3 DEF VotesJustified
    <3>. QED BY <1>1, <1>4, <2>3, <3>1, <3>3, <3>4 DEF RequestsTrue
  <2>. QED BY <2>2, <2>3
<1>. QED BY <1>3, <1>4 DEF Requested

LEMMA RepliesStay ==
    ASSUME Step, LeadersKept, Replied, NextKnown,
           \A s \in Server : state'[s] = "leader" => Len(log[s]) <= Len(log'[s])
    PROVE  /\ RefusalsTrue'
           /\ \A m \in messages' : m.type = "AppendEntriesReply" =>
                 m.from # m.to /\ Led(m.to, m.argsTerm)'
<1>1. TypeOK /\ TypeOK' /\ LogInv
  BY StepTypes
<1>2. ASSUME NEW m \in messages', m.type = "AppendEntriesReply"
      PROVE  m.from # m.to /\ Led(m.to, m.argsTerm)'
  <2>1. m \in AppendReply
    BY <1>1, <1>2, AcksTyped, MessageTypes DEF TypeOK
  <2>2. m.to \in Server /\ m.argsTerm \in Nat
    BY <2>1 DEF AppendReply
  <2>3. CASE m \in messages
    BY <1>1, <1>2, <2>2, <2>3, LedStays DEF LogInv, TermsLed
  <2>4. ASSUME NEW n \in Appends, m.to = n.from, m.from = n.to, m.argsTerm = n.term
        PROVE  m.from # m.to /\ Led(m.to, m.argsTerm)'
    BY <1>1, <2>2, <2>4, LedStays DEF LogInv, TermsLed, TermsBounded
  <2>. QED BY <1>2, <2>3, <2>4 DEF Replied
<1>3. ASSUME NEW s \in Server, NEW x \in Server, state'[s] = "leader"
      PROVE  nextIndex'[s][x] <= Len(log'[s]) + 1
  <2>1. nextIndex'[s][x] \in Nat /\ Len(log[s]) \in Nat /\ Len(log'[s]) \in Nat
    BY <1>1, StepTypes DEF TypeOK
  <2>. QED BY <1>3, <2>1 DEF NextKnown
<1>4. ASSUME NEW s \in Server, NEW x \in Server, state'[s] = "leader",
             NEW m \in messages', IsAppendReply(m, s, x)', ~m.success, m.term <= currentTerm'[s]
      PROVE  m.conflictIndex <= Len(log'[s])
  <2>0. m.type = "AppendEntriesReply" /\ m.to = s /\ m.from = x /\ m.argsTerm = currentTerm'[s]
    BY <1>4 DEF IsAppendReply
  <2>1. m \in AppendReply
    BY <1>1, <2>0, MessageTypes DEF TypeOK
  <2>2. m.conflictIndex \in Nat /\ m.term \in Nat
    BY <2>1 DEF AppendReply
  <2>3. /\ state[s] = "leader" /\ currentTerm'[s] = currentTerm[s] /\ currentTerm[s] \in Nat
        /\ Len(log[s]) <= Len(log'[s]) /\ Len(log[s]) \in Nat /\ Len(log'[s]) \in Nat
    BY <1>4, StepTypes DEF LeadersKept
  <2>4. m.conflictIndex <= Len(log[s])
    <3>1. CASE m \in messages
      <4>1. IsAppendReply(m, s, x)
        BY <2>0, <2>3 DEF IsAppendReply
      <4>. QED BY <1>1, <1>4, <2>3, <3>1, <4>1 DEF LogInv, RefusalsTrue
    <3>2. ASSUME NEW n \in Appends, m.to = n.from, m.argsTerm = n.term,
                 m.success \/ m.term > n.term \/ m.conflictIndex <= End(Sent(n))
          PROVE  m.conflictIndex <= Len(log[s])
      <4>1. m.conflictIndex <= End(Sent(n))
        BY <1>4, <2>0, <2>2, <2>3, <3>2
      <4>2. End(Sent(n)) <= Len(log[s])
        BY <1>1, <2>0, <2>3, <3>2 DEF LogInv, LeaderOwns
      <4>3. End(Sent(n)) \in Nat
        BY <1>1, AppendsTyped, PieceType
      <4>. QED BY <2>2, <2>3, <4>1, <4>2, <4>3
    <3>. QED BY <2>0, <3>1, <3>2 DEF Replied
  <2>. QED BY <2>2, <2>3, <2>4
<1>. QED BY <1>2, <1>3, <1>4 DEF RefusalsTrue, IsAppendReply

LEMMA RunningTerms ==
    ASSUME Step, NEW s \in Server, Running(s)'
    PROVE  currentTerm'[s] > 0
<1>1. /\ currentTerm[s] \in Nat /\ currentTerm'[s] \in Nat
      /\ Running(s) => currentTerm[s] > 0
  BY StepTypes DEF LogInv, TermsBounded
<1>. QED BY <1>1 DEF Step, StepVotes

-----------------------------------------------------------------------------
(* Steps that change no log and send no AppendEntries.                     *)

LEMMA QuietPieces ==
    ASSUME Quiet
    PROVE  Pieces' = Pieces
BY DEF Quiet, Pieces

LEMMA QuietSecure ==
    ASSUME Step, Quiet, NEW L \in Seq(Entry), L # << >>, NEW A \in SUBSET Server, Secure(A, L)
    PROVE  Secure(A, L)'
<1>1. Pieces' = Pieces /\ Appends' = Appends /\ log' = log /\ LeadersKept /\ VotesJustified
  BY QuietPieces DEF Quiet
<1>2. Inherited(Len(L), L[Len(L)].term)'
  BY <1>1 DEF Secure, Inherited, LeadersKept
<1>3. Uncontradicted(L)'
  BY <1>1 DEF Secure, Uncontradicted
<1>4. \A x \in A : Begins(log'[x], L)
  BY <1>1 DEF Secure, HeldBy
<1>. QED BY <1>1, <1>2, <1>3, <1>4, SecureOn

LEMMA QuietChosen ==
    ASSUME Step, Quiet
    PROVE  ChosenKept
<1>. SUFFICES ASSUME NEW L \in Seq(Entry), L # << >>, Chosen(L)
              PROVE  Chosen(L)'
  BY DEF ChosenKept, Quiet
<1>1. PICK Q \in SUBSET Server : Majority(Cardinality(Q)) /\ Secure(Q, L)
  BY DEF Chosen
<1>2. Secure(Q, L)'
  BY <1>1, QuietSecure
<1>. QED BY <1>1, <1>2 DEF Chosen

(* Nothing new is acknowledged: what is blocked stays so.                  *)
LEMMA BlockedStays ==
    ASSUME Step, NEW s \in Server, currentTerm'[s] = currentTerm[s], NEW i \in Nat, i > 0,
           \A x \in Server : currentTerm[x] > currentTerm[s] /\ ~Acked(s, x, i) => ~Acked(s, x, i)',
           Blocked(s, i)
    PROVE  Blocked(s, i)'
<1>1. PICK Q \in SUBSET Server :
        /\ Majority(Cardinality(Q))
        /\ \A x \in Q : currentTerm[x] > currentTerm[s] /\ ~Acked(s, x, i)
  BY DEF Blocked
<1>2. ASSUME NEW x \in Q
      PROVE  currentTerm'[x] > currentTerm'[s] /\ ~Acked(s, x, i)'
  <2>1. /\ currentTerm[x] \in Nat /\ currentTerm'[x] \in Nat /\ currentTerm[s] \in Nat
        /\ currentTerm'[x] >= currentTerm[x]
    BY StepTypes
  <2>. QED BY <1>1, <2>1
<1>. QED BY <1>1, <1>2 DEF Blocked

LEMMA AckedNoMore ==
    ASSUME TypeOK, NEW s \in Server, NEW x \in Server, Acks(s, x)' \subseteq Acks(s, x) \cup {0},
           NEW i \in Nat, i > 0, Acked(s, x, i)'
    PROVE  Acked(s, x, i)
<1>1. PICK a \in Acks(s, x)' : i <= a
  BY DEF Acked
<1>2. a \in Acks(s, x) /\ a \in Nat
  BY <1>1, AcksTyped
<1>. QED BY <1>1, <1>2 DEF Acked

(* What makes the entries of a leader secure after a step in which its log *)
(* and its followers' acknowledgements do not grow.                        *)
LEMMA OwnStays ==
    ASSUME Step, NEW s \in Server, state[s] = "leader", currentTerm'[s] = currentTerm[s],
           \A x \in Server \ {s} : Acks(s, x)' \subseteq Acks(s, x) \cup {0},
           NEW i \in Nat, i > 0, i <= Len(log[s]), log[s][i].term = currentTerm[s],
           NEW L \in Seq(Entry), L # << >>, Begins(log[s], L), Len(L) = i,
           \A A \in SUBSET Server :
              Ackers(s, i) \subseteq A /\ Secure(A, L) => Blocked(s, i)' \/ Secure(A, L)'
    PROVE  Blocked(s, i)' \/ Secure(Ackers(s, i), L)'
<1>1. TypeOK /\ LogInv /\ log[s] \in Seq(Entry)
  BY StepTypes
<1>2. i \in 1 .. Len(log[s]) /\ SubSeq(log[s], 1, i) = L
  BY <1>1, PrefixIs
<1>3. Blocked(s, i) \/ Secure(Ackers(s, i), L)
  BY <1>1, <1>2 DEF LogInv, OwnEntriesSecure
<1>4. Ackers(s, i)' \subseteq Ackers(s, i) /\ Ackers(s, i) \in SUBSET Server
  BY <1>1, AckedNoMore DEF Ackers
<1>5. CASE Blocked(s, i)
  <2>1. ASSUME NEW x \in Server, currentTerm[x] > currentTerm[s], Acked(s, x, i)'
        PROVE  Acked(s, x, i)
    <3>1. x # s
      BY <2>1, StepTypes
    <3>. QED BY <1>1, <2>1, <3>1, AckedNoMore
  <2>. QED BY <1>5, <2>1, BlockedStays
<1>6. CASE Secure(Ackers(s, i), L)
  <2>1. PICK A \in SUBSET Server : A = Ackers(s, i)
    BY <1>4
  <2>2. Blocked(s, i)' \/ Secure(A, L)'
    BY <1>6, <2>1
  <2>3. Ackers(s, i)' \subseteq A
    BY <1>4, <2>1
  <2>. QED BY <2>2, <2>3 DEF Secure
<1>. QED BY <1>3, <1>5, <1>6

(* The same, for all leaders whose logs stay as they are.                  *)
LEMMA OwnEntriesStay ==
    ASSUME Step, NEW s \in Server, state[s] = "leader", currentTerm'[s] = currentTerm[s],
           log'[s] = log[s],
           \A x \in Server \ {s} : Acks(s, x)' \subseteq Acks(s, x) \cup {0},
           \A i \in 1 .. Len(log[s]) : \A L \in Seq(Entry) :
              log[s][i].term = currentTerm[s] /\ L # << >> /\ Begins(log[s], L) /\ Len(L) = i =>
                 \A A \in SUBSET Server :
                    Ackers(s, i) \subseteq A /\ Secure(A, L) => Blocked(s, i)' \/ Secure(A, L)',
           NEW i \in 1 .. Len(log'[s]), log'[s][i].term = currentTerm'[s]
    PROVE  Blocked(s, i)' \/ Secure(Ackers(s, i), SubSeq(log[s], 1, i))'
<1>1. log[s] \in Seq(Entry) /\ Len(log[s]) \in Nat /\ i \in 1 .. Len(log[s]) /\ i \in Nat /\ i > 0 /\ i <= Len(log[s])
  BY StepTypes
<1>2. PICK L : L = SubSeq(log[s], 1, i)
  OBVIOUS
<1>3. L \in Seq(Entry) /\ L # << >> /\ Len(L) = i /\ Begins(log[s], L)
  <2>1. UpTo(L, log[s], i)
    BY <1>1, <1>2, PrefixUpTo
  <2>. QED BY <2>1 DEF UpTo
<1>4. \A A \in SUBSET Server :
        Ackers(s, i) \subseteq A /\ Secure(A, L) => Blocked(s, i)' \/ Secure(A, L)'
  BY <1>1, <1>3
<1>5. Blocked(s, i)' \/ Secure(Ackers(s, i), L)'
  BY <1>1, <1>3, <1>4, OwnStays
<1>6. L = SubSeq(log'[s], 1, i)
  BY <1>2
<1>. QED BY <1>5, <1>6 DEF Secure, HeldBy, Inherited, Uncontradicted, Begins

LEMMA QuietOwn ==
    ASSUME Step, Quiet
    PROVE  OwnEntriesSecure'
<1>. SUFFICES ASSUME NEW s \in Server, state'[s] = "leader",
                     NEW i \in 1 .. Len(log'[s]), log'[s][i].term = currentTerm'[s]
              PROVE  Blocked(s, i)' \/ Secure(Ackers(s, i), SubSeq(log[s], 1, i))'
  BY DEF OwnEntriesSecure
<1>1. state[s] = "leader" /\ currentTerm'[s] = currentTerm[s] /\ log'[s] = log[s]
      /\ \A x \in Server \ {s} : Acks(s, x)' \subseteq Acks(s, x) \cup {0}
  BY DEF Quiet, LeadersKept, PeersKnown
<1>2. \A L \in Seq(Entry) : L # << >> => \A A \in SUBSET Server : Secure(A, L) => Secure(A, L)'
  BY QuietSecure
<1>3. \A k \in 1 .. Len(log[s]) : \A L \in Seq(Entry) :
        log[s][k].term = currentTerm[s] /\ L # << >> /\ Begins(log[s], L) /\ Len(L) = k =>
           \A A \in SUBSET Server : Secure(A, L) => Blocked(s, k)' \/ Secure(A, L)'
  BY <1>2
<1>. QED BY <1>1, <1>3, OwnEntriesStay

LEMMA QuietAcks ==
    ASSUME Step, Quiet
    PROVE  AcksTrue'
<1>. SUFFICES ASSUME NEW s \in Server, NEW x \in Server, state'[s] = "leader", s # x,
                     NEW a \in Acks(s, x)'
              PROVE  /\ a <= Len(log'[s])
                     /\ a > 0 => currentTerm'[x] >= currentTerm'[s]
                     /\ currentTerm'[x] = currentTerm'[s] =>
                          a <= Len(log'[x]) /\ \A i \in 1 .. a : log'[x][i] = log'[s][i]
  BY DEF AcksTrue
<1>1. /\ state[s] = "leader" /\ currentTerm'[s] = currentTerm[s] /\ log' = log
      /\ a \in Acks(s, x) \cup {0}
  BY DEF Quiet, LeadersKept, PeersKnown
<1>2. /\ currentTerm[x] \in Nat /\ currentTerm[s] \in Nat /\ currentTerm'[x] \in Nat
      /\ currentTerm'[x] >= currentTerm[x] /\ Len(log[s]) \in Nat /\ Len(log[x]) \in Nat
      /\ LogInv /\ TypeOK
  BY StepTypes
<1>3. a \in Nat
  BY <1>1, <1>2, AcksTyped
<1>4. CASE a = 0
  BY <1>1, <1>2, <1>4
<1>5. CASE a \in Acks(s, x) /\ a > 0
  <2>1. /\ a <= Len(log[s])
        /\ currentTerm[x] >= currentTerm[s]
        /\ currentTerm[x] = currentTerm[s] =>
             a <= Len(log[x]) /\ \A i \in 1 .. a : log[x][i] = log[s][i]
    BY <1>1, <1>2, <1>5 DEF LogInv, AcksTrue
  <2>. QED BY <1>1, <1>2, <2>1
<1>. QED BY <1>1, <1>3, <1>4, <1>5

LEMMA QuietAgrees ==
    ASSUME Step, Quiet, Requested, Replied, NextKnown
    PROVE  Agreement' /\ ChosenKept
<1>1. /\ Pieces' = Pieces /\ Appends' = Appends /\ log' = log /\ LeadersKept /\ VotesJustified
      /\ TypeOK /\ LogInv /\ StepVotes
      /\ \A s \in Server : currentTerm[s] \in Nat /\ currentTerm'[s] \in Nat
                           /\ currentTerm'[s] >= currentTerm[s]
  BY QuietPieces, StepTypes DEF Quiet
<1>2. RequestsTrue' /\ \A m \in messages' : m.type = "RequestVote" => m.term <= currentTerm'[m.from]
  BY <1>1, RequestsStay
<1>3. RefusalsTrue' /\ \A m \in messages' : m.type = "AppendEntriesReply" =>
                         m.from # m.to /\ Led(m.to, m.argsTerm)'
  <2>1. \A s \in Server : Len(log[s]) <= Len(log'[s])
    BY <1>1, StepTypes
  <2>. QED BY <1>1, <2>1, RepliesStay
<1>4. TermsBounded'
  <2>1. \A s \in Server : LastTerm(Whole(log'[s])) <= currentTerm'[s]
    <3>. SUFFICES ASSUME NEW s \in Server
                  PROVE  LastTerm(Whole(log[s])) <= currentTerm'[s]
      BY <1>1
    <3>1. LastTerm(Whole(log[s])) \in Nat /\ LastTerm(Whole(log[s])) <= currentTerm[s]
      BY <1>1, PiecesTyped, PieceType DEF LogInv, TermsBounded
    <3>. QED BY <1>1, <3>1
  <2>2. \A s \in Server : Running(s)' => currentTerm'[s] > 0
    BY RunningTerms
  <2>. QED BY <1>1, <1>2, <2>1, <2>2 DEF LogInv, TermsBounded, LastTerm, Whole, TermIn, End, EntryIn
<1>5. TermsLed'
  <2>1. ASSUME NEW R \in Pieces', NEW i \in Span(R), i > 0
        PROVE  \E l \in Server : Led(l, TermIn(R, i))'
    <3>1. R \in Pieces /\ R \in Piece
      BY <1>1, PiecesTyped
    <3>2. TermIn(R, i) \in Nat
      BY <3>1, PieceType
    <3>3. PICK l \in Server : Led(l, TermIn(R, i))
      BY <1>1, <2>1, <3>1 DEF LogInv, TermsLed
    <3>. QED BY <3>2, <3>3, LedStays
  <2>2. ASSUME NEW m \in Appends'
        PROVE  Led(m.from, m.term)'
    <3>1. m \in Appends /\ m.from \in Server /\ m.term \in Nat
      BY <1>1, AppendsTyped
    <3>. QED BY <1>1, <3>1, LedStays DEF LogInv, TermsLed
  <2>3. ASSUME NEW s \in Server, state'[s] = "leader"
        PROVE  Led(s, currentTerm[s])'
    <3>1. PICK term \in Nat : term = currentTerm[s]
      BY <1>1
    <3>2. currentTerm'[s] = term /\ Led(s, term)
      BY <1>1, <2>3, <3>1 DEF LeadersKept, LogInv, TermsLed
    <3>3. Led(s, term)'
      BY <3>2, LedStays
    <3>. QED BY <3>2, <3>3 DEF Led
  <2>. QED BY <1>3, <2>1, <2>2, <2>3 DEF TermsLed, Led, Span, TermIn, End, EntryIn
<1>6. PiecesMatch' /\ LeaderOwns'
  BY <1>1 DEF LogInv, PiecesMatch, LeaderOwns, LeadersKept
<1>. QED BY <1>2, <1>3, <1>4, <1>5, <1>6, QuietAcks, QuietOwn, QuietChosen DEF Agreement, Step

-----------------------------------------------------------------------------
(* The actions of that kind.                                               *)

(* What the leaders know of their peers is what they knew.                 *)
LEMMA PeersKept ==
    ASSUME LogInv, LeadersKept,
           \A m \in messages' : m.type = "AppendEntriesReply" /\ m.success => m \in messages,
           \A s, x \in Server : state'[s] = "leader" =>
              matchIndex'[s][x] \in Acks(s, x) \cup {0}
    PROVE  PeersKnown
BY AcksKept DEF PeersKnown

LEMMA PeersSame ==
    ASSUME LogInv, LeadersKept, UNCHANGED leaderVars,
           \A m \in messages' : m.type = "AppendEntriesReply" => m \in messages
    PROVE  PeersKnown /\ NextKnown /\ Replied
<1>1. \A s, x \in Server : matchIndex'[s][x] \in Acks(s, x)
  BY DEF leaderVars, Acks
<1>2. NextKnown
  BY DEF NextKnown, leaderVars, LogInv, RefusalsTrue, LeadersKept
<1>3. Replied
  BY DEF Replied
<1>. QED BY <1>1, <1>2, <1>3, PeersKept

LEMMA CalmQuiet ==
    ASSUME Inv, StorageInv', HonestCount', Calm, NothingHalfDone',
           UNCHANGED log, Appends' = Appends,
           \A m \in messages' : m.type = "AppendEntriesReply" /\ m.success => m \in messages,
           \A s, x \in Server : state'[s] = "leader" =>
              matchIndex'[s][x] \in Acks(s, x) \cup {0}
    PROVE  Step /\ Quiet /\ Requested
<1>1. TypeOK /\ LogInv
  BY InvTypes
<1>2. Step /\ LeadersKept
  BY <1>1, CalmVotes DEF Step
<1>3. VotesJustified
  BY <1>1, CalmJustified
<1>4. Requested
  BY <1>1, CalmRequested
<1>5. PeersKnown
  BY <1>1, <1>2, PeersKept
<1>. QED BY <1>2, <1>3, <1>4, <1>5 DEF Quiet

LEMMA StartElectionQuiet ==
    ASSUME NoLogFault, Inv, StorageInv', HonestCount', NEW s \in Server, StartElection(s)
    PROVE  Step /\ Quiet /\ Requested /\ Replied /\ NextKnown
<1>. DEFINE ballot(d) == [type |-> "RequestVote", from |-> s, to |-> d, live |-> TRUE,
                          term |-> currentTerm[s] + 1, lastLogIndex |-> LastLogIndex(s),
                          lastLogTerm |-> LastLogTerm(s)]
            ballots == {ballot(d) : d \in Server \ {s}}
<1>1. /\ TypeOK /\ TypeOK' /\ LogInv /\ HonestCount
      /\ lastIncludedIndex[s] = 0 /\ lastIncludedTerm[s] = 0
  BY InvTypes DEF StorageInv, TypeInv
<1>2. \A v \in Server : Kept(v)
  BY <1>1, StartElectionElection DEF NoLogFault
<1>3. /\ currentTerm[s] \in Nat
      /\ currentTerm' = [currentTerm EXCEPT ![s] = @ + 1]
      /\ voters' = [voters EXCEPT ![s] = {s}]
      /\ state' = [state EXCEPT ![s] = "candidate"]
      /\ UNCHANGED log /\ UNCHANGED leaderVars /\ UNCHANGED handler
      /\ messages' = Abandon(s, messages) \cup ballots
  BY <1>1 DEF StartElection, TypeOK, NoLogFault
<1>4. /\ currentTerm'[s] = currentTerm[s] + 1 /\ voters'[s] = {s} /\ state'[s] = "candidate"
      /\ \A t \in Server \ {s} : /\ currentTerm'[t] = currentTerm[t] /\ voters'[t] = voters[t]
                                 /\ state'[t] = state[t]
  BY <1>1, <1>3 DEF TypeOK
<1>5. \A m \in ballots : /\ m.type = "RequestVote" /\ m.from = s
                         /\ m.term = currentTerm[s] + 1 /\ m.lastLogIndex = LastLogIndex(s)
                         /\ m.lastLogTerm = LastLogTerm(s)
  OBVIOUS
<1>. HIDE DEF ballots
<1>6. Appends' = Appends
  BY <1>1, <1>3, <1>5, AbandonedAppends
(* What is not a request has been in the network, and is not for s.        *)
<1>7. ASSUME NEW m \in messages', m.type \in {"RequestVoteReply", "AppendEntriesReply"}
      PROVE  m \in messages /\ m.to # s
  <2>1. m \in Abandon(s, messages) /\ ~IsRequest(m)
    BY <1>3, <1>5, <1>7 DEF IsRequest
  <2>2. \A n \in messages : m = [n EXCEPT !.live = FALSE] => ~IsRequest(n)
    <3>1. \A n \in messages : IsRequest(n) => [n EXCEPT !.live = FALSE].type = n.type
      BY <1>1, AbandonedDead DEF TypeOK
    <3>. QED BY <2>1, <3>1 DEF IsRequest
  <2>. QED BY <2>1, <2>2 DEF Abandon
<1>8. \A m \in messages' : IsVote(m) => m \in messages /\ m.to # s
  BY <1>7 DEF IsVote
<1>9. StepVotes
  BY <1>2, <1>3, <1>4, <1>8 DEF StepVotes, Running
<1>10. Step
  BY <1>1, <1>3, <1>9 DEF Step, LogInv, NothingHalfDone, Idle
<1>11. LeadersKept
  BY <1>4 DEF LeadersKept
<1>12. VotesJustified
  <2>. SUFFICES ASSUME NEW c \in Server, Contends(c)', NEW x \in Server, Voted(x, c)'
                PROVE  \/ Contends(c) /\ Voted(x, c) /\ currentTerm'[c] = currentTerm[c]
                       \/ Beyond(Whole(log[c]), Len(log[x]), LastTerm(Whole(log[x])))
    BY <1>3 DEF VotesJustified
  <2>1. CASE c = s
    <3>1. x = s
      BY <1>4, <1>8, <2>1 DEF Voted, IsVote
    <3>2. log[s] \in Seq(Entry) /\ End(Whole(log[s])) = Len(log[s]) /\ Len(log[s]) \in Nat
      BY <1>1, WholePiece DEF TypeOK
    <3>. QED BY <2>1, <3>1, <3>2 DEF Beyond
  <2>2. CASE c # s
    BY <1>4, <1>6, <1>8, <2>2 DEF Contends, Voted, IsVote
  <2>. QED BY <2>1, <2>2
<1>13. Requested
  <2>. SUFFICES ASSUME NEW m \in messages', m.type = "RequestVote"
                PROVE  \/ \E n \in messages :
                            /\ n.type = "RequestVote" /\ n.from = m.from /\ n.term = m.term
                            /\ n.lastLogIndex = m.lastLogIndex /\ n.lastLogTerm = m.lastLogTerm
                       \/ /\ m.from \in Server /\ m.term <= currentTerm'[m.from]
                          /\ m.lastLogIndex = Len(log[m.from])
                          /\ m.lastLogTerm = LastTerm(Whole(log[m.from]))
    BY DEF Requested
  <2>1. CASE m \in ballots
    BY <1>1, <1>3, <1>4, <1>5, <2>1, LogAsPiece
  <2>2. CASE m \in messages
    BY <2>2
  <2>3. CASE m \notin ballots /\ m \notin messages
    <3>1. PICK n \in messages : IsRequest(n) /\ n.live /\ m = [n EXCEPT !.live = FALSE]
      BY <1>3, <2>3 DEF Abandon
    <3>2. n.type = "RequestVote"
      BY <1>1, <3>1, AbandonedDead DEF TypeOK
    <3>3. n \in VoteRequest
      BY <1>1, <3>2, MessageTypes DEF TypeOK
    <3>4. /\ n.from = m.from /\ n.term = m.term
          /\ n.lastLogIndex = m.lastLogIndex /\ n.lastLogTerm = m.lastLogTerm
      BY <3>1, <3>3 DEF VoteRequest
    <3>. QED BY <3>2, <3>4
  <2>. QED BY <2>1, <2>2, <2>3
<1>14. PeersKnown /\ NextKnown /\ Replied
  BY <1>1, <1>3, <1>7, <1>11, PeersSame
<1>. QED BY <1>3, <1>6, <1>10, <1>11, <1>12, <1>13, <1>14 DEF Quiet

LEMMA HandleRequestVoteQuiet ==
    ASSUME Inv, StorageInv', HonestCount', NEW m \in messages, HandleRequestVote(m)
    PROVE  Step /\ Quiet /\ Requested /\ Replied /\ NextKnown
<1>. DEFINE s == m.to
            c == m.from
            vote == IF m.term > currentTerm[s] THEN Nil ELSE votedFor[s]
            grant == m.term >= currentTerm[s] /\ vote \in {Nil, m.from} /\ UpToDate(s, m)
            reply == [type |-> "RequestVoteReply", from |-> s, to |-> c,
                      argsTerm |-> m.term, term |-> currentTerm[s], voteGranted |-> grant]
<1>1. /\ TypeOK /\ TypeOK' /\ LogInv /\ HonestCount
      /\ s \in Server /\ c \in Server /\ m.term \in Nat /\ currentTerm[s] \in Nat
      /\ lastIncludedIndex[s] = 0 /\ lastIncludedTerm[s] = 0
      /\ log[s] \in Seq(Entry) /\ log[c] \in Seq(Entry)
  BY InvTypes, MessageTypes DEF StorageInv, TypeInv, TypeOK
<1>2. \A v \in Server : Kept(v)
  BY <1>1, HandleRequestVoteElection
<1>3. /\ m.type = "RequestVote"
      /\ UNCHANGED <<log, voters, leaderVars, handler>>
      /\ messages' = Answer(m, reply, messages \ {m})
      /\ \/ m.term < currentTerm[s] /\ UNCHANGED <<currentTerm, votedFor, state>>
         \/ /\ m.term >= currentTerm[s]
            /\ currentTerm' = [currentTerm EXCEPT ![s] = m.term]
            /\ votedFor' = [votedFor EXCEPT ![s] = IF grant THEN c ELSE vote]
            /\ state' = [state EXCEPT ![s] = IF m.term > currentTerm[s] THEN "follower" ELSE @]
  BY DEF HandleRequestVote, electionVars
<1>4. reply.type = "RequestVoteReply" /\ reply.from = s /\ reply.to = c /\ reply.argsTerm = m.term
      /\ reply.voteGranted = grant
  OBVIOUS
<1>5. grant => m.term >= currentTerm[s] /\ UpToDate(s, m)
  OBVIOUS
<1>. HIDE DEF grant, reply, vote, s, c
<1>6. \A t \in Server : /\ voters'[t] = voters[t]
                        /\ state'[t] # "follower" => state'[t] = state[t] /\ currentTerm'[t] = currentTerm[t]
  <2>1. \A t \in Server : voters'[t] = voters[t]
    BY <1>3
  <2>2. CASE UNCHANGED <<currentTerm, votedFor, state>>
    BY <2>1, <2>2
  <2>3. CASE /\ m.term >= currentTerm[s]
             /\ currentTerm' = [currentTerm EXCEPT ![s] = m.term]
             /\ state' = [state EXCEPT ![s] = IF m.term > currentTerm[s] THEN "follower" ELSE @]
    <3>1. currentTerm \in [Server -> Nat] /\ state \in [Server -> State]
      BY <1>1 DEF TypeOK
    <3>2. CASE m.term > currentTerm[s]
      BY <2>1, <2>3, <3>1, <3>2
    <3>3. CASE ~(m.term > currentTerm[s])
      <4>1. m.term = currentTerm[s]
        BY <1>1, <2>3, <3>3
      <4>2. currentTerm' = currentTerm /\ state' = state
        BY <2>3, <3>1, <3>3, <4>1
      <4>. QED BY <2>1, <4>2
    <3>. QED BY <3>2, <3>3
  <2>. QED BY <1>3, <2>2, <2>3
<1>7. grant => currentTerm'[s] = m.term /\ votedFor'[s] = c
  <2>. SUFFICES ASSUME grant
                PROVE  currentTerm'[s] = m.term /\ votedFor'[s] = c
    OBVIOUS
  <2>1. /\ currentTerm' = [currentTerm EXCEPT ![s] = m.term]
        /\ votedFor' = [votedFor EXCEPT ![s] = c]
    BY <1>1, <1>3, <1>5
  <2>2. currentTerm \in [Server -> Nat] /\ votedFor \in [Server -> Server \cup {Nil}]
    BY <1>1 DEF TypeOK
  <2>. QED BY <1>1, <2>1, <2>2
<1>8. messages' \subseteq messages \cup (IF m.live THEN {reply} ELSE {}) /\ messages \ {m} \subseteq messages'
  BY <1>3 DEF Answer
<1>9. Appends' = Appends
  BY <1>3, <1>4, <1>8, OtherMessages
<1>10. StepVotes
  <2>1. \A n \in messages' : IsVote(n) =>
          n \in messages \/ (currentTerm'[n.from] = n.argsTerm /\ votedFor'[n.from] = n.to)
    BY <1>4, <1>7, <1>8 DEF IsVote
  <2>. QED BY <1>2, <1>6, <2>1 DEF StepVotes, Running
<1>11. Step
  BY <1>1, <1>3, <1>10 DEF Step, LogInv, NothingHalfDone, Idle
<1>12. LeadersKept
  BY <1>6 DEF LeadersKept
<1>13. VotesJustified
  <2>. SUFFICES ASSUME NEW d \in Server, Contends(d)', NEW x \in Server, Voted(x, d)'
                PROVE  \/ Contends(d) /\ Voted(x, d) /\ currentTerm'[d] = currentTerm[d]
                       \/ Beyond(Whole(log[d]), Len(log[x]), LastTerm(Whole(log[x])))
    BY <1>3 DEF VotesJustified
  <2>1. Contends(d) /\ currentTerm'[d] = currentTerm[d]
    BY <1>6, <1>9 DEF Contends
  <2>2. CASE m.live /\ grant /\ x = s /\ d = c
    <3>1. IsBallot(m, c, s)
      BY <1>3, <2>2 DEF IsBallot, s, c
    <3>2. currentTerm[c] = m.term
      BY <1>1, <1>3, <2>1, <2>2, <3>1 DEF HonestCount, BallotsCurrent, Contends
    <3>3. m.lastLogIndex = Len(log[c]) /\ m.lastLogTerm = LastTerm(Whole(log[c]))
      BY <1>1, <1>3, <2>1, <2>2, <3>2 DEF LogInv, RequestsTrue, c
    <3>4. LastLogIndex(s) = Len(log[s]) /\ LastLogTerm(s) = LastTerm(Whole(log[s]))
      BY <1>1, LogAsPiece
    <3>5. End(Whole(log[c])) = Len(log[c])
      BY <1>1, WholePiece
    <3>6. Beyond(Whole(log[c]), Len(log[s]), LastTerm(Whole(log[s])))
      BY <1>5, <2>2, <3>3, <3>4, <3>5 DEF UpToDate, Beyond
    <3>. QED BY <2>2, <3>6
  <2>3. CASE ~(m.live /\ grant /\ x = s /\ d = c)
    <3>1. \A n \in messages' : IsVote(n) /\ n.from = x /\ n.to = d => n \in messages
      BY <1>4, <1>8, <2>3 DEF IsVote
    <3>2. Voted(x, d)
      BY <1>6, <3>1 DEF Voted, IsVote
    <3>. QED BY <2>1, <3>2
  <2>. QED BY <2>2, <2>3
<1>14. Requested
  BY <1>4, <1>8 DEF Requested
<1>15. PeersKnown /\ NextKnown /\ Replied
  BY <1>1, <1>3, <1>4, <1>8, <1>12, PeersSame
<1>. QED BY <1>3, <1>9, <1>11, <1>12, <1>13, <1>14, <1>15 DEF Quiet

LEMMA HandleVoteReplyQuiet ==
    ASSUME Inv, StorageInv', HonestCount', NEW m \in messages, HandleVoteReply(m)
    PROVE  Step /\ Quiet /\ Requested /\ Replied /\ NextKnown
<1>. DEFINE s == m.to
            d == m.from
<1>1. /\ TypeOK /\ TypeOK' /\ LogInv /\ HonestCount
      /\ s \in Server /\ d \in Server /\ m.term \in Nat /\ currentTerm[s] \in Nat
  BY InvTypes, MessageTypes DEF StorageInv, TypeInv, TypeOK
<1>2. \A v \in Server : Kept(v)
  BY <1>1, HandleVoteReplyElection
<1>3. /\ m.type = "RequestVoteReply" /\ state[s] = "candidate"
      /\ UNCHANGED <<log, leaderVars, handler>>
      /\ messages' = messages \ {m}
      /\ \/ /\ m.voteGranted
            /\ voters' = [voters EXCEPT ![s] = @ \cup {d}]
            /\ UNCHANGED <<currentTerm, votedFor, state>>
         \/ /\ m.term > currentTerm[s]
            /\ StepDown(s, m.term)
  BY DEF HandleVoteReply
<1>4. IsBallot(m, s, d) /\ currentTerm[s] = m.argsTerm
  BY <1>1, <1>3 DEF IsBallot, HonestCount, BallotsCurrent
<1>. HIDE DEF s, d
<1>5. \A t \in Server :
        /\ state'[t] # "follower" => state'[t] = state[t] /\ currentTerm'[t] = currentTerm[t]
        /\ \A v \in voters'[t] : v \in voters[t] \/
              (IsVote(m) /\ m.from = v /\ m.to = t /\ m.argsTerm = currentTerm[t])
  <2>1. CASE m.voteGranted /\ voters' = [voters EXCEPT ![s] = @ \cup {d}]
             /\ UNCHANGED <<currentTerm, votedFor, state>>
    <3>1. IsVote(m) /\ voters \in [Server -> SUBSET Server]
      BY <1>1, <1>3, <2>1 DEF IsVote, TypeOK
    <3>2. voters'[s] = voters[s] \cup {d} /\ \A t \in Server \ {s} : voters'[t] = voters[t]
      BY <1>1, <2>1, <3>1
    <3>. QED BY <1>4, <2>1, <3>1, <3>2 DEF s, d
  <2>2. CASE m.term > currentTerm[s] /\ StepDown(s, m.term)
    BY <1>1, <2>2 DEF StepDown, TypeOK
  <2>. QED BY <1>3, <2>1, <2>2
<1>6. Appends' = Appends
  BY <1>3, OtherMessages
<1>7. StepVotes
  BY <1>2, <1>3, <1>5 DEF StepVotes, Running
<1>8. Step
  BY <1>1, <1>3, <1>7 DEF Step, LogInv, NothingHalfDone, Idle
<1>9. LeadersKept
  BY <1>5 DEF LeadersKept
<1>10. VotesJustified
  <2>. SUFFICES ASSUME NEW c \in Server, Contends(c)', NEW x \in Server, Voted(x, c)'
                PROVE  Contends(c) /\ Voted(x, c) /\ currentTerm'[c] = currentTerm[c]
    BY <1>3 DEF VotesJustified
  <2>1. Contends(c) /\ currentTerm'[c] = currentTerm[c]
    BY <1>5, <1>6 DEF Contends
  <2>2. Voted(x, c)
    BY <1>3, <1>5 DEF Voted, IsVote
  <2>. QED BY <2>1, <2>2
<1>11. Requested
  BY <1>3 DEF Requested
<1>12. PeersKnown /\ NextKnown /\ Replied
  BY <1>1, <1>3, <1>9, PeersSame
<1>. QED BY <1>3, <1>6, <1>8, <1>9, <1>10, <1>11, <1>12 DEF Quiet

-----------------------------------------------------------------------------
(* The other steps that append nothing.                                    *)

(* What a step that commits nothing does to the indexes.                   *)
CommitsKept ==
    \A s \in Server :
        \/ commitIndex'[s] = commitIndex[s] /\ lastApplied'[s] = lastApplied[s] /\ applied'[s] = applied[s]
        \/ commitIndex'[s] = 0 /\ lastApplied'[s] = 0 /\ applied'[s] = << >> /\ crashes' > crashes

(* A refusal never points beyond the index it refuses.                     *)
LEMMA ConflictLow ==
    ASSUME TypeOK, NEW s \in Server, lastIncludedIndex[s] = 0, NEW m \in AppendRequest,
           NEW c \in ConflictIndexes(s, m)
    PROVE  c <= m.preLogIndex
<1>1. m.preLogIndex \in Nat /\ Len(log[s]) \in Nat /\ LastLogIndex(s) = Len(log[s])
  BY DEF AppendRequest, TypeOK, LastLogIndex
<1>. DEFINE p == m.preLogIndex
            S == {i \in lastIncludedIndex[s]..p : \A j \in i..p : TermAt(s, j) = TermAt(s, p)}
<1>2. CASE p > LastLogIndex(s)
  BY <1>1, <1>2 DEF ConflictIndexes
<1>3. CASE ~(p > LastLogIndex(s))
  <2>1. c = MinOf(S)
    BY <1>1, <1>3 DEF ConflictIndexes
  <2>2. S \in SUBSET Nat /\ p \in S /\ \A i \in S : i <= p
    BY <1>1
  <2>. HIDE DEF S
  <2>3. MinOf(S) \in S
    BY <2>2, MinOfNat
  <2>. QED BY <2>1, <2>2, <2>3
<1>. QED BY <1>2, <1>3

LEMMA RefusedQuiet ==
    ASSUME Inv, StorageInv', HonestCount', NEW m \in messages, AppendEntries(m),
           ~(m.term >= currentTerm[m.to] /\ Consistent(m.to, m))
    PROVE  Step /\ Quiet /\ Requested /\ Replied /\ NextKnown /\ CommitsKept
<1>. DEFINE s == m.to
            reply(c) == AppendAnswer(m, currentTerm[s], FALSE, c)
<1>1. /\ TypeOK /\ TypeOK' /\ LogInv /\ HonestCount /\ m.type = "AppendEntries"
      /\ s \in Server /\ m.from \in Server /\ m.term \in Nat /\ currentTerm[s] \in Nat
      /\ lastIncludedIndex[s] = 0
  BY InvTypes, MessageTypes DEF StorageInv, TypeInv, TypeOK, AppendEntries
<1>2. /\ UNCHANGED <<log, handler, applyVars, leaderVars>>
      /\ \E c : /\ messages' = Answer(m, reply(c), messages)
                /\ m.term < currentTerm[s] \/ c \in ConflictIndexes(s, m)
  BY <1>1 DEF AppendEntries
<1>3. PICK c : /\ messages' = Answer(m, reply(c), messages)
               /\ m.term < currentTerm[s] \/ c \in ConflictIndexes(s, m)
  BY <1>2
<1>4. /\ reply(c).type = "AppendEntriesReply" /\ ~reply(c).success
      /\ reply(c).from = m.to /\ reply(c).to = m.from /\ reply(c).argsTerm = m.term
      /\ reply(c).term = currentTerm[s] /\ reply(c).conflictIndex = c
  BY DEF AppendAnswer
<1>. HIDE DEF reply
<1>5. messages' \subseteq messages \cup {reply(c)} /\ messages \subseteq messages'
  BY <1>3 DEF Answer
<1>6. Calm
  BY <1>1, AppendEntriesElectionless
<1>7. LeadersKept
  BY <1>1, <1>6, CalmVotes
<1>8. Appends' = Appends
  BY <1>4, <1>5, OtherMessages
<1>9. NothingHalfDone'
  BY <1>1, <1>2 DEF LogInv, NothingHalfDone, Idle
<1>10. Replied
  <2>. SUFFICES ASSUME NEW r \in messages', r.type = "AppendEntriesReply", r \notin messages
                PROVE  \E n \in Appends :
                          /\ r.to = n.from /\ r.from = n.to /\ r.argsTerm = n.term
                          /\ r.success \/ r.term > n.term \/ r.conflictIndex <= End(Sent(n))
    BY DEF Replied
  <2>1. r = reply(c)
    BY <1>5
  <2>2. PICK n \in Appends : /\ n.from = m.from /\ n.to = m.to /\ n.term = m.term
                             /\ Sent(n) = Sent(m)
    BY <1>1, CallSeen
  <2>3. m \in AppendRequest
    BY <1>1, CallSeen
  <2>4. c \in ConflictIndexes(s, m) => c <= m.preLogIndex
    BY <1>1, <2>3, ConflictLow
  <2>5. /\ End(Sent(m)) = m.preLogIndex + Len(m.entries)
        /\ m.preLogIndex \in Nat /\ Len(m.entries) \in Nat
    BY <2>3, SentPiece DEF AppendRequest
  <2>6. c \in ConflictIndexes(s, m) => c \in Nat
    <3>1. AppendAnswer(m, currentTerm[s], FALSE, c) \in messages' \/ ~m.live
      BY <1>3 DEF Answer, reply
    <3>2. reply(c) \in AppendReply
      BY <1>1, <1>4, <2>1, MessageTypes DEF TypeOK
    <3>. QED BY <1>4, <3>2 DEF AppendReply
  <2>7. r.term > n.term \/ r.conflictIndex <= End(Sent(n))
    BY <1>1, <1>3, <1>4, <2>1, <2>2, <2>4, <2>5, <2>6
  <2>. QED BY <1>4, <2>1, <2>2, <2>7
<1>11. NextKnown
  BY <1>1, <1>2, <1>7 DEF NextKnown, leaderVars, LogInv, RefusalsTrue, LeadersKept
<1>12. \A s1, x \in Server : matchIndex'[s1][x] \in Acks(s1, x)
  BY <1>2 DEF leaderVars, Acks
<1>13. CommitsKept
  BY <1>2 DEF CommitsKept, applyVars
<1>14. \A r \in messages' : r.type = "AppendEntriesReply" /\ r.success => r \in messages
  BY <1>4, <1>5
<1>. QED BY <1>1, <1>2, <1>6, <1>8, <1>9, <1>10, <1>11, <1>12, <1>13, <1>14, CalmQuiet

LEMMA HandleAppendReplyQuiet ==
    ASSUME Inv, StorageInv', HonestCount', NEW m \in messages, HandleAppendReply(m)
    PROVE  Step /\ Quiet /\ Requested /\ Replied /\ NextKnown
<1>. DEFINE s == m.to
            d == m.from
            match == Greatest(matchIndex[s][d], m.match)
            next == IF m.conflictIndex > 0 THEN m.conflictIndex
                    ELSE IF nextIndex[s][d] > lastIncludedIndex[s] + 1 THEN nextIndex[s][d] - 1
                    ELSE nextIndex[s][d]
<1>1. /\ TypeOK /\ TypeOK' /\ LogInv /\ HonestCount
      /\ s \in Server /\ d \in Server /\ m.term \in Nat /\ currentTerm[s] \in Nat
      /\ lastIncludedIndex[s] = 0 /\ Len(log[s]) \in Nat
      /\ m.type = "AppendEntriesReply" /\ state[s] = "leader" /\ currentTerm[s] = m.argsTerm
  <2>1. /\ TypeOK /\ TypeOK' /\ LogInv /\ HonestCount
        /\ \A t \in Server : lastIncludedIndex[t] = 0
    BY InvTypes DEF StorageInv, TypeInv
  <2>2. m.type = "AppendEntriesReply" /\ state[s] = "leader" /\ currentTerm[s] = m.argsTerm
    BY DEF HandleAppendReply
  <2>3. m \in AppendReply
    BY <2>1, <2>2, MessageTypes DEF TypeOK
  <2>4. s \in Server /\ d \in Server /\ m.term \in Nat
    BY <2>3 DEF AppendReply
  <2>5. \A t \in Server : currentTerm[t] \in Nat /\ log[t] \in Seq(Entry)
    BY <2>1 DEF TypeOK
  <2>. QED BY <2>1, <2>2, <2>4, <2>5
<1>2. /\ UNCHANGED <<log, handler>>
      /\ messages' \subseteq messages \cup {InstallArgs(s, d)} /\ messages \subseteq messages'
      /\ \/ UNCHANGED leaderVars
         \/ /\ m.success /\ matchIndex' = [matchIndex EXCEPT ![s][d] = match]
            /\ nextIndex' = [nextIndex EXCEPT ![s][d] = match + 1]
         \/ /\ ~m.success /\ m.term <= currentTerm[s] /\ UNCHANGED matchIndex
            /\ nextIndex' = [nextIndex EXCEPT ![s][d] = next]
  BY DEF HandleAppendReply
<1>3. InstallArgs(s, d).type = "InstallSnapshot"
  BY DEF InstallArgs
<1>4. Calm
  BY <1>1, HandleAppendReplyElectionless
<1>5. LeadersKept
  BY <1>1, <1>4, CalmVotes
<1>6. Appends' = Appends
  BY <1>2, <1>3, OtherMessages
<1>7. NothingHalfDone'
  BY <1>1, <1>2 DEF LogInv, NothingHalfDone, Idle
<1>8. \A r \in messages' : r.type = "AppendEntriesReply" => r \in messages
  BY <1>2, <1>3
<1>9. Replied
  BY <1>8 DEF Replied
<1>10. IsAppendReply(m, s, d) /\ s # d
  BY <1>1 DEF IsAppendReply, LogInv, TermsLed
<1>11. m \in AppendReply /\ m.match \in Nat /\ m.conflictIndex \in Nat
       /\ matchIndex[s][d] \in Nat /\ nextIndex[s][d] \in Nat
  <2>1. m \in AppendReply
    BY <1>1, AcksTyped
  <2>. QED BY <1>1, <2>1 DEF AppendReply, TypeOK
<1>12. m.success => match \in Acks(s, d) /\ match <= Len(log[s]) /\ match \in Nat
  <2>1. m.success => m.match \in Acks(s, d)
    BY <1>10 DEF Acks
  <2>2. matchIndex[s][d] \in Acks(s, d)
    BY DEF Acks
  <2>3. \A a \in Acks(s, d) : a <= Len(log[s])
    BY <1>1, <1>10 DEF LogInv, AcksTrue
  <2>4. match = matchIndex[s][d] \/ match = m.match
    BY DEF Greatest
  <2>. HIDE DEF match
  <2>. QED BY <1>11, <2>1, <2>2, <2>3, <2>4
<1>13. nextIndex[s][d] <= Len(log[s]) + 1
       /\ (~m.success /\ m.term <= currentTerm[s] => m.conflictIndex <= Len(log[s]))
  BY <1>1, <1>10 DEF LogInv, RefusalsTrue
<1>14. ~m.success /\ m.term <= currentTerm[s] => next <= Len(log[s]) + 1
  <2>1. next = m.conflictIndex \/ next = nextIndex[s][d] \/ next = nextIndex[s][d] - 1
    OBVIOUS
  <2>2. Len(log[s]) \in Nat
    BY <1>1 DEF TypeOK
  <2>. HIDE DEF next, s, d
  <2>. QED BY <1>11, <1>13, <2>1, <2>2
<1>. HIDE DEF match, next, s, d
<1>15. NextKnown
  <2>. SUFFICES ASSUME NEW t \in Server, NEW x \in Server, state'[t] = "leader"
                PROVE  nextIndex'[t][x] <= Len(log[t]) + 1
    BY DEF NextKnown
  <2>1. nextIndex[t][x] <= Len(log[t]) + 1
    BY <1>1, <1>5 DEF LogInv, RefusalsTrue, LeadersKept
  <2>2. nextIndex \in [Server -> [Server -> Nat]]
    BY <1>1 DEF TypeOK
  <2>3. CASE t = s /\ x = d
    <3>1. CASE UNCHANGED leaderVars
      BY <2>1, <3>1 DEF leaderVars
    <3>2. CASE m.success /\ nextIndex' = [nextIndex EXCEPT ![s][d] = match + 1]
      BY <1>1, <1>12, <2>2, <2>3, <3>2
    <3>3. CASE ~m.success /\ m.term <= currentTerm[s] /\ nextIndex' = [nextIndex EXCEPT ![s][d] = next]
      BY <1>1, <1>14, <2>2, <2>3, <3>3
    <3>. QED BY <1>2, <3>1, <3>2, <3>3
  <2>4. CASE ~(t = s /\ x = d)
    <3>1. \/ nextIndex' = nextIndex
          \/ \E y : nextIndex' = [nextIndex EXCEPT ![s][d] = y]
      BY <1>2 DEF leaderVars
    <3>2. nextIndex'[t][x] = nextIndex[t][x]
      BY <1>1, <2>2, <2>4, <3>1
    <3>. QED BY <2>1, <3>2
  <2>. QED BY <2>3, <2>4
<1>16. \A t, x \in Server : matchIndex'[t][x] \in Acks(t, x)
  <2>. SUFFICES ASSUME NEW t \in Server, NEW x \in Server
                PROVE  matchIndex'[t][x] \in Acks(t, x)
    OBVIOUS
  <2>1. matchIndex[t][x] \in Acks(t, x)
    BY DEF Acks
  <2>2. matchIndex \in [Server -> [Server -> Nat]]
    BY <1>1 DEF TypeOK
  <2>3. CASE UNCHANGED matchIndex
    BY <2>1, <2>3
  <2>4. CASE m.success /\ matchIndex' = [matchIndex EXCEPT ![s][d] = match]
    <3>1. matchIndex'[t][x] = IF t = s /\ x = d THEN match ELSE matchIndex[t][x]
      BY <1>1, <2>2, <2>4
    <3>. QED BY <1>12, <2>1, <2>4, <3>1
  <2>. QED BY <1>2, <2>3, <2>4 DEF leaderVars
<1>. QED BY <1>1, <1>2, <1>4, <1>6, <1>7, <1>8, <1>9, <1>15, <1>16, CalmQuiet

LEMMA HandleInstallSnapshotQuiet ==
    ASSUME Inv, StorageInv', HonestCount', NEW m \in messages, HandleInstallSnapshot(m)
    PROVE  Step /\ Quiet /\ Requested /\ Replied /\ NextKnown /\ CommitsKept
<1>. DEFINE s == m.to
            reply == [type |-> "InstallSnapshotReply", from |-> s, to |-> m.from,
                      term |-> currentTerm[s]]
<1>1. TypeOK /\ TypeOK' /\ LogInv /\ HonestCount /\ s \in Server
  BY InvTypes, MessageTypes DEF StorageInv, TypeInv, TypeOK
<1>2. /\ UNCHANGED <<log, handler, applyVars, leaderVars>>
      /\ messages' = Answer(m, reply, messages)
  BY NothingToInstall DEF HandleInstallSnapshot, Inv, logVars
<1>3. reply.type = "InstallSnapshotReply"
  OBVIOUS
<1>. HIDE DEF reply
<1>4. messages' \subseteq messages \cup {reply} /\ messages \subseteq messages'
  BY <1>2 DEF Answer
<1>5. Calm
  BY <1>1, HandleInstallSnapshotElectionless
<1>6. LeadersKept
  BY <1>1, <1>5, CalmVotes
<1>7. Appends' = Appends
  BY <1>3, <1>4, OtherMessages
<1>8. NothingHalfDone'
  BY <1>1, <1>2 DEF LogInv, NothingHalfDone, Idle
<1>9. PeersKnown /\ NextKnown /\ Replied
  BY <1>1, <1>2, <1>3, <1>4, <1>6, PeersSame
<1>10. \A t, x \in Server : matchIndex'[t][x] \in Acks(t, x)
  BY <1>2 DEF leaderVars, Acks
<1>11. CommitsKept
  BY <1>2 DEF CommitsKept, applyVars
<1>. QED BY <1>1, <1>2, <1>3, <1>4, <1>5, <1>7, <1>8, <1>9, <1>10, <1>11, CalmQuiet

LEMMA HandleInstallReplyQuiet ==
    ASSUME Inv, StorageInv', HonestCount', NEW m \in messages, HandleInstallReply(m)
    PROVE  Step /\ Quiet /\ Requested /\ Replied /\ NextKnown /\ CommitsKept
<1>. DEFINE s == m.to
            d == m.from
<1>1. TypeOK /\ TypeOK' /\ LogInv /\ HonestCount /\ s \in Server /\ d \in Server
      /\ lastIncludedIndex[s] = 0
  BY InvTypes, MessageTypes DEF StorageInv, TypeInv, TypeOK
<1>2. /\ UNCHANGED <<log, handler, applyVars, messages>>
      /\ matchIndex' = [matchIndex EXCEPT ![s][d] = 0]
      /\ nextIndex' = [nextIndex EXCEPT ![s][d] = 1]
  BY <1>1 DEF HandleInstallReply
<1>3. Calm
  BY <1>1, HandleInstallReplyElectionless
<1>4. LeadersKept
  BY <1>1, <1>3, CalmVotes
<1>5. Appends' = Appends
  BY <1>2, OtherMessages
<1>6. NothingHalfDone'
  BY <1>1, <1>2 DEF LogInv, NothingHalfDone, Idle
<1>. HIDE DEF s, d
<1>7. \A t, x \in Server : matchIndex'[t][x] \in Acks(t, x) \cup {0}
  <2>0. matchIndex \in [Server -> [Server -> Nat]]
    BY <1>1 DEF TypeOK
  <2>1. \A t, x \in Server : matchIndex'[t][x] = IF t = s /\ x = d THEN 0 ELSE matchIndex[t][x]
    BY <1>1, <1>2, <2>0
  <2>. QED BY <2>1 DEF Acks
<1>8. NextKnown
  <2>. SUFFICES ASSUME NEW t \in Server, NEW x \in Server, state'[t] = "leader"
                PROVE  nextIndex'[t][x] <= Len(log[t]) + 1
    BY DEF NextKnown
  <2>0. nextIndex \in [Server -> [Server -> Nat]]
    BY <1>1 DEF TypeOK
  <2>1. nextIndex'[t][x] = IF t = s /\ x = d THEN 1 ELSE nextIndex[t][x]
    BY <1>1, <1>2, <2>0
  <2>2. nextIndex[t][x] <= Len(log[t]) + 1
    BY <1>1, <1>4 DEF LogInv, RefusalsTrue, LeadersKept
  <2>3. Len(log[t]) \in Nat
    BY <1>1 DEF TypeOK
  <2>. QED BY <2>1, <2>2, <2>3
<1>9. Replied
  BY <1>2 DEF Replied
<1>10. CommitsKept
  BY <1>2 DEF CommitsKept, applyVars
<1>. QED BY <1>1, <1>2, <1>3, <1>5, <1>6, <1>7, <1>8, <1>9, <1>10, CalmQuiet

LEMMA CrashQuiet ==
    ASSUME Inv, StorageInv', HonestCount', NEW s \in Server, Crash(s)
    PROVE  Step /\ Quiet /\ Requested /\ Replied /\ NextKnown /\ CommitsKept
<1>1. TypeOK /\ TypeOK' /\ LogInv /\ HonestCount /\ StorageInv /\ TypeInv'
      /\ disk[s].snapshot = NoSnapshot
  BY InvTypes DEF StorageInv, TypeInv, Inv, NothingCompacted
<1>2. /\ messages' = Abandon(s, messages)
      /\ nextIndex' = [nextIndex EXCEPT ![s] = [d \in Server |-> 0]]
      /\ matchIndex' = [matchIndex EXCEPT ![s] = [d \in Server |-> 0]]
      /\ handler' = [handler EXCEPT ![s] = Nil]
      /\ commitIndex' = [commitIndex EXCEPT ![s] = 0]
      /\ lastApplied' = [lastApplied EXCEPT ![s] = 0]
      /\ applied' = [applied EXCEPT ![s] = << >>]
      /\ state' = [state EXCEPT ![s] = "follower"]
      /\ crashes' = crashes + 1
  BY <1>1 DEF Crash, Restart, ReadPersist, IngestSnap, NoSnapshot
<1>3. UNCHANGED log
  BY <1>1, CrashStores
<1>4. Calm
  BY <1>1, CrashElectionless
<1>5. LeadersKept
  BY <1>1, <1>4, CalmVotes
<1>6. Appends' = Appends
  <2>1. PICK B \in SUBSET messages : B = {}
    OBVIOUS
  <2>2. messages' = Abandon(s, messages) \cup B /\ \A b \in B : b.type # "AppendEntries"
    BY <1>2, <2>1
  <2>. QED BY <1>1, <2>2, AbandonedAppends
<1>7. NothingHalfDone'
  BY <1>1, <1>2 DEF LogInv, NothingHalfDone, Idle, TypeOK
<1>8. ASSUME NEW m \in messages', m.type = "AppendEntriesReply"
      PROVE  m \in messages
  <2>1. \A n \in messages : m = [n EXCEPT !.live = FALSE] => ~IsRequest(n)
    <3>1. \A n \in messages : IsRequest(n) => [n EXCEPT !.live = FALSE].type = n.type
      BY <1>1, AbandonedDead DEF TypeOK
    <3>. QED BY <1>8, <3>1 DEF IsRequest
  <2>. QED BY <1>2, <2>1 DEF Abandon
<1>9. Replied
  BY <1>8 DEF Replied
<1>10. \A t \in Server : state'[t] = "leader" =>
         matchIndex'[t] = matchIndex[t] /\ nextIndex'[t] = nextIndex[t]
  BY <1>1, <1>2 DEF TypeOK
<1>11. \A t, x \in Server : state'[t] = "leader" => matchIndex'[t][x] \in Acks(t, x)
  BY <1>10 DEF Acks
<1>12. NextKnown
  BY <1>1, <1>5, <1>10 DEF NextKnown, LogInv, RefusalsTrue, LeadersKept
<1>13. CommitsKept
  <2>1. crashes' > crashes
    BY <1>1, <1>2, BoundsAssumption DEF TypeOK
  <2>. QED BY <1>1, <1>2, <2>1 DEF CommitsKept, TypeOK
<1>. QED BY <1>1, <1>3, <1>4, <1>6, <1>7, <1>8, <1>9, <1>11, <1>12, <1>13, CalmQuiet

LEMMA StutterQuiet ==
    ASSUME Inv, StorageInv', HonestCount', UNCHANGED vars
    PROVE  Step /\ Quiet /\ Requested /\ Replied /\ NextKnown /\ CommitsKept
<1>1. TypeOK /\ TypeOK' /\ LogInv /\ HonestCount
  BY InvTypes DEF StorageInv, TypeInv
<1>2. UNCHANGED <<log, messages, leaderVars, applyVars, handler>>
  BY DEF vars, logVars
<1>3. Calm
  BY <1>1, StutterElection
<1>4. LeadersKept
  BY <1>1, <1>3, CalmVotes
<1>5. Appends' = Appends
  BY <1>2, OtherMessages
<1>6. NothingHalfDone'
  BY <1>1, <1>2 DEF LogInv, NothingHalfDone, Idle
<1>7. PeersKnown /\ NextKnown /\ Replied
  BY <1>1, <1>2, <1>4, PeersSame
<1>8. \A t, x \in Server : matchIndex'[t][x] \in Acks(t, x)
  BY <1>2 DEF leaderVars, Acks
<1>9. CommitsKept
  BY <1>2 DEF CommitsKept, applyVars
<1>. QED BY <1>1, <1>2, <1>3, <1>5, <1>6, <1>7, <1>8, <1>9, CalmQuiet

-----------------------------------------------------------------------------
(* A candidate becomes a leader.                                           *)

(* Whose terms were led is led still.                                      *)
LEMMA TermsLedStay ==
    ASSUME Step
    PROVE  /\ \A R \in Pieces : \A i \in Span(R) : i > 0 => \E l \in Server : Led(l, TermIn(R, i))'
           /\ \A m \in Appends : Led(m.from, m.term)'
<1>1. TypeOK /\ LogInv
  BY StepTypes
<1>2. ASSUME NEW R \in Pieces, NEW i \in Span(R), i > 0
      PROVE  \E l \in Server : Led(l, TermIn(R, i))'
  <2>1. TermIn(R, i) \in Nat
    BY <1>1, PiecesTyped, PieceType
  <2>2. PICK l \in Server : Led(l, TermIn(R, i))
    BY <1>1, <1>2 DEF LogInv, TermsLed
  <2>. QED BY <2>1, <2>2, LedStays
<1>3. ASSUME NEW m \in Appends
      PROVE  Led(m.from, m.term)'
  BY <1>1, AppendsTyped, LedStays DEF LogInv, TermsLed
<1>. QED BY <1>2, <1>3

(* Nobody has heard of the term of a candidate with a majority.            *)
NoTrace(term) ==
    /\ \A R \in Pieces : \A i \in Span(R) : TermIn(R, i) # term
    /\ \A m \in Appends : m.term # term
    /\ \A m \in messages : m.type = "AppendEntriesReply" => m.argsTerm # term

LEMMA TermUnheard ==
    ASSUME Inv, NEW s \in Server, state[s] = "candidate", Majority(Cardinality(voters[s]))
    PROVE  NoTrace(currentTerm[s])
<1>1. TypeOK /\ LogInv /\ HonestCount
  BY InvTypes
<1>2. currentTerm[s] \in Nat /\ currentTerm[s] > 0
  BY <1>1 DEF TypeOK, LogInv, TermsBounded, Running
<1>3. \A l \in Server : ~Led(l, currentTerm[s])
  BY <1>1, LedAlone DEF Running
<1>4. ASSUME NEW R \in Pieces, NEW i \in Span(R), TermIn(R, i) = currentTerm[s]
      PROVE  FALSE
  <2>1. R \in Piece /\ i \in Nat
    BY <1>1, PiecesTyped, PieceType
  <2>2. i > 0
    BY <1>1, <1>2, <1>4, <2>1 DEF LogInv, TermsBounded, WellFormed
  <2>. QED BY <1>1, <1>3, <1>4, <2>2 DEF LogInv, TermsLed
<1>5. \A m \in Appends : m.term # currentTerm[s]
  BY <1>1, <1>3, AppendsTyped DEF LogInv, TermsLed
<1>6. ASSUME NEW m \in messages, m.type = "AppendEntriesReply"
      PROVE  m.argsTerm # currentTerm[s]
  <2>1. m.to \in Server
    BY <1>1, <1>6, AcksTyped DEF AppendReply
  <2>. QED BY <1>1, <1>3, <1>6, <2>1 DEF LogInv, TermsLed
<1>. QED BY <1>4, <1>5, <1>6 DEF NoTrace

(* What BecomeLeader changes.                                              *)
Elects(s) ==
    /\ state[s] = "candidate" /\ Majority(Cardinality(voters[s])) /\ voters[s] \in SUBSET Server
    /\ state'[s] = "leader" /\ \A t \in Server \ {s} : state'[t] = state[t]
    /\ \A d \in Server : nextIndex'[s][d] = Len(log[s]) + 1 /\ matchIndex'[s][d] = 0
    /\ \A t \in Server \ {s} : nextIndex'[t] = nextIndex[t] /\ matchIndex'[t] = matchIndex[t]
    /\ UNCHANGED <<currentTerm, voters, log, messages, handler>>
    /\ Pieces' = Pieces /\ Appends' = Appends
    /\ NoTrace(currentTerm[s]) /\ Contends(s)

LEMMA BecomeLeaderElects ==
    ASSUME Inv, StorageInv', HonestCount', NEW s \in Server, BecomeLeader(s)
    PROVE  Elects(s) /\ Step
<1>1. TypeOK /\ TypeOK' /\ LogInv /\ HonestCount /\ lastIncludedIndex[s] = 0
  BY InvTypes DEF StorageInv, TypeInv
<1>2. state[s] = "candidate" /\ Majority(votesGranted[s])
      /\ UNCHANGED <<currentTerm, votedFor, voters, log, messages, handler>>
      /\ state' = [state EXCEPT ![s] = "leader"]
      /\ nextIndex' = [nextIndex EXCEPT ![s] = [d \in Server |-> LastLogIndex(s) + 1]]
      /\ matchIndex' = [matchIndex EXCEPT ![s] = [d \in Server |-> 0]]
  BY DEF BecomeLeader, logVars
<1>3. Majority(Cardinality(voters[s])) /\ voters[s] \in SUBSET Server
  BY <1>1, <1>2 DEF HonestCount, VotesCounted, Running, TypeOK
<1>4. NoTrace(currentTerm[s])
  BY <1>2, <1>3, TermUnheard
<1>5. Contends(s)
  BY <1>2, <1>4 DEF Contends, NoTrace
<1>6. LastLogIndex(s) = Len(log[s])
  BY <1>1, LogAsPiece, InvTypes
<1>7. state'[s] = "leader" /\ \A t \in Server \ {s} : state'[t] = state[t]
  BY <1>1, <1>2 DEF TypeOK
<1>8. \A d \in Server : nextIndex'[s][d] = Len(log[s]) + 1 /\ matchIndex'[s][d] = 0
  BY <1>1, <1>2, <1>6 DEF TypeOK
<1>9. \A t \in Server \ {s} : nextIndex'[t] = nextIndex[t] /\ matchIndex'[t] = matchIndex[t]
  BY <1>1, <1>2 DEF TypeOK
<1>10. Appends' = Appends
  BY <1>2, OtherMessages
<1>11. Pieces' = Pieces
  BY <1>2, <1>10 DEF Pieces
<1>12. StepVotes
  <2>1. \A v \in Server : Kept(v)
    BY <1>1, BecomeLeaderElection
  <2>. QED BY <1>2, <1>7, <2>1 DEF StepVotes, Running
<1>13. Step
  BY <1>1, <1>2, <1>12 DEF Step, LogInv, NothingHalfDone, Idle
<1>. QED BY <1>2, <1>3, <1>4, <1>5, <1>7, <1>8, <1>9, <1>10, <1>11, <1>13 DEF Elects

LEMMA ElectsVotes ==
    ASSUME Step, NEW s \in Server, Elects(s)
    PROVE  /\ VotesJustified
           /\ \A t \in Server : state'[t] = "leader" /\ t # s =>
                 state[t] = "leader" /\ \A x \in Server : Acks(t, x)' = Acks(t, x)
           /\ \A x \in Server : Acks(s, x)' = {0}
           /\ Led(s, currentTerm[s])'
<1>0. TypeOK /\ LogInv /\ HonestCount /\ currentTerm[s] \in Nat
  BY StepTypes
<1>1. VotesJustified
  BY DEF VotesJustified, Elects, Contends, Voted, IsVote
<1>2. \A t \in Server : state'[t] = "leader" /\ t # s =>
         state[t] = "leader" /\ \A x \in Server : Acks(t, x)' = Acks(t, x)
  BY DEF Elects, Acks, IsAppendReply
<1>3. \A x \in Server : Acks(s, x)' = {0}
  BY DEF Elects, Acks, IsAppendReply, NoTrace
<1>4. Running(s) /\ currentTerm[s] >= currentTerm[s] /\ state'[s] = "leader" /\ "leader" # "candidate"
  BY <1>0 DEF Elects, Running
<1>5. ASSUME NEW v \in voters[s]
      PROVE  /\ Cast(v, s, currentTerm[s])'
             /\ \A t \in Server : Running(t)' /\ currentTerm'[t] = currentTerm'[s] /\ t # s => v \notin voters'[t]
             /\ \A m \in messages' : IsVote(m) /\ m.from = v /\ m.argsTerm = currentTerm'[s] => m.to = s
  <2>0. v \in Server
    BY <1>0 DEF TypeOK
  <2>1. Cast(v, s, currentTerm[s])'
    <3>1. Cast(v, s, currentTerm[s])
      BY <1>0, <1>4 DEF HonestCount, VotesCast
    <3>2. Kept(v) /\ TypeOK' /\ currentTerm'[s] = currentTerm[s]
      BY <2>0, StepTypes DEF StepVotes, Elects
    <3>3. PICK term \in Nat : term = currentTerm[s]
      BY <1>0
    <3>4. Cast(v, s, term)'
      BY <1>0, <2>0, <3>1, <3>2, <3>3, CastKept
    <3>. QED BY <3>2, <3>3, <3>4 DEF Cast
  <2>2. \A t \in Server : Running(t)' /\ currentTerm'[t] = currentTerm'[s] /\ t # s => v \notin voters'[t]
    <3>1. \A t \in Server : Running(t) /\ currentTerm[t] = currentTerm[s] /\ t # s => v \notin voters[t]
      BY <1>0, <1>4 DEF HonestCount, OneVoteEach
    <3>. QED BY <3>1 DEF Elects, Running
  <2>3. \A m \in messages' : IsVote(m) /\ m.from = v /\ m.argsTerm = currentTerm'[s] => m.to = s
    <3>1. \A m \in messages : IsVote(m) /\ m.from = v /\ m.argsTerm = currentTerm[s] => m.to = s
      BY <1>0, <1>4 DEF HonestCount, OneVoteEach
    <3>. QED BY <3>1 DEF Elects
  <2>. QED BY <2>1, <2>2, <2>3
<1>6. Led(s, currentTerm[s])'
  <2>1. PICK Q \in SUBSET Server : Q = voters[s]
    BY DEF Elects
  <2>2. Majority(Cardinality(Q))
    BY <2>1 DEF Elects
  <2>. QED BY <1>0, <1>4, <1>5, <2>1, <2>2 DEF Led, Elects, IsVote
<1>. QED BY <1>1, <1>2, <1>3, <1>6

(* Its voters see to it that it has what is secure.                        *)
LEMMA ElectsSecure ==
    ASSUME Step, NEW s \in Server, Elects(s), NEW L \in Seq(Entry), L # << >>,
           NEW A \in SUBSET Server, Secure(A, L),
           currentTerm[s] <= L[Len(L)].term \/ \E x \in A : x \in voters[s]
    PROVE  Secure(A, L)'
<1>1. VotesJustified
  BY ElectsVotes
<1>2. ASSUME NEW c \in Server, state'[c] = "leader", currentTerm'[c] > L[Len(L)].term
      PROVE  Has(Whole(log[c]), Len(L), L[Len(L)].term)
  <2>1. CASE c # s
    BY <1>2, <2>1 DEF Elects, Secure, Inherited
  <2>2. CASE c = s
    <3>1. L[Len(L)].term \in Nat /\ currentTerm[s] \in Nat
      <4>1. Len(L) \in 1 .. Len(L)
        BY EmptySeq
      <4>2. L[Len(L)] \in Entry
        BY <4>1
      <4>. QED BY <4>2, StepTypes DEF Entry
    <3>2. PICK x \in A : x \in voters[s]
      BY <1>2, <2>2, <3>1 DEF Elects
    <3>3. Voted(x, s)
      BY <3>2 DEF Voted
    <3>. QED BY <1>2, <2>2, <3>2, <3>3 DEF Secure, HeldBy, Elects
  <2>. QED BY <2>1, <2>2
<1>3. Inherited(Len(L), L[Len(L)].term)'
  BY <1>2 DEF Secure, Inherited, Elects
<1>4. Uncontradicted(L)'
  BY DEF Secure, Uncontradicted, Elects
<1>5. \A x \in A : Begins(log'[x], L)
  BY DEF Secure, HeldBy, Elects
<1>. QED BY <1>1, <1>3, <1>4, <1>5, SecureOn

LEMMA ElectsOwn ==
    ASSUME Step, NEW s \in Server, Elects(s)
    PROVE  OwnEntriesSecure'
<1>. SUFFICES ASSUME NEW t \in Server, state'[t] = "leader",
                     NEW i \in 1 .. Len(log'[t]), log'[t][i].term = currentTerm'[t]
              PROVE  Blocked(t, i)' \/ Secure(Ackers(t, i), SubSeq(log[t], 1, i))'
  BY DEF OwnEntriesSecure
<1>0. TypeOK /\ HonestCount /\ \A v \in Server : currentTerm[v] \in Nat /\ log[v] \in Seq(Entry)
  BY StepTypes
<1>1. CASE t = s
  <2>1. Whole(log[s]) \in Pieces /\ i \in Span(Whole(log[s])) /\ TermIn(Whole(log[s]), i) = log[s][i].term
    BY <1>0, <1>1, PiecesTyped, WholePiece DEF Elects
  <2>. QED BY <1>1, <2>1 DEF Elects, NoTrace
<1>2. CASE t # s
  <2>1. /\ state[t] = "leader" /\ currentTerm'[t] = currentTerm[t] /\ log'[t] = log[t]
        /\ \A x \in Server \ {t} : Acks(t, x)' \subseteq Acks(t, x) \cup {0}
        /\ \A x \in Server : Acks(t, x)' = Acks(t, x)
    BY <1>2, ElectsVotes DEF Elects
  <2>2. ASSUME NEW k \in 1 .. Len(log[t]), NEW L \in Seq(Entry), log[t][k].term = currentTerm[t],
               L # << >>, Begins(log[t], L), Len(L) = k,
               NEW A \in SUBSET Server, Ackers(t, k) \subseteq A, Secure(A, L)
        PROVE  Blocked(t, k)' \/ Secure(A, L)'
    <3>1. L[Len(L)].term = currentTerm[t]
      <4>1. Len(L) \in 1 .. Len(L)
        BY EmptySeq, <2>2
      <4>. QED BY <2>2, <4>1 DEF Begins
    <3>2. CASE currentTerm[s] <= currentTerm[t] \/ \E x \in A : x \in voters[s]
      BY <2>2, <3>1, <3>2, ElectsSecure
    <3>3. CASE currentTerm[s] > currentTerm[t] /\ \A x \in A : x \notin voters[s]
      <4>1. PICK Q \in SUBSET Server : Q = voters[s] /\ Majority(Cardinality(Q))
        BY DEF Elects
      <4>2. ASSUME NEW x \in Q
            PROVE  currentTerm'[x] > currentTerm'[t] /\ ~Acked(t, x, k)'
        <5>1. Cast(x, s, currentTerm[s])
          BY <1>0, <4>1 DEF HonestCount, VotesCast, Running, Elects
        <5>2. currentTerm[x] >= currentTerm[s] /\ x \in Server
          BY <1>0, <5>1 DEF Cast
        <5>3. currentTerm[x] > currentTerm[t] /\ x # t
          BY <1>0, <3>3, <5>2
        <5>4. ~Acked(t, x, k)
          BY <2>2, <3>3, <4>1, <5>2, <5>3 DEF Ackers
        <5>. QED BY <2>1, <5>2, <5>3, <5>4 DEF Acked, Elects
      <4>. QED BY <4>1, <4>2 DEF Blocked
    <3>. QED BY <1>0, <3>2, <3>3
  <2>. QED BY <2>1, <2>2, OwnEntriesStay
<1>. QED BY <1>1, <1>2

LEMMA ElectsChosen ==
    ASSUME Step, NEW s \in Server, Elects(s)
    PROVE  ChosenKept
<1>. SUFFICES ASSUME NEW L \in Seq(Entry), L # << >>, Chosen(L)
              PROVE  Chosen(L)'
  BY DEF ChosenKept, Elects
<1>1. PICK Q \in SUBSET Server : Majority(Cardinality(Q)) /\ Secure(Q, L)
  BY DEF Chosen
<1>2. PICK V \in SUBSET Server : V = voters[s] /\ Majority(Cardinality(V))
  BY DEF Elects
<1>3. \E x \in Q : x \in voters[s]
  BY <1>1, <1>2, MajoritiesMeet
<1>4. Secure(Q, L)'
  BY <1>1, <1>3, ElectsSecure
<1>. QED BY <1>1, <1>4 DEF Chosen

LEMMA BecomeLeaderAgrees ==
    ASSUME Inv, StorageInv', HonestCount', NEW s \in Server, BecomeLeader(s)
    PROVE  Step /\ Agreement' /\ ChosenKept /\ CommitsKept
<1>1. Step /\ Elects(s)
  BY BecomeLeaderElects
<1>2. /\ TypeOK /\ LogInv /\ UNCHANGED <<log, currentTerm, messages>>
      /\ Pieces' = Pieces /\ Appends' = Appends
      /\ \A t \in Server : currentTerm[t] \in Nat /\ Len(log[t]) \in Nat
  BY <1>1, StepTypes DEF Elects
<1>3. /\ VotesJustified
      /\ \A t \in Server : state'[t] = "leader" /\ t # s =>
            state[t] = "leader" /\ \A x \in Server : Acks(t, x)' = Acks(t, x)
      /\ \A x \in Server : Acks(s, x)' = {0}
      /\ Led(s, currentTerm[s])'
  BY <1>1, ElectsVotes
<1>4. Requested
  BY <1>2 DEF Requested
<1>5. RequestsTrue' /\ \A m \in messages' : m.type = "RequestVote" => m.term <= currentTerm'[m.from]
  BY <1>1, <1>2, <1>3, <1>4, RequestsStay
<1>6. TermsBounded'
  <2>1. \A t \in Server : Running(t)' => currentTerm'[t] > 0
    BY <1>1, RunningTerms
  <2>. QED BY <1>2, <1>5, <2>1 DEF LogInv, TermsBounded
<1>7. TermsLed'
  <2>1. \A m \in messages' : m.type = "AppendEntriesReply" =>
           m.from # m.to /\ Led(m.to, m.argsTerm)'
    <3>1. \A m \in messages : m.type = "AppendEntriesReply" => m.to \in Server /\ m.argsTerm \in Nat
      BY <1>2, AcksTyped DEF AppendReply
    <3>. QED BY <1>1, <1>2, <3>1, LedStays DEF LogInv, TermsLed
  <2>2. ASSUME NEW t \in Server, state'[t] = "leader"
        PROVE  Led(t, currentTerm[t])'
    <3>1. CASE t = s
      BY <1>3, <3>1
    <3>2. CASE t # s
      <4>1. PICK term \in Nat : term = currentTerm[t]
        BY <1>2
      <4>2. Led(t, term)
        BY <1>2, <1>3, <2>2, <3>2, <4>1 DEF LogInv, TermsLed
      <4>3. Led(t, term)' /\ currentTerm'[t] = term
        BY <1>1, <1>2, <4>1, <4>2, LedStays
      <4>. QED BY <4>3 DEF Led
    <3>. QED BY <3>1, <3>2
  <2>3. /\ \A R \in Pieces' : \A i \in Span(R) : i > 0 => \E l \in Server : Led(l, TermIn(R, i))'
        /\ \A m \in Appends' : Led(m.from, m.term)'
    BY <1>1, <1>2, TermsLedStay
  <2>. QED BY <2>1, <2>2, <2>3 DEF TermsLed, Led, Span, TermIn, End, EntryIn
<1>8. PiecesMatch'
  BY <1>2 DEF LogInv, PiecesMatch
<1>9. LeaderOwns'
  <2>. SUFFICES ASSUME NEW t \in Server, state'[t] = "leader"
                PROVE  /\ \A R \in Pieces : \A i \in Span(R) : TermIn(R, i) = currentTerm[t] =>
                             i <= Len(log[t]) /\ TermIn(Whole(log[t]), i) = currentTerm[t]
                       /\ \A m \in Appends : m.term = currentTerm[t] =>
                             /\ End(Sent(m)) <= Len(log[t])
                             /\ \A i \in Span(Sent(m)) : TermIn(Sent(m), i) = TermIn(Whole(log[t]), i)
    BY <1>2 DEF LeaderOwns
  <2>1. CASE t = s
    BY <1>1, <2>1 DEF Elects, NoTrace
  <2>2. CASE t # s
    BY <1>2, <1>3, <2>2 DEF LogInv, LeaderOwns
  <2>. QED BY <2>1, <2>2
<1>10. AcksTrue'
  <2>. SUFFICES ASSUME NEW t \in Server, NEW x \in Server, state'[t] = "leader", t # x,
                       NEW a \in Acks(t, x)'
                PROVE  /\ a <= Len(log[t])
                       /\ a > 0 => currentTerm[x] >= currentTerm[t]
                       /\ currentTerm[x] = currentTerm[t] =>
                            a <= Len(log[x]) /\ \A i \in 1 .. a : log[x][i] = log[t][i]
    BY <1>2 DEF AcksTrue
  <2>1. CASE t = s
    BY <1>2, <1>3, <2>1
  <2>2. CASE t # s
    BY <1>2, <1>3, <2>2 DEF LogInv, AcksTrue
  <2>. QED BY <2>1, <2>2
<1>11. RefusalsTrue'
  <2>. SUFFICES ASSUME NEW t \in Server, NEW x \in Server, state'[t] = "leader"
                PROVE  /\ nextIndex'[t][x] <= Len(log[t]) + 1
                       /\ \A m \in messages : IsAppendReply(m, t, x) /\ ~m.success /\ m.term <= currentTerm[t] =>
                             m.conflictIndex <= Len(log[t])
    BY <1>2 DEF RefusalsTrue, IsAppendReply
  <2>1. CASE t = s
    BY <1>1, <1>2, <2>1 DEF Elects, NoTrace, IsAppendReply
  <2>2. CASE t # s
    BY <1>1, <1>2, <1>3, <2>2 DEF Elects, LogInv, RefusalsTrue
  <2>. QED BY <2>1, <2>2
<1>12. CommitsKept
  BY DEF BecomeLeader, CommitsKept, applyVars
<1>. QED BY <1>1, <1>5, <1>6, <1>7, <1>8, <1>9, <1>10, <1>11, <1>12, ElectsOwn, ElectsChosen
     DEF Agreement, Step

-----------------------------------------------------------------------------
(* start() appends an entry to the log of a leader.                        *)

(* What Start changes.                                                     *)
Extends(s) ==
    /\ state[s] = "leader"
    /\ log'[s] \in Seq(Entry) /\ Len(log'[s]) = Len(log[s]) + 1
    /\ \A i \in 1 .. Len(log[s]) : log'[s][i] = log[s][i]
    /\ log'[s][Len(log[s]) + 1].term = currentTerm[s]
    /\ \A t \in Server \ {s} : log'[t] = log[t]
    /\ UNCHANGED <<currentTerm, state, voters, messages, matchIndex, nextIndex>>
    /\ Appends' = Appends

LEMMA StartExtends ==
    ASSUME Inv, StorageInv', HonestCount', NEW s \in Server, NEW c \in Command, Start(s, c)
    PROVE  Extends(s) /\ Step /\ Calm
<1>. DEFINE e == [term |-> currentTerm[s], command |-> c]
<1>1. TypeOK /\ TypeOK' /\ LogInv /\ HonestCount
  BY InvTypes DEF StorageInv, TypeInv
<1>2. /\ state[s] = "leader" /\ log' = [log EXCEPT ![s] = Append(log[s], e)]
      /\ UNCHANGED <<currentTerm, state, voters, messages, matchIndex, nextIndex, handler>>
  BY DEF Start, electionVars, leaderVars
<1>3. currentTerm[s] \in Nat /\ log[s] \in Seq(Entry) /\ log \in [Server -> Seq(Entry)]
  BY <1>1 DEF TypeOK
<1>4. e \in Entry /\ e.term = currentTerm[s]
  BY <1>3 DEF Entry
<1>. HIDE DEF e
<1>5. /\ log'[s] \in Seq(Entry) /\ Len(log'[s]) = Len(log[s]) + 1
      /\ \A i \in 1 .. Len(log[s]) : log'[s][i] = log[s][i]
      /\ log'[s][Len(log[s]) + 1] = e
      /\ \A t \in Server \ {s} : log'[t] = log[t]
  BY <1>2, <1>3, <1>4
<1>6. Calm
  BY <1>1, StartElectionless
<1>7. Appends' = Appends
  BY <1>2, OtherMessages
<1>8. Step
  BY <1>1, <1>2, <1>6, CalmVotes DEF Step, LogInv, NothingHalfDone, Idle
<1>. QED BY <1>2, <1>4, <1>5, <1>6, <1>7, <1>8 DEF Extends

LEMMA ExtendsPieces ==
    ASSUME Step, NEW s \in Server, Extends(s)
    PROVE  LET W == Whole(log[s])
               V == Whole(log'[s])
               n == Len(log[s])
           IN  /\ W \in Piece /\ V \in Piece /\ W \in Pieces /\ n \in Nat
               /\ Span(W) = 0 .. n /\ Span(V) = 0 .. n + 1 /\ End(V) = n + 1
               /\ \A i \in 0 .. n : Same(V, W, i) /\ TermIn(V, i) = TermIn(W, i)
               /\ TermIn(V, n + 1) = currentTerm[s] /\ LastTerm(V) = currentTerm[s]
               /\ V.base = 0 /\ W.base = 0
               /\ \A R \in Pieces' : R = V \/ R \in Pieces
               /\ Pieces \subseteq Piece
<1>. DEFINE W == Whole(log[s])
            V == Whole(log'[s])
            n == Len(log[s])
<1>1. TypeOK /\ log[s] \in Seq(Entry) /\ log'[s] \in Seq(Entry) /\ n \in Nat /\ Len(log'[s]) = n + 1
  BY StepTypes DEF Extends
<1>2. /\ W \in Piece /\ W.base = 0 /\ Span(W) = 0 .. n /\ TermIn(W, 0) = 0
      /\ \A i \in 1 .. n : EntryIn(W, i) = log[s][i] /\ TermIn(W, i) = log[s][i].term
  BY <1>1, WholePiece
<1>3. /\ V \in Piece /\ V.base = 0 /\ Span(V) = 0 .. n + 1 /\ TermIn(V, 0) = 0 /\ End(V) = n + 1
      /\ \A i \in 1 .. n + 1 : EntryIn(V, i) = log'[s][i] /\ TermIn(V, i) = log'[s][i].term
  BY <1>1, WholePiece
<1>4. \A i \in 1 .. n : log'[s][i] = log[s][i]
  BY DEF Extends
<1>5. TermIn(V, n + 1) = currentTerm[s]
  BY <1>1, <1>3 DEF Extends
<1>6. W \in Pieces /\ Pieces \subseteq Piece
  BY <1>1, PiecesTyped
<1>7. \A R \in Pieces' : R = V \/ R \in Pieces
  BY DEF Pieces, Extends
<1>. HIDE DEF W, V, n
<1>8. ASSUME NEW i \in 0 .. n
      PROVE  Same(V, W, i) /\ TermIn(V, i) = TermIn(W, i)
  <2>1. CASE i = 0
    BY <1>2, <1>3, <2>1 DEF Same
  <2>2. CASE i # 0
    <3>1. i \in 1 .. n /\ i \in 1 .. n + 1
      BY <1>1, <2>2
    <3>. QED BY <1>2, <1>3, <1>4, <3>1 DEF Same
  <2>. QED BY <2>1, <2>2
<1>. QED BY <1>1, <1>2, <1>3, <1>5, <1>6, <1>7, <1>8 DEF LastTerm, W, V, n

(* No piece of the leader's term goes further than its log.                *)
LEMMA OwnedBy ==
    ASSUME Inv, NEW s \in Server, state[s] = "leader", NEW R \in Pieces, NEW i \in Span(R),
           TermIn(R, i) = currentTerm[s]
    PROVE  i <= Len(log[s]) /\ TermIn(Whole(log[s]), i) = currentTerm[s]
BY InvTypes DEF LogInv, LeaderOwns

LEMMA ExtendsShape ==
    ASSUME Step, NEW s \in Server, Extends(s)
    PROVE  /\ \A R \in Pieces' : WellFormed(R)
           /\ LastTerm(Whole(log'[s])) <= currentTerm[s]
           /\ \A R \in Pieces : Matching(Whole(log'[s]), R)
<1>. DEFINE W == Whole(log[s])
            V == Whole(log'[s])
            n == Len(log[s])
<1>1. /\ W \in Piece /\ V \in Piece /\ W \in Pieces /\ n \in Nat
      /\ Span(W) = 0 .. n /\ Span(V) = 0 .. n + 1
      /\ \A i \in 0 .. n : Same(V, W, i) /\ TermIn(V, i) = TermIn(W, i)
      /\ TermIn(V, n + 1) = currentTerm[s] /\ LastTerm(V) = currentTerm[s]
      /\ V.base = 0 /\ W.base = 0
      /\ \A R \in Pieces' : R = V \/ R \in Pieces
      /\ Pieces \subseteq Piece
  BY ExtendsPieces
<1>2. Inv /\ TypeOK /\ LogInv /\ currentTerm[s] \in Nat /\ state[s] = "leader" /\ currentTerm[s] > 0
  BY StepTypes DEF Extends, LogInv, TermsBounded, Running
<1>3. WellFormed(W) /\ LastTerm(W) <= currentTerm[s] /\ LastTerm(W) \in Nat
  BY <1>1, <1>2, PieceType DEF LogInv, TermsBounded
<1>4. \A i \in Span(W) : TermIn(W, i) <= currentTerm[s] /\ TermIn(W, i) \in Nat
  BY <1>1, <1>2, <1>3, TermsGrowIn, PieceType
<1>. HIDE DEF W, V, n
<1>5. WellFormed(V)
  <2>1. ASSUME NEW i \in 0 .. n + 1, NEW j \in 0 .. n + 1, i <= j
        PROVE  TermIn(V, i) <= TermIn(V, j)
    <3>1. CASE j <= n
      BY <1>1, <1>3, <2>1, <3>1 DEF WellFormed
    <3>2. CASE j = n + 1 /\ i <= n
      BY <1>1, <1>4, <2>1, <3>2
    <3>3. CASE j = n + 1 /\ i = n + 1
      BY <1>1, <1>2, <3>3
    <3>. QED BY <1>1, <2>1, <3>1, <3>2, <3>3
  <2>2. ASSUME NEW i \in 0 .. n + 1
        PROVE  TermIn(V, i) = 0 <=> i = 0
    <3>1. CASE i <= n
      BY <1>1, <1>3, <2>2, <3>1 DEF WellFormed
    <3>2. CASE i = n + 1
      BY <1>1, <1>2, <3>2
    <3>. QED BY <1>1, <2>2, <3>1, <3>2
  <2>. QED BY <1>1, <2>1, <2>2 DEF WellFormed
<1>6. ASSUME NEW R \in Pieces
      PROVE  Matching(V, R)
  <2>. SUFFICES ASSUME NEW i \in Span(V) \cap Span(R), TermIn(V, i) = TermIn(R, i),
                       NEW j \in Span(V) \cap Span(R), j <= i
                PROVE  Same(V, R, j)
    BY SameMatching
  <2>1. i # n + 1
    <3>. SUFFICES ASSUME i = n + 1 PROVE FALSE
      OBVIOUS
    <3>1. i <= n
      BY <1>1, <1>2, OwnedBy DEF n
    <3>. QED BY <1>1, <3>1
  <2>2. i \in 0 .. n /\ j \in 0 .. n
    BY <1>1, <2>1
  <2>3. TermIn(W, i) = TermIn(R, i) /\ i \in Span(W) /\ j \in Span(W)
    BY <1>1, <2>2
  <2>4. Same(W, R, j)
    BY <1>1, <1>2, <2>3, MatchingSame DEF LogInv, PiecesMatch
  <2>5. Same(V, W, j)
    BY <1>1, <2>2
  <2>6. R.base \in Nat /\ j \in Nat
    BY <1>1, <2>2, PieceType
  <2>. QED BY <1>1, <2>4, <2>5, <2>6 DEF Same
<1>. QED BY <1>1, <1>2, <1>5, <1>6 DEF LogInv, TermsBounded, V

(* What is secure, and is on some log, stays secure.                       *)
LEMMA ExtendsSecure ==
    ASSUME Step, VotesJustified, NEW s \in Server, Extends(s),
           NEW L \in Seq(Entry), L # << >>, NEW A \in SUBSET Server, Secure(A, L),
           NEW y \in Server, Begins(log[y], L)
    PROVE  Secure(A, L)'
<1>. DEFINE W == Whole(log[s])
            V == Whole(log'[s])
            n == Len(log[s])
<1>1. /\ W \in Piece /\ V \in Piece /\ W \in Pieces /\ n \in Nat
      /\ Span(W) = 0 .. n /\ Span(V) = 0 .. n + 1 /\ End(V) = n + 1
      /\ \A i \in 0 .. n : Same(V, W, i) /\ TermIn(V, i) = TermIn(W, i)
      /\ LastTerm(V) = currentTerm[s]
      /\ V.base = 0 /\ W.base = 0
      /\ \A R \in Pieces' : R = V \/ R \in Pieces
  BY ExtendsPieces
<1>2. /\ Inv /\ TypeOK /\ currentTerm[s] \in Nat /\ state[s] = "leader"
      /\ log[s] \in Seq(Entry) /\ log'[s] \in Seq(Entry) /\ Len(log'[s]) = n + 1
      /\ log[y] \in Seq(Entry) /\ Whole(log[y]) \in Pieces
      /\ \A x \in Server : log[x] \in Seq(Entry) /\ log'[x] \in Seq(Entry)
  BY StepTypes, PiecesTyped DEF Extends
<1>. DEFINE k == Len(L)
            T == L[Len(L)].term
<1>3. /\ k \in Nat /\ k > 0 /\ T \in Nat /\ TermIn(Whole(log[y]), k) = T /\ k \in Span(Whole(log[y]))
  BY <1>2, BeginsWith
<1>. HIDE DEF W, V, n, k, T
<1>4. Has(W, k, T) => Has(V, k, T)
  <2>. SUFFICES ASSUME Has(W, k, T) PROVE Has(V, k, T)
    OBVIOUS
  <2>1. k <= n /\ TermIn(W, k) = T
    BY <1>2, <1>3, HasWhole DEF W, n
  <2>2. k <= Len(log'[s]) /\ TermIn(V, k) = T
    BY <1>1, <1>2, <1>3, <2>1
  <2>. QED BY <1>2, <1>3, <2>2, HasWhole DEF V
<1>5. currentTerm[s] > T => Has(W, k, T)
  BY <1>2 DEF Secure, Inherited, W, k, T
<1>6. currentTerm[s] = T => Has(W, k, T)
  <2>. SUFFICES ASSUME currentTerm[s] = T PROVE Has(W, k, T)
    OBVIOUS
  <2>1. k <= n /\ TermIn(W, k) = T
    BY <1>2, <1>3, OwnedBy DEF n, W
  <2>. QED BY <1>2, <1>3, <2>1, HasWhole DEF W, n
<1>7. Beyond(V, k, T) => Has(V, k, T)
  BY <1>1, <1>2, <1>3, <1>4, <1>5, <1>6 DEF Beyond
<1>8. ASSUME NEW c \in Server, state'[c] = "leader", currentTerm'[c] > T
      PROVE  Has(Whole(log'[c]), k, T)
  <2>1. CASE c = s
    BY <1>4, <1>5, <1>8, <2>1 DEF Extends, V
  <2>2. CASE c # s
    BY <1>8, <2>2 DEF Extends, Secure, Inherited, k, T
  <2>. QED BY <2>1, <2>2
<1>9. \A R \in Pieces' : Beyond(R, k, T) => Has(R, k, T)
  BY <1>1, <1>7 DEF Secure, Inherited, k, T
<1>10. Inherited(Len(L), L[Len(L)].term)'
  BY <1>8, <1>9 DEF Secure, Inherited, Extends, k, T
<1>11. Uncontradicted(L)'
  BY DEF Secure, Uncontradicted, Extends
<1>12. ASSUME NEW x \in A
       PROVE  Begins(log'[x], L)
  <2>0. x \in Server /\ Begins(log[x], L)
    BY DEF Secure, HeldBy
  <2>1. CASE x # s
    BY <2>0, <2>1 DEF Extends
  <2>2. CASE x = s
    BY <1>1, <1>2, <1>3, <2>0, <2>2 DEF Begins, Extends, k, n
  <2>. QED BY <2>1, <2>2
<1>. QED BY <1>10, <1>11, <1>12, SecureOn

LEMMA ExtendsKeeps ==
    ASSUME Step, NEW s \in Server, Extends(s)
    PROVE  /\ \A t \in Server : /\ Len(log[t]) <= Len(log'[t])
                                /\ \A i \in 1 .. Len(log[t]) : log'[t][i] = log[t][i]
           /\ \A t, x \in Server : Acks(t, x)' = Acks(t, x)
           /\ \A y \in Server : \A L \in Seq(Entry) : Begins(log[y], L) => Begins(log'[y], L)
<1>1. \A t \in Server : Len(log[t]) \in Nat
  BY StepTypes
<1>2. \A t \in Server : /\ Len(log[t]) <= Len(log'[t])
                        /\ \A i \in 1 .. Len(log[t]) : log'[t][i] = log[t][i]
  BY <1>1 DEF Extends
<1>3. \A t, x \in Server : Acks(t, x)' = Acks(t, x)
  BY DEF Acks, IsAppendReply, Extends
<1>4. ASSUME NEW y \in Server, NEW L \in Seq(Entry), Begins(log[y], L)
      PROVE  Begins(log'[y], L)
  <2>1. Len(log[y]) \in Nat /\ Len(log'[y]) \in Nat /\ Len(L) \in Nat /\ Len(L) <= Len(log[y])
    BY <1>4, StepTypes DEF Begins
  <2>. QED BY <1>2, <1>4, <2>1 DEF Begins
<1>. QED BY <1>2, <1>3, <1>4

(* The new entry: nobody has acknowledged it, and only a later leader      *)
(* could lack it.                                                          *)
LEMMA ExtendsNew ==
    ASSUME Step, NEW s \in Server, Extends(s), NEW n \in Nat, n = Len(log[s]),
           NEW L \in Seq(Entry), L = log'[s]
    PROVE  Blocked(s, n + 1)' \/ Secure(Ackers(s, n + 1), L)'
<1>. DEFINE W == Whole(log[s])
            V == Whole(log'[s])
            U == currentTerm[s]
<1>1. /\ W \in Piece /\ V \in Piece /\ W \in Pieces
      /\ Span(W) = 0 .. n /\ Span(V) = 0 .. n + 1 /\ End(V) = n + 1
      /\ \A i \in 0 .. n : TermIn(V, i) = TermIn(W, i)
      /\ TermIn(V, n + 1) = U /\ LastTerm(V) = U /\ V.base = 0
      /\ \A R \in Pieces' : R = V \/ R \in Pieces
      /\ Pieces \subseteq Piece
  BY ExtendsPieces
<1>2. /\ Inv /\ TypeOK /\ LogInv /\ U \in Nat /\ state[s] = "leader" /\ U > 0
      /\ currentTerm'[s] = U /\ Len(log[s]) = n /\ Len(L) = n + 1 /\ L[n + 1].term = U
      /\ log[s] \in Seq(Entry)
      /\ \A t \in Server : currentTerm[t] \in Nat
  BY StepTypes DEF Extends, LogInv, TermsBounded, Running
<1>3. \A x \in Server : ~Acked(s, x, n + 1)' \/ x = s
  <2>. SUFFICES ASSUME NEW x \in Server, x # s, NEW a \in Acks(s, x)'
                PROVE  ~(n + 1 <= a)
    BY DEF Acked
  <2>1. a \in Acks(s, x) /\ a \in Nat
    BY <1>2, ExtendsKeeps, AcksTyped
  <2>2. a <= n
    BY <1>2, <2>1 DEF LogInv, AcksTrue
  <2>. QED BY <2>1, <2>2
<1>4. CASE \E l \in Server : \E term \in Nat : term > U /\ Led(l, term)
  <2>1. PICK l \in Server, term \in Nat : term > U /\ Led(l, term)
    BY <1>4
  <2>2. PICK Q \in SUBSET Server :
          /\ Majority(Cardinality(Q))
          /\ \A v \in Q : Cast(v, l, term)
    BY <2>1 DEF Led
  <2>3. ASSUME NEW v \in Q
        PROVE  currentTerm'[v] > currentTerm'[s] /\ ~Acked(s, v, n + 1)'
    <3>1. currentTerm[v] >= term
      BY <1>2, <2>1, <2>2 DEF Cast
    <3>2. currentTerm'[v] > currentTerm'[s] /\ v # s
      BY <1>2, <2>1, <3>1 DEF Extends
    <3>. QED BY <1>3, <3>2
  <2>. QED BY <2>2, <2>3 DEF Blocked
<1>5. CASE ~\E l \in Server : \E term \in Nat : term > U /\ Led(l, term)
  <2>1. ASSUME NEW R \in Pieces, NEW i \in Span(R)
        PROVE  TermIn(R, i) \in Nat /\ TermIn(R, i) <= U
    <3>1. TermIn(R, i) \in Nat /\ i \in Nat
      BY <1>1, PieceType
    <3>2. CASE i = 0
      BY <1>2, <3>2, <3>1 DEF LogInv, TermsBounded, WellFormed
    <3>3. CASE i > 0
      BY <1>2, <1>5, <3>1, <3>3 DEF LogInv, TermsLed
    <3>. QED BY <3>1, <3>2, <3>3
  <2>2. ASSUME NEW R \in Pieces, Beyond(R, n + 1, U)
        PROVE  FALSE
    <3>1. End(R) \in Span(R) /\ End(R) \in Nat /\ LastTerm(R) = TermIn(R, End(R))
      BY <1>1, PieceType DEF LastTerm
    <3>2. LastTerm(R) <= U /\ LastTerm(R) \in Nat
      BY <2>1, <3>1
    <3>3. LastTerm(R) = U /\ End(R) >= n + 1
      BY <1>2, <2>2, <3>2 DEF Beyond
    <3>4. End(R) <= n
      BY <1>2, <3>1, <3>3, OwnedBy
    <3>. QED BY <3>1, <3>3, <3>4
  <2>3. Has(V, n + 1, U)
    BY <1>1 DEF Has
  <2>4. \A c \in Server : state'[c] = "leader" => ~(currentTerm'[c] > U)
    BY <1>2, <1>5 DEF LogInv, TermsLed, Extends
  <2>5. \A m \in Appends' : ~(m.term > U)
    BY <1>2, <1>5, AppendsTyped DEF LogInv, TermsLed, Extends
  <2>6. Inherited(Len(L), L[Len(L)].term)'
    BY <1>1, <1>2, <2>2, <2>3, <2>4, <2>5 DEF Inherited
  <2>7. ASSUME NEW m \in Appends, m.term = U, NEW i \in Span(Sent(m)) \cap 1 .. Len(L)
        PROVE  TermIn(Sent(m), i) = L[i].term
    <3>1. /\ End(Sent(m)) <= n /\ TermIn(Sent(m), i) = TermIn(W, i)
          /\ Sent(m) \in Piece
      BY <1>2, <2>7, AppendsTyped DEF LogInv, LeaderOwns
    <3>2. i \in 1 .. n /\ i \in 1 .. Len(log[s])
      <4>1. End(Sent(m)) \in Nat /\ i <= End(Sent(m)) /\ i \in Nat /\ i >= 1
        BY <3>1, PieceType DEF Span
      <4>. QED BY <1>2, <3>1, <4>1
    <3>3. L[i] = log[s][i] /\ TermIn(W, i) = log[s][i].term
      BY <1>2, <3>2, WholePiece DEF Extends
    <3>. QED BY <3>1, <3>3
  <2>8. Uncontradicted(L)'
    BY <1>2, <2>7 DEF Uncontradicted, Extends
  <2>9. Ackers(s, n + 1)' = {}
    BY <1>3 DEF Ackers
  <2>. QED BY <2>6, <2>8, <2>9 DEF Secure
<1>. QED BY <1>4, <1>5

LEMMA ExtendsOwn ==
    ASSUME Step, VotesJustified, NEW s \in Server, Extends(s)
    PROVE  OwnEntriesSecure'
<1>. SUFFICES ASSUME NEW t \in Server, state'[t] = "leader",
                     NEW i \in 1 .. Len(log'[t]), log'[t][i].term = currentTerm'[t]
              PROVE  Blocked(t, i)' \/ Secure(Ackers(t, i), SubSeq(log[t], 1, i))'
  BY DEF OwnEntriesSecure
<1>1. /\ state[t] = "leader" /\ currentTerm'[t] = currentTerm[t]
      /\ \A x \in Server \ {t} : Acks(t, x)' \subseteq Acks(t, x) \cup {0}
      /\ log'[t] \in Seq(Entry) /\ log[t] \in Seq(Entry)
  BY ExtendsKeeps, StepTypes DEF Extends
<1>2. PICK L : L = SubSeq(log'[t], 1, i)
  OBVIOUS
<1>3. L \in Seq(Entry) /\ L # << >> /\ Len(L) = i /\ Begins(log'[t], L)
  <2>1. i \in Nat /\ i > 0 /\ i <= Len(log'[t])
    BY <1>1
  <2>2. UpTo(L, log'[t], i)
    BY <1>1, <1>2, <2>1, PrefixUpTo
  <2>. QED BY <2>2 DEF UpTo
<1>4. CASE i <= Len(log[t])
  <2>1. i \in Nat /\ i > 0 /\ i \in 1 .. Len(log[t])
    BY <1>1, <1>4
  <2>2. Begins(log[t], L) /\ log[t][i].term = currentTerm[t]
    <3>1. \A j \in 1 .. Len(log[t]) : log'[t][j] = log[t][j]
      BY ExtendsKeeps
    <3>2. \A j \in 1 .. i : j \in 1 .. Len(log[t]) /\ L[j] = log[t][j]
      BY <1>1, <1>3, <1>4, <2>1, <3>1 DEF Begins
    <3>3. log[t][i].term = currentTerm[t]
      BY <1>1, <2>1, <3>1
    <3>. QED BY <1>3, <1>4, <3>2, <3>3 DEF Begins
  <2>3. \A A \in SUBSET Server :
          Ackers(t, i) \subseteq A /\ Secure(A, L) => Blocked(t, i)' \/ Secure(A, L)'
    BY <1>3, <2>2, ExtendsSecure
  <2>4. Blocked(t, i)' \/ Secure(Ackers(t, i), L)'
    BY <1>1, <1>3, <1>4, <2>1, <2>2, <2>3, OwnStays
  <2>. QED BY <1>2, <2>4 DEF Secure, HeldBy, Inherited, Uncontradicted, Begins
<1>5. CASE i > Len(log[t])
  <2>1. t = s
    BY <1>1, <1>5 DEF Extends
  <2>2. PICK n \in Nat : n = Len(log[s])
    BY StepTypes
  <2>3. i = n + 1 /\ Len(log'[s]) = n + 1
    BY <1>1, <1>5, <2>1, <2>2 DEF Extends
  <2>4. L = log'[s]
    <3>1. Begins(L, L)
      BY DEF Begins
    <3>2. \A k \in 1 .. Len(L) : L[k] = log'[s][k]
      BY <1>3, <2>1 DEF Begins
    <3>. QED BY <1>1, <1>3, <2>1, <2>3, <3>2, SeqEqual
  <2>5. Blocked(s, n + 1)' \/ Secure(Ackers(s, n + 1), L)'
    BY <1>3, <2>2, <2>4, ExtendsNew
  <2>. QED BY <1>2, <2>1, <2>3, <2>5 DEF Secure, HeldBy, Inherited, Uncontradicted, Begins
<1>. QED BY <1>1, <1>4, <1>5

(* What is secure wherever a log begins with it, is chosen for good.       *)
LEMMA SecureChosen ==
    ASSUME Step,
           \A L \in Seq(Entry) : \A y \in Server : \A A \in SUBSET Server :
              L # << >> /\ Begins(log[y], L) /\ Secure(A, L) => Secure(A, L)',
           \A L \in Seq(Entry) : \A y \in Server :
              L # << >> /\ Chosen(L) /\ Begins(log[y], L) => Begins(log'[y], L)
    PROVE  ChosenKept
<1>. SUFFICES ASSUME NEW L \in Seq(Entry), L # << >>, Chosen(L)
              PROVE  Chosen(L)'
  BY DEF ChosenKept
<1>1. PICK Q \in SUBSET Server : Majority(Cardinality(Q)) /\ Secure(Q, L)
  BY DEF Chosen
<1>2. PICK y \in Server : y \in Q
  BY <1>1, MajoritiesMeet
<1>3. Begins(log[y], L)
  BY <1>1, <1>2 DEF Secure, HeldBy
<1>4. Secure(Q, L)'
  BY <1>1, <1>3
<1>. QED BY <1>1, <1>4 DEF Chosen

LEMMA StartAgrees ==
    ASSUME Inv, StorageInv', HonestCount', NEW s \in Server, NEW c \in Command, Start(s, c)
    PROVE  Step /\ Agreement' /\ ChosenKept /\ CommitsKept
<1>1. Step /\ Extends(s) /\ Calm
  BY StartExtends
<1>2. /\ Inv /\ TypeOK /\ LogInv /\ HonestCount
      /\ UNCHANGED <<currentTerm, state, messages, matchIndex, nextIndex>> /\ Appends' = Appends
      /\ \A t \in Server : currentTerm[t] \in Nat /\ Len(log[t]) \in Nat /\ Len(log'[t]) \in Nat
                           /\ log[t] \in Seq(Entry)
      /\ state[s] = "leader"
  BY <1>1, StepTypes DEF Extends
<1>3. /\ \A t \in Server : /\ Len(log[t]) <= Len(log'[t])
                           /\ \A i \in 1 .. Len(log[t]) : log'[t][i] = log[t][i]
      /\ \A t, x \in Server : Acks(t, x)' = Acks(t, x)
      /\ \A y \in Server : \A L \in Seq(Entry) : Begins(log[y], L) => Begins(log'[y], L)
  BY <1>1, ExtendsKeeps
<1>4. VotesJustified
  <2>1. \A d \in Server : Contends(d)' => log'[d] = log[d]
    BY <1>1, <1>2 DEF Contends, Extends
  <2>. QED BY <1>1, <1>2, <2>1, CalmJustified
<1>5. Requested /\ Replied
  BY <1>2 DEF Requested, Replied
<1>6. LeadersKept /\ NextKnown
  BY <1>2 DEF LeadersKept, NextKnown, LogInv, RefusalsTrue
<1>7. RequestsTrue' /\ \A m \in messages' : m.type = "RequestVote" => m.term <= currentTerm'[m.from]
  BY <1>1, <1>2, <1>4, <1>5, RequestsStay
<1>8. RefusalsTrue' /\ \A m \in messages' : m.type = "AppendEntriesReply" =>
                         m.from # m.to /\ Led(m.to, m.argsTerm)'
  BY <1>1, <1>3, <1>5, <1>6, RepliesStay
<1>. DEFINE W == Whole(log[s])
            V == Whole(log'[s])
            n == Len(log[s])
<1>9. /\ W \in Piece /\ V \in Piece /\ W \in Pieces /\ n \in Nat
      /\ Span(W) = 0 .. n /\ Span(V) = 0 .. n + 1
      /\ \A i \in 0 .. n : TermIn(V, i) = TermIn(W, i)
      /\ TermIn(V, n + 1) = currentTerm[s]
      /\ \A R \in Pieces' : R = V \/ R \in Pieces
      /\ Pieces \subseteq Piece
  BY <1>1, ExtendsPieces
<1>10. /\ \A R \in Pieces' : WellFormed(R)
       /\ LastTerm(V) <= currentTerm[s]
       /\ \A R \in Pieces : Matching(V, R)
  BY <1>1, ExtendsShape
<1>11. Led(s, currentTerm[s])'
  <2>1. PICK term \in Nat : term = currentTerm[s]
    BY <1>2
  <2>2. Led(s, term)
    BY <1>2, <2>1 DEF LogInv, TermsLed
  <2>3. Led(s, term)' /\ currentTerm'[s] = term
    BY <1>1, <1>2, <2>1, <2>2, LedStays
  <2>. QED BY <2>3 DEF Led
<1>12. TermsBounded'
  <2>1. \A t \in Server : LastTerm(Whole(log'[t])) <= currentTerm'[t]
    BY <1>1, <1>2, <1>10 DEF LogInv, TermsBounded, Extends
  <2>2. \A t \in Server : Running(t)' => currentTerm'[t] > 0
    BY <1>1, RunningTerms
  <2>. QED BY <1>2, <1>7, <1>10, <2>1, <2>2 DEF LogInv, TermsBounded, LastTerm, Whole, TermIn, End, EntryIn
<1>13. TermsLed'
  <2>1. /\ \A R \in Pieces : \A i \in Span(R) : i > 0 => \E l \in Server : Led(l, TermIn(R, i))'
        /\ \A m \in Appends : Led(m.from, m.term)'
    BY <1>1, TermsLedStay
  <2>2. ASSUME NEW R \in Pieces', NEW i \in Span(R), i > 0
        PROVE  \E l \in Server : Led(l, TermIn(R, i))'
    <3>1. CASE R \in Pieces
      BY <2>1, <2>2, <3>1
    <3>2. CASE R = V /\ i <= n
      <4>1. PICK P \in Pieces : P = W
        BY <1>9
      <4>2. i \in Span(P) /\ TermIn(R, i) = TermIn(P, i)
        BY <1>9, <2>2, <3>2, <4>1
      <4>3. \E l \in Server : Led(l, TermIn(P, i))'
        BY <2>1, <2>2, <4>2
      <4>. QED BY <4>2, <4>3
    <3>3. CASE R = V /\ i > n
      <4>1. TermIn(R, i) = currentTerm'[s]
        BY <1>2, <1>9, <2>2, <3>3
      <4>. QED BY <1>11, <4>1 DEF Led
    <3>. QED BY <1>9, <2>2, <3>1, <3>2, <3>3
  <2>3. ASSUME NEW t \in Server, state'[t] = "leader"
        PROVE  Led(t, currentTerm[t])'
    <3>1. PICK term \in Nat : term = currentTerm[t]
      BY <1>2
    <3>2. Led(t, term)
      BY <1>2, <2>3, <3>1 DEF LogInv, TermsLed
    <3>3. Led(t, term)' /\ currentTerm'[t] = term
      BY <1>1, <1>2, <3>1, <3>2, LedStays
    <3>. QED BY <3>3 DEF Led
  <2>. QED BY <1>2, <1>8, <2>1, <2>2, <2>3 DEF TermsLed, Led, Span, TermIn, End, EntryIn
<1>14. PiecesMatch'
  <2>. SUFFICES ASSUME NEW R \in Pieces', NEW S \in Pieces'
                PROVE  Matching(R, S)
    BY DEF PiecesMatch, Matching, Span, TermIn, End, EntryIn
  <2>. QED BY <1>2, <1>9, <1>10, MatchingSymmetric, MatchingReflexive DEF LogInv, PiecesMatch
<1>15. LeaderOwns'
  <2>. SUFFICES ASSUME NEW t \in Server, state[t] = "leader"
                PROVE  /\ \A R \in Pieces' : \A i \in Span(R) : TermIn(R, i) = currentTerm[t] =>
                             i <= Len(log'[t]) /\ TermIn(Whole(log'[t]), i) = currentTerm[t]
                       /\ \A m \in Appends : m.term = currentTerm[t] =>
                             /\ End(Sent(m)) <= Len(log'[t])
                             /\ \A i \in Span(Sent(m)) : TermIn(Sent(m), i) = TermIn(Whole(log'[t]), i)
    BY <1>2 DEF LeaderOwns, Span, TermIn, End, EntryIn, Whole, Sent
  <2>1. ASSUME NEW i \in Nat, i <= Len(log[t])
        PROVE  TermIn(Whole(log'[t]), i) = TermIn(Whole(log[t]), i)
    <3>1. CASE t = s
      BY <1>9, <2>1, <3>1
    <3>2. CASE t # s
      BY <1>1, <3>2 DEF Extends
    <3>. QED BY <3>1, <3>2
  <2>2. ASSUME NEW R \in Pieces', NEW i \in Span(R), TermIn(R, i) = currentTerm[t]
        PROVE  i <= Len(log'[t]) /\ TermIn(Whole(log'[t]), i) = currentTerm[t]
    <3>0. i \in Nat
      BY <1>9, <2>2, PieceType
    <3>1. CASE R \in Pieces
      <4>1. i <= Len(log[t]) /\ TermIn(Whole(log[t]), i) = currentTerm[t]
        BY <1>2, <2>2, <3>1, OwnedBy
      <4>. QED BY <1>2, <1>3, <2>1, <3>0, <4>1
    <3>2. CASE R = V /\ i <= n
      <4>1. i \in Span(W) /\ TermIn(W, i) = currentTerm[t]
        BY <1>9, <2>2, <3>0, <3>2
      <4>2. i <= Len(log[t]) /\ TermIn(Whole(log[t]), i) = currentTerm[t]
        BY <1>2, <1>9, <4>1, OwnedBy
      <4>. QED BY <1>2, <1>3, <2>1, <3>0, <4>2
    <3>3. CASE R = V /\ i > n
      <4>1. i = n + 1 /\ currentTerm[t] = currentTerm[s]
        BY <1>9, <2>2, <3>0, <3>3
      <4>2. t = s
        BY <1>2, <4>1, LeaderAlone DEF LogInv, TermsLed
      <4>. QED BY <1>1, <1>9, <4>1, <4>2 DEF Extends
    <3>. QED BY <1>9, <2>2, <3>1, <3>2, <3>3
  <2>3. ASSUME NEW m \in Appends, m.term = currentTerm[t]
        PROVE  /\ End(Sent(m)) <= Len(log'[t])
               /\ \A i \in Span(Sent(m)) : TermIn(Sent(m), i) = TermIn(Whole(log'[t]), i)
    <3>1. /\ End(Sent(m)) <= Len(log[t])
          /\ \A i \in Span(Sent(m)) : TermIn(Sent(m), i) = TermIn(Whole(log[t]), i)
      BY <1>2, <2>3 DEF LogInv, LeaderOwns
    <3>2. Sent(m) \in Piece
      BY <1>2, AppendsTyped
    <3>3. \A i \in Span(Sent(m)) : i \in Nat /\ i <= End(Sent(m)) /\ End(Sent(m)) \in Nat
      BY <3>2, PieceType DEF Span
    <3>4. \A i \in Span(Sent(m)) : i <= Len(log[t])
      BY <1>2, <3>1, <3>3
    <3>5. End(Sent(m)) \in Nat
      BY <3>2, PieceType
    <3>. QED BY <1>2, <1>3, <2>1, <3>1, <3>3, <3>4, <3>5
  <2>. QED BY <2>2, <2>3
<1>16. AcksTrue'
  <2>. SUFFICES ASSUME NEW t \in Server, NEW x \in Server, state[t] = "leader", t # x,
                       NEW a \in Acks(t, x)
                PROVE  /\ a <= Len(log'[t])
                       /\ a > 0 => currentTerm[x] >= currentTerm[t]
                       /\ currentTerm[x] = currentTerm[t] =>
                            a <= Len(log'[x]) /\ \A i \in 1 .. a : log'[x][i] = log'[t][i]
    BY <1>2, <1>3 DEF AcksTrue
  <2>1. /\ a <= Len(log[t])
        /\ a > 0 => currentTerm[x] >= currentTerm[t]
        /\ currentTerm[x] = currentTerm[t] =>
             a <= Len(log[x]) /\ \A i \in 1 .. a : log[x][i] = log[t][i]
    BY <1>2 DEF LogInv, AcksTrue
  <2>2. a \in Nat
    BY <1>2, AcksTyped
  <2>3. a <= Len(log'[t])
    BY <1>2, <1>3, <2>1, <2>2
  <2>4. ASSUME currentTerm[x] = currentTerm[t]
        PROVE  a <= Len(log'[x]) /\ \A i \in 1 .. a : log'[x][i] = log'[t][i]
    <3>1. a <= Len(log[x]) /\ a <= Len(log'[x])
      BY <1>2, <1>3, <2>1, <2>2, <2>4
    <3>2. \A i \in 1 .. a : i \in 1 .. Len(log[x]) /\ i \in 1 .. Len(log[t])
      BY <1>2, <2>1, <2>2, <3>1
    <3>. QED BY <1>3, <2>1, <2>4, <3>1, <3>2
  <2>. QED BY <2>1, <2>3, <2>4
<1>17. OwnEntriesSecure'
  BY <1>1, <1>4, ExtendsOwn
<1>18. ChosenKept
  <2>1. \A L \in Seq(Entry) : \A y \in Server : \A A \in SUBSET Server :
           L # << >> /\ Begins(log[y], L) /\ Secure(A, L) => Secure(A, L)'
    BY <1>1, <1>4, ExtendsSecure
  <2>. QED BY <1>1, <1>3, <2>1, SecureChosen
<1>19. CommitsKept
  BY DEF Start, CommitsKept, applyVars
<1>. QED BY <1>1, <1>7, <1>8, <1>12, <1>13, <1>14, <1>15, <1>16, <1>17, <1>18, <1>19
     DEF Agreement, Step

-----------------------------------------------------------------------------
(* A leader sends its log.                                                 *)

(* m carries the log of l, from some entry on.                             *)
Carries(m, l) ==
    /\ m.from = l /\ m.to # l /\ m.term = currentTerm[l] /\ m.leaderCommit = commitIndex[l]
    /\ Sent(m) \in Piece
    /\ Part(Sent(m), Whole(log[l])) /\ End(Sent(m)) = Len(log[l])

(* What BroadcastAppendEntries changes.                                    *)
Sends(l) ==
    /\ state[l] = "leader"
    /\ UNCHANGED <<currentTerm, state, voters, log, matchIndex, nextIndex, applyVars>>
    /\ Appends \subseteq Appends'
    /\ \A m \in Appends' : m \in Appends \/ Carries(m, l)
    /\ \A m \in messages' : m.type = "AppendEntriesReply" => m \in messages
    /\ messages \subseteq messages'

LEMMA ArgsCarry ==
    ASSUME Inv, NEW l \in Server, NEW d \in Server, d # l,
           nextIndex[l][d] > 0, nextIndex[l][d] <= Len(log[l]) + 1,
           NEW m, m \in AppendRequest, m = [AppendArgs(l, d) EXCEPT !.live = FALSE]
    PROVE  Carries(m, l)
<1>. DEFINE W == Whole(log[l])
            n == Len(log[l])
            next == nextIndex[l][d]
<1>1. /\ TypeOK /\ log[l] \in Seq(Entry) /\ n \in Nat /\ next \in Nat
      /\ lastIncludedIndex[l] = 0 /\ lastIncludedTerm[l] = 0
  <2>1. TypeOK /\ lastIncludedIndex[l] = 0 /\ lastIncludedTerm[l] = 0
    BY InvTypes
  <2>2. log[l] \in Seq(Entry) /\ nextIndex \in [Server -> [Server -> Nat]]
    BY <2>1 DEF TypeOK
  <2>. QED BY <2>1, <2>2
<1>2. PICK b \in Nat : b = next - 1
  BY <1>1
<1>3. b + 1 = next /\ b <= n /\ next - 0 = next /\ b \in 0 .. n
  BY <1>1, <1>2
<1>4. /\ m.from = l /\ m.to = d /\ m.term = currentTerm[l] /\ m.leaderCommit = commitIndex[l]
      /\ m.preLogIndex = b /\ m.preLogTerm = TermAt(l, b)
      /\ m.entries = SubSeq(log[l], b + 1, n)
  BY <1>1, <1>2, <1>3 DEF AppendArgs
<1>5. TermAt(l, b) = TermIn(W, b)
  BY <1>1, <1>3, LogAsPiece
<1>6. /\ m.entries \in Seq(Entry) /\ Len(m.entries) = n - b
      /\ \A i \in 1 .. n - b : m.entries[i] = log[l][b + i]
  <2>1. /\ SubSeq(log[l], b + 1, Len(log[l])) \in Seq(Entry)
        /\ Len(SubSeq(log[l], b + 1, Len(log[l]))) = Len(log[l]) - b
        /\ \A i \in 1 .. Len(log[l]) - b : SubSeq(log[l], b + 1, Len(log[l]))[i] = log[l][b + i]
    BY <1>1, <1>2, <1>3, RestOfEntries
  <2>. QED BY <1>4, <2>1
<1>7. /\ Sent(m) \in Piece /\ Sent(m).base = b /\ Sent(m).baseTerm = TermIn(W, b)
      /\ Sent(m).entries = m.entries /\ End(Sent(m)) = n
  <2>1. /\ Sent(m) \in Piece /\ Sent(m).base = m.preLogIndex /\ Sent(m).baseTerm = m.preLogTerm
        /\ Sent(m).entries = m.entries /\ End(Sent(m)) = m.preLogIndex + Len(m.entries)
    BY SentPiece
  <2>2. b + (n - b) = n
    BY <1>1, <1>2
  <2>. QED BY <1>4, <1>5, <1>6, <2>1, <2>2
<1>8. /\ W.base = 0 /\ Span(W) = 0 .. n
      /\ \A i \in 1 .. n : EntryIn(W, i) = log[l][i] /\ TermIn(W, i) = log[l][i].term
  BY <1>1, WholePiece
<1>. HIDE DEF W, n, next
<1>9. Span(Sent(m)) = b .. n
  BY <1>7 DEF Span
<1>10. ASSUME NEW i \in b .. n
       PROVE  Same(Sent(m), W, i)
  <2>1. CASE i = b
    <3>1. TermIn(Sent(m), b) = TermIn(W, b)
      BY <1>7 DEF TermIn
    <3>. QED BY <1>1, <1>7, <2>1, <3>1 DEF Same
  <2>2. CASE i # b
    <3>1. i - b \in 1 .. n - b /\ b + (i - b) = i /\ i \in 1 .. n
      BY <1>1, <1>2, <2>2
    <3>2. EntryIn(Sent(m), i) = m.entries[i - b]
      BY <1>7 DEF EntryIn
    <3>3. EntryIn(Sent(m), i) = log[l][i]
      BY <1>6, <3>1, <3>2
    <3>4. TermIn(Sent(m), i) = EntryIn(Sent(m), i).term
      BY <1>7, <2>2 DEF TermIn
    <3>. QED BY <1>8, <3>1, <3>3, <3>4 DEF Same
  <2>. QED BY <2>1, <2>2
<1>11. Part(Sent(m), W)
  <2>1. \A i \in b .. n : i \in 0 .. n
    BY <1>1
  <2>2. Sent(m).base >= 0
    BY <1>7
  <2>. QED BY <1>7, <1>8, <1>9, <1>10, <2>1, <2>2 DEF Part
<1>. QED BY <1>4, <1>7, <1>11 DEF Carries, W, n

LEMMA BroadcastSends ==
    ASSUME Inv, StorageInv', HonestCount', NEW l \in Server, BroadcastAppendEntries(l)
    PROVE  Sends(l) /\ Step /\ Calm
<1>. DEFINE behind == {d \in Server \ {l} : nextIndex[l][d] <= lastIncludedIndex[l]}
            intact == {d \in Server \ {l} : nextIndex[l][d] <= Least(HugeIndex, LastLogIndex(l) + 1)}
            new == {InstallArgs(l, d) : d \in behind} \cup {AppendArgs(l, d) : d \in intact \ behind}
<1>1. TypeOK /\ TypeOK' /\ LogInv /\ HonestCount /\ lastIncludedIndex[l] = 0
      /\ Len(log[l]) \in Nat /\ LastLogIndex(l) = Len(log[l])
  BY InvTypes, LogAsPiece DEF StorageInv, TypeInv
<1>2. /\ state[l] = "leader" /\ messages' = messages \cup new
      /\ UNCHANGED <<currentTerm, state, voters, log, matchIndex, nextIndex, applyVars, handler>>
  BY DEF BroadcastAppendEntries, electionVars, logVars, leaderVars
<1>3. \A m \in new : \/ m.type = "InstallSnapshot"
                     \/ /\ m.type = "AppendEntries"
                        /\ \E d \in Server \ {l} : /\ m = AppendArgs(l, d) /\ ~(nextIndex[l][d] <= 0)
                                                   /\ nextIndex[l][d] <= Least(HugeIndex, Len(log[l]) + 1)
  BY <1>1 DEF InstallArgs, AppendArgs
<1>. HIDE DEF new
<1>4. messages \subseteq messages'
      /\ \A m \in messages' : m.type = "AppendEntriesReply" => m \in messages
  BY <1>2, <1>3
<1>5. Appends \subseteq Appends'
  BY <1>4 DEF Appends
<1>6. ASSUME NEW m \in Appends', m \notin Appends
      PROVE  Carries(m, l)
  <2>1. PICK c \in messages' : c.type = "AppendEntries" /\ m = [c EXCEPT !.live = FALSE]
    BY <1>6 DEF Appends
  <2>2. c \in new
    BY <1>2, <1>6, <2>1 DEF Appends
  <2>3. PICK d \in Server \ {l} : /\ c = AppendArgs(l, d) /\ ~(nextIndex[l][d] <= 0)
                                  /\ nextIndex[l][d] <= Least(HugeIndex, Len(log[l]) + 1)
    BY <1>3, <2>1, <2>2
  <2>4. c \in AppendRequest
    BY <1>1, <2>1, MessageTypes DEF TypeOK
  <2>5. m \in AppendRequest
    BY <2>1, <2>4, AppendFields
  <2>6. nextIndex[l][d] \in Nat /\ HugeIndex \in Nat
    BY <1>1, GarbageAssumption DEF TypeOK
  <2>7. nextIndex[l][d] > 0 /\ nextIndex[l][d] <= Len(log[l]) + 1
    BY <1>1, <2>3, <2>6 DEF Least
  <2>. QED BY <2>1, <2>3, <2>5, <2>7, ArgsCarry
<1>7. Calm
  BY <1>1, BroadcastElectionless
<1>8. Step
  BY <1>1, <1>2, <1>7, CalmVotes DEF Step, LogInv, NothingHalfDone, Idle
<1>. QED BY <1>2, <1>4, <1>5, <1>6, <1>7, <1>8 DEF Sends

LEMMA SendsPieces ==
    ASSUME Step, NEW l \in Server, Sends(l)
    PROVE  LET W == Whole(log[l])
           IN  /\ W \in Piece /\ W \in Pieces /\ Pieces \subseteq Piece
               /\ WellFormed(W) /\ End(W) = Len(log[l]) /\ Len(log[l]) \in Nat
               /\ \A R \in Pieces' : R \in Pieces \/ (R \in Piece /\ Part(R, W) /\ End(R) = End(W))
<1>1. TypeOK /\ LogInv /\ log[l] \in Seq(Entry)
  BY StepTypes
<1>2. Whole(log[l]) \in Piece /\ Whole(log[l]) \in Pieces /\ Pieces \subseteq Piece
      /\ End(Whole(log[l])) = Len(log[l]) /\ Len(log[l]) \in Nat
  BY <1>1, PiecesTyped, WholePiece
<1>3. WellFormed(Whole(log[l]))
  BY <1>1, <1>2 DEF LogInv, TermsBounded
<1>4. ASSUME NEW R \in Pieces', R \notin Pieces
      PROVE  R \in Piece /\ Part(R, Whole(log[l])) /\ End(R) = End(Whole(log[l]))
  <2>1. PICK m \in Appends' : R = Sent(m)
    BY <1>4 DEF Pieces, Sends
  <2>2. Carries(m, l)
    BY <1>4, <2>1 DEF Pieces, Sends
  <2>. QED BY <1>2, <2>1, <2>2 DEF Carries
<1>. QED BY <1>2, <1>3, <1>4

LEMMA SendsSecure ==
    ASSUME Step, VotesJustified, NEW l \in Server, Sends(l),
           NEW L \in Seq(Entry), L # << >>, NEW A \in SUBSET Server, Secure(A, L),
           NEW y \in Server, Begins(log[y], L)
    PROVE  Secure(A, L)'
<1>. DEFINE W == Whole(log[l])
            n == Len(log[l])
            k == Len(L)
            T == L[Len(L)].term
<1>1. /\ W \in Piece /\ W \in Pieces /\ Pieces \subseteq Piece
      /\ WellFormed(W) /\ End(W) = n /\ n \in Nat
      /\ \A R \in Pieces' : R \in Pieces \/ (R \in Piece /\ Part(R, W) /\ End(R) = End(W))
  BY SendsPieces
<1>2. /\ Inv /\ TypeOK /\ LogInv /\ state[l] = "leader" /\ currentTerm[l] \in Nat
      /\ log[l] \in Seq(Entry) /\ log[y] \in Seq(Entry) /\ Whole(log[y]) \in Pieces
  BY StepTypes, PiecesTyped DEF Sends
<1>3. /\ k \in Nat /\ k > 0 /\ T \in Nat /\ TermIn(Whole(log[y]), k) = T /\ k \in Span(Whole(log[y]))
      /\ k <= Len(log[y]) /\ \A i \in 1 .. k : L[i] = log[y][i]
  BY <1>2, BeginsWith DEF Begins
<1>. HIDE DEF W, n, k, T
<1>4. ASSUME NEW R \in Pieces', Beyond(R, k, T)
      PROVE  Has(R, k, T)
  <2>1. CASE R \in Pieces
    BY <1>4, <2>1 DEF Secure, Inherited, k, T
  <2>2. CASE R \in Piece /\ Part(R, W) /\ End(R) = End(W)
    <3>1. Beyond(W, k, T)
      BY <1>1, <1>3, <1>4, <2>2, PartTail
    <3>2. Has(W, k, T)
      BY <1>1, <3>1 DEF Secure, Inherited, k, T
    <3>. QED BY <1>1, <1>3, <2>2, <3>2, PartTail
  <2>. QED BY <1>1, <1>4, <2>1, <2>2
<1>5. \A c \in Server : state'[c] = "leader" /\ currentTerm'[c] > T => Has(Whole(log'[c]), k, T)
  BY DEF Secure, Inherited, Sends, k, T
<1>6. ASSUME NEW m \in Appends', m.term > T
      PROVE  Has(Sent(m), k, T)
  <2>1. CASE m \in Appends
    BY <1>6, <2>1 DEF Secure, Inherited, k, T
  <2>2. CASE Carries(m, l)
    <3>1. Has(W, k, T)
      BY <1>2, <1>6, <2>2 DEF Carries, Secure, Inherited, W, k, T
    <3>2. Sent(m) \in Piece /\ Part(Sent(m), W) /\ End(Sent(m)) = End(W)
      BY <1>1, <2>2 DEF Carries, W, n
    <3>. QED BY <1>1, <1>3, <3>1, <3>2, PartTail
  <2>. QED BY <1>6, <2>1, <2>2 DEF Sends
<1>7. Inherited(Len(L), L[Len(L)].term)'
  BY <1>4, <1>5, <1>6 DEF Inherited, k, T
<1>8. ASSUME NEW m \in Appends', m.term = T, NEW i \in Span(Sent(m)) \cap 1 .. k
      PROVE  TermIn(Sent(m), i) = L[i].term
  <2>1. CASE m \in Appends
    BY <1>8, <2>1 DEF Secure, Uncontradicted, k, T
  <2>2. CASE Carries(m, l)
    <3>1. currentTerm[l] = T /\ Part(Sent(m), W)
      BY <1>8, <2>2 DEF Carries, W
    <3>2. k <= n /\ TermIn(W, k) = TermIn(Whole(log[y]), k)
      BY <1>2, <1>3, <3>1, OwnedBy DEF W, n
    <3>3. Matching(W, Whole(log[y]))
      BY <1>1, <1>2 DEF LogInv, PiecesMatch
    <3>4. log[l][i] = log[y][i]
      BY <1>2, <1>3, <3>2, <3>3, MatchingLogs DEF W, n
    <3>5. i \in 1 .. n
      BY <1>1, <1>3, <3>2
    <3>6. TermIn(W, i) = log[l][i].term
      BY <1>2, <3>5, WholePiece DEF W, n
    <3>. QED BY <1>3, <3>1, <3>4, <3>6 DEF Part, Same
  <2>. QED BY <1>8, <2>1, <2>2 DEF Sends
<1>9. Uncontradicted(L)'
  BY <1>8 DEF Uncontradicted, k, T
<1>10. \A x \in A : Begins(log'[x], L)
  BY DEF Secure, HeldBy, Sends
<1>. QED BY <1>7, <1>9, <1>10, SecureOn

(* What a leader of the step was elected for, it is elected for still.     *)
LEMMA LeadersLed ==
    ASSUME Step, LeadersKept
    PROVE  \A t \in Server : state'[t] = "leader" => Led(t, currentTerm[t])'
<1>. SUFFICES ASSUME NEW t \in Server, state'[t] = "leader"
              PROVE  Led(t, currentTerm[t])'
  OBVIOUS
<1>1. PICK term \in Nat : term = currentTerm[t]
  BY StepTypes
<1>2. Led(t, term) /\ currentTerm'[t] = term
  BY <1>1, StepTypes DEF LogInv, TermsLed, LeadersKept
<1>3. Led(t, term)'
  BY <1>2, LedStays
<1>. QED BY <1>2, <1>3 DEF Led

LEMMA BroadcastAgrees ==
    ASSUME Inv, StorageInv', HonestCount', NEW l \in Server, BroadcastAppendEntries(l)
    PROVE  Step /\ Agreement' /\ ChosenKept /\ CommitsKept /\ Sends(l)
<1>1. Step /\ Sends(l) /\ Calm
  BY BroadcastSends
<1>2. /\ Inv /\ TypeOK /\ LogInv /\ HonestCount
      /\ UNCHANGED <<currentTerm, state, log, matchIndex, nextIndex>>
      /\ Appends \subseteq Appends' /\ \A m \in Appends' : m \in Appends \/ Carries(m, l)
      /\ \A m \in messages' : m.type = "AppendEntriesReply" => m \in messages
      /\ messages \subseteq messages'
      /\ \A t \in Server : currentTerm[t] \in Nat /\ Len(log[t]) \in Nat /\ log[t] \in Seq(Entry)
      /\ state[l] = "leader"
  BY <1>1, StepTypes DEF Sends
<1>3. \A t, x \in Server : Acks(t, x)' = Acks(t, x)
  <2>. SUFFICES ASSUME NEW t \in Server, NEW x \in Server
                PROVE  Acks(t, x)' = Acks(t, x)
    OBVIOUS
  <2>1. \A m : m \in messages' /\ IsAppendReply(m, t, x)' <=> m \in messages /\ IsAppendReply(m, t, x)
    BY <1>2 DEF IsAppendReply
  <2>. QED BY <1>2, <2>1 DEF Acks
<1>4. VotesJustified
  BY <1>1, <1>2, CalmJustified
<1>5. Requested /\ Replied
  BY <1>1, <1>2, CalmRequested DEF Replied
<1>6. LeadersKept /\ NextKnown
  BY <1>2 DEF LeadersKept, NextKnown, LogInv, RefusalsTrue
<1>7. RequestsTrue' /\ \A m \in messages' : m.type = "RequestVote" => m.term <= currentTerm'[m.from]
  BY <1>1, <1>2, <1>4, <1>5, RequestsStay
<1>8. RefusalsTrue' /\ \A m \in messages' : m.type = "AppendEntriesReply" =>
                         m.from # m.to /\ Led(m.to, m.argsTerm)'
  BY <1>1, <1>2, <1>5, <1>6, RepliesStay
<1>. DEFINE W == Whole(log[l])
<1>9. /\ W \in Piece /\ W \in Pieces /\ Pieces \subseteq Piece
      /\ WellFormed(W) /\ End(W) = Len(log[l])
      /\ \A R \in Pieces' : R \in Pieces \/ (R \in Piece /\ Part(R, W) /\ End(R) = End(W))
  BY <1>1, SendsPieces
<1>10. \A m \in Appends' : m \in Appends \/
         (Carries(m, l) /\ Sent(m) \in Piece /\ Part(Sent(m), W) /\ End(Sent(m)) = End(W)
          /\ m.from # m.to /\ m.term = currentTerm[l] /\ m.from = l)
  BY <1>2, <1>9 DEF Carries
<1>11. TermsBounded'
  <2>1. \A R \in Pieces' : WellFormed(R)
    BY <1>2, <1>9, PartWellFormed DEF LogInv, TermsBounded
  <2>2. LastTerm(W) <= currentTerm[l]
    BY <1>2 DEF LogInv, TermsBounded
  <2>3. \A m \in Appends' : LastTerm(Sent(m)) <= m.term /\ m.from # m.to
    BY <1>2, <1>9, <1>10, <2>2, PartTail DEF LogInv, TermsBounded
  <2>4. \A t \in Server : Running(t)' => currentTerm'[t] > 0
    BY <1>1, RunningTerms
  <2>. QED BY <1>2, <1>7, <2>1, <2>3, <2>4
       DEF LogInv, TermsBounded, WellFormed, LastTerm, Whole, TermIn, End, EntryIn, Sent, Span
<1>12. TermsLed'
  <2>1. /\ \A R \in Pieces : \A i \in Span(R) : i > 0 => \E s \in Server : Led(s, TermIn(R, i))'
        /\ \A m \in Appends : Led(m.from, m.term)'
    BY <1>1, TermsLedStay
  <2>2. ASSUME NEW R \in Pieces', NEW i \in Span(R), i > 0
        PROVE  \E s \in Server : Led(s, TermIn(R, i))'
    <3>1. CASE R \in Pieces
      BY <2>1, <2>2, <3>1
    <3>2. CASE R \in Piece /\ Part(R, W)
      <4>1. PICK P \in Pieces : P = W
        BY <1>9
      <4>2. i \in Span(P) /\ TermIn(R, i) = TermIn(P, i)
        BY <2>2, <3>2, <4>1 DEF Part, Same
      <4>3. \E s \in Server : Led(s, TermIn(P, i))'
        BY <2>1, <2>2, <4>2
      <4>. QED BY <4>2, <4>3
    <3>. QED BY <1>9, <2>2, <3>1, <3>2
  <2>3. \A t \in Server : state'[t] = "leader" => Led(t, currentTerm[t])'
    BY <1>1, <1>6, LeadersLed
  <2>4. ASSUME NEW m \in Appends'
        PROVE  Led(m.from, m.term)'
    <3>1. CASE m \in Appends
      BY <2>1, <3>1
    <3>2. CASE m.term = currentTerm[l] /\ m.from = l
      <4>1. m.term = currentTerm'[l] /\ Led(l, currentTerm[l])'
        BY <1>2, <2>3, <3>2
      <4>2. Led(l, m.term)'
        BY <4>1 DEF Led
      <4>. QED BY <3>2, <4>2
    <3>. QED BY <1>10, <3>1, <3>2
  <2>. QED BY <1>2, <1>8, <2>2, <2>3, <2>4 DEF TermsLed, Led, Span, TermIn, End, EntryIn
<1>13. PiecesMatch'
  <2>. SUFFICES ASSUME NEW R \in Pieces', NEW S \in Pieces'
                PROVE  Matching(R, S)
    BY DEF PiecesMatch, Matching, Span, TermIn, End, EntryIn
  <2>1. \A X, Y \in Pieces : Matching(X, Y)
    BY <1>2 DEF LogInv, PiecesMatch
  <2>2. \A X \in Pieces : Matching(R, X) /\ Matching(X, R)
    BY <1>9, <2>1, PartMatching, MatchingSymmetric
  <2>3. R \in Piece
    BY <1>9
  <2>. QED BY <1>9, <2>2, <2>3, PartMatching, MatchingSymmetric
<1>14. LeaderOwns'
  <2>. SUFFICES ASSUME NEW t \in Server, state[t] = "leader"
                PROVE  /\ \A R \in Pieces' : \A i \in Span(R) : TermIn(R, i) = currentTerm[t] =>
                             i <= Len(log[t]) /\ TermIn(Whole(log[t]), i) = currentTerm[t]
                       /\ \A m \in Appends' : m.term = currentTerm[t] =>
                             /\ End(Sent(m)) <= Len(log[t])
                             /\ \A i \in Span(Sent(m)) : TermIn(Sent(m), i) = TermIn(Whole(log[t]), i)
    BY <1>2 DEF LeaderOwns, Span, TermIn, End, EntryIn, Whole, Sent
  <2>1. ASSUME NEW R \in Pieces', NEW i \in Span(R), TermIn(R, i) = currentTerm[t]
        PROVE  i <= Len(log[t]) /\ TermIn(Whole(log[t]), i) = currentTerm[t]
    <3>1. CASE R \in Pieces
      BY <1>2, <2>1, <3>1, OwnedBy
    <3>2. CASE R \in Piece /\ Part(R, W)
      <4>1. i \in Span(W) /\ TermIn(W, i) = currentTerm[t]
        BY <2>1, <3>2 DEF Part, Same
      <4>. QED BY <1>2, <1>9, <4>1, OwnedBy
    <3>. QED BY <1>9, <2>1, <3>1, <3>2
  <2>2. ASSUME NEW m \in Appends', m.term = currentTerm[t]
        PROVE  /\ End(Sent(m)) <= Len(log[t])
               /\ \A i \in Span(Sent(m)) : TermIn(Sent(m), i) = TermIn(Whole(log[t]), i)
    <3>1. CASE m \in Appends
      BY <1>2, <2>2, <3>1 DEF LogInv, LeaderOwns
    <3>2. CASE Part(Sent(m), W) /\ End(Sent(m)) = End(W) /\ m.term = currentTerm[l]
      <4>1. t = l
        BY <1>2, <2>2, <3>2, LeaderAlone DEF LogInv, TermsLed
      <4>. QED BY <1>2, <1>9, <3>2, <4>1 DEF Part, Same
    <3>. QED BY <1>10, <3>1, <3>2
  <2>. QED BY <2>1, <2>2
<1>15. AcksTrue'
  BY <1>2, <1>3 DEF LogInv, AcksTrue
<1>16. \A L \in Seq(Entry) : \A y \in Server : \A A \in SUBSET Server :
           L # << >> /\ Begins(log[y], L) /\ Secure(A, L) => Secure(A, L)'
  BY <1>1, <1>4, SendsSecure
<1>17. OwnEntriesSecure'
  <2>. SUFFICES ASSUME NEW s \in Server, state'[s] = "leader",
                       NEW i \in 1 .. Len(log'[s]), log'[s][i].term = currentTerm'[s]
                PROVE  Blocked(s, i)' \/ Secure(Ackers(s, i), SubSeq(log[s], 1, i))'
    BY DEF OwnEntriesSecure
  <2>1. state[s] = "leader" /\ currentTerm'[s] = currentTerm[s] /\ log'[s] = log[s]
        /\ \A x \in Server \ {s} : Acks(s, x)' \subseteq Acks(s, x) \cup {0}
    BY <1>2, <1>3
  <2>2. \A k \in 1 .. Len(log[s]) : \A L \in Seq(Entry) :
          log[s][k].term = currentTerm[s] /\ L # << >> /\ Begins(log[s], L) /\ Len(L) = k =>
             \A A \in SUBSET Server :
                Ackers(s, k) \subseteq A /\ Secure(A, L) => Blocked(s, k)' \/ Secure(A, L)'
    BY <1>16
  <2>. QED BY <1>1, <2>1, <2>2, OwnEntriesStay
<1>18. ChosenKept
  <2>1. \A L \in Seq(Entry) : \A y \in Server : Begins(log[y], L) => Begins(log'[y], L)
    BY <1>2
  <2>. QED BY <1>1, <1>16, <2>1, SecureChosen
<1>19. CommitsKept
  BY <1>1 DEF Sends, CommitsKept, applyVars
<1>. QED BY <1>1, <1>7, <1>8, <1>11, <1>12, <1>13, <1>14, <1>15, <1>17, <1>18, <1>19
     DEF Agreement, Step

-----------------------------------------------------------------------------
(* A follower takes what a leader sent.                                    *)

(* What an AppendEntries call m changes that passes both checks.           *)
Accepts(m) ==
    /\ m.to \in Server /\ m.from \in Server /\ m.from # m.to
    /\ m.term \in Nat /\ m.term >= currentTerm[m.to]
    /\ Sent(m) \in Piece
    /\ \E n \in Appends : /\ n.from = m.from /\ n.term = m.term /\ Sent(n) = Sent(m)
                          /\ n.leaderCommit = m.leaderCommit
    /\ Spliced(log'[m.to], log[m.to], Sent(m))
    /\ currentTerm'[m.to] = m.term /\ state'[m.to] # "leader"
    /\ \A t \in Server \ {m.to} : log'[t] = log[t] /\ currentTerm'[t] = currentTerm[t] /\ state'[t] = state[t]
    /\ UNCHANGED <<matchIndex, nextIndex>>
    /\ Appends' = Appends
    /\ \A r \in messages' : r.type = "AppendEntriesReply" =>
          r \in messages \/ (/\ r.from = m.to /\ r.to = m.from /\ r.argsTerm = m.term
                             /\ r.success /\ r.match = End(Sent(m)))

LEMMA AcceptAccepts ==
    ASSUME NoLogFault, Inv, StorageInv', HonestCount', NEW m \in messages, AppendEntries(m),
           m.term >= currentTerm[m.to], Consistent(m.to, m)
    PROVE  /\ Accepts(m) /\ Step /\ Calm
           /\ ApplyUpTo(m.to, log'[m.to], NewCommit(m.to, m))
<1>. DEFINE x == m.to
            reply == AppendAnswer(m, currentTerm[x], TRUE, 0)
<1>1. /\ TypeOK /\ TypeOK' /\ LogInv /\ HonestCount /\ m.type = "AppendEntries"
      /\ \A t \in Server : lastIncludedIndex[t] = 0 /\ lastIncludedTerm[t] = 0
  BY InvTypes DEF StorageInv, TypeInv, AppendEntries
<1>2. m \in AppendRequest
  BY <1>1, CallSeen
<1>3. x \in Server /\ m.from \in Server /\ m.term \in Nat /\ m.preLogIndex \in Nat
  BY <1>2 DEF AppendRequest
<1>4. PICK n \in Appends : /\ n.from = m.from /\ n.to = x /\ n.term = m.term
                           /\ n.leaderCommit = m.leaderCommit /\ Sent(n) = Sent(m)
  BY <1>1, CallSeen
<1>5. /\ Sent(m) \in Piece /\ Sent(m).base = m.preLogIndex /\ Sent(m).baseTerm = m.preLogTerm
      /\ End(Sent(m)) = m.preLogIndex + Len(m.entries)
  BY <1>2, SentPiece
<1>6. m.from # x /\ Led(m.from, m.term)
  BY <1>1, <1>4 DEF LogInv, TermsBounded, TermsLed
<1>7. Preemption = {}
  BY DEF NoLogFault, Preemption
<1>8. currentTerm \in [Server -> Nat] /\ state \in [Server -> State] /\ log \in [Server -> Seq(Entry)]
      /\ handler \in [Server -> Call \cup {Nil}]
  BY <1>1 DEF TypeOK
<1>9. currentTerm[x] \in Nat /\ log[x] \in Seq(Entry) /\ Len(log[x]) \in Nat
  BY <1>3, <1>8
<1>10. ~(m.term < currentTerm[x])
  BY <1>3, <1>9
<1>11. /\ IF m.term > currentTerm[x] THEN StepDown(x, m.term) ELSE UNCHANGED electionVars
       /\ AppendAndApply(x, m, currentTerm[x])
       /\ UNCHANGED <<handler, leaderVars>>
  BY <1>7, <1>10 DEF AppendEntries
<1>12. /\ log' = [log EXCEPT ![x] = AppendedLog(x, m)]
       /\ ApplyUpTo(x, log'[x], NewCommit(x, m))
       /\ messages' = Answer(m, reply, messages)
  BY <1>11 DEF AppendAndApply
<1>13. log'[x] = AppendedLog(x, m) /\ \A t \in Server \ {x} : log'[t] = log[t]
  BY <1>3, <1>8, <1>12
<1>14. Spliced(log'[x], log[x], Sent(m))
  <2>1. LastLogIndex(x) = Len(log[x])
        /\ \A i \in 0 .. Len(log[x]) : TermAt(x, i) = TermIn(Whole(log[x]), i)
    BY <1>1, <1>3, LogAsPiece
  <2>2. m.preLogIndex <= Len(log[x]) /\ TermAt(x, m.preLogIndex) = m.preLogTerm
        /\ m.preLogIndex \in 0 .. Len(log[x])
    BY <1>1, <1>3, <2>1 DEF Consistent
  <2>3. TermIn(Whole(log[x]), m.preLogIndex) = m.preLogTerm
    BY <2>1, <2>2
  <2>4. Matching(Whole(log[x]), Sent(m))
    <3>1. Whole(log[x]) \in Pieces /\ Sent(n) \in Pieces
      BY <1>1, <1>3, <1>4, PiecesTyped
    <3>. QED BY <1>1, <1>4, <3>1 DEF LogInv, PiecesMatch
  <2>5. Spliced(AppendedLog(x, m), log[x], Sent(m))
    BY <1>1, <1>2, <1>3, <2>2, <2>3, <2>4, AppendedIsSpliced
  <2>. QED BY <1>13, <2>5
<1>15. state[x] = "leader" => m.term > currentTerm[x]
  <2>. SUFFICES ASSUME state[x] = "leader", m.term = currentTerm[x]
                PROVE  FALSE
    BY <1>3, <1>9
  <2>. QED BY <1>1, <1>3, <1>6, LeaderAlone
<1>16. /\ currentTerm'[x] = m.term /\ state'[x] # "leader"
       /\ \A t \in Server \ {x} : currentTerm'[t] = currentTerm[t] /\ state'[t] = state[t]
  <2>1. CASE m.term > currentTerm[x]
    BY <1>3, <1>8, <1>11, <2>1 DEF StepDown
  <2>2. CASE ~(m.term > currentTerm[x])
    <3>1. m.term = currentTerm[x] /\ state[x] # "leader"
      BY <1>3, <1>9, <1>15, <2>2
    <3>. QED BY <1>11, <2>2, <3>1 DEF electionVars
  <2>. QED BY <2>1, <2>2
<1>17. /\ reply.type = "AppendEntriesReply" /\ reply.success /\ reply.from = x /\ reply.to = m.from
       /\ reply.argsTerm = m.term /\ reply.match = m.preLogIndex + Len(m.entries)
  BY DEF AppendAnswer
<1>. HIDE DEF reply
<1>18. messages' \subseteq messages \cup {reply} /\ messages \subseteq messages'
  BY <1>12 DEF Answer
<1>19. Appends' = Appends
  BY <1>17, <1>18, OtherMessages
<1>20. Calm
  BY <1>1, AppendEntriesElectionless
<1>21. Step
  <2>1. NothingHalfDone'
    BY <1>1, <1>11 DEF LogInv, NothingHalfDone, Idle
  <2>. QED BY <1>1, <1>20, <2>1, CalmVotes DEF Step
<1>22. \A r \in messages' : r.type = "AppendEntriesReply" =>
          r \in messages \/ (/\ r.from = x /\ r.to = m.from /\ r.argsTerm = m.term
                             /\ r.success /\ r.match = End(Sent(m)))
  BY <1>5, <1>17, <1>18
<1>. HIDE DEF x
<1>23. UNCHANGED <<matchIndex, nextIndex>>
  BY <1>11 DEF leaderVars
<1>. QED BY <1>3, <1>4, <1>5, <1>6, <1>12, <1>13, <1>14, <1>16, <1>19, <1>20, <1>21, <1>22, <1>23
     DEF Accepts, x

(* The pieces there are afterwards.                                        *)
LEMMA AcceptsPieces ==
    ASSUME Step, NEW m, Accepts(m)
    PROVE  LET W == Whole(log[m.to])
               V == Whole(log'[m.to])
               P == Sent(m)
           IN  /\ W \in Piece /\ V \in Piece /\ P \in Piece /\ W \in Pieces /\ P \in Pieces
               /\ Pieces \subseteq Piece
               /\ log[m.to] \in Seq(Entry) /\ log'[m.to] \in Seq(Entry)
               /\ \A R \in Pieces' : R = V \/ R \in Pieces
               /\ Matching(W, P) /\ WellFormed(W) /\ WellFormed(P)
               /\ \A i \in Span(V) : \/ i \in Span(W) /\ TermIn(V, i) = TermIn(W, i)
                                     \/ i \in Span(P) /\ TermIn(V, i) = TermIn(P, i)
<1>. DEFINE x == m.to
            W == Whole(log[x])
            V == Whole(log'[x])
            P == Sent(m)
<1>1. /\ TypeOK /\ LogInv /\ x \in Server /\ P \in Piece /\ Spliced(log'[x], log[x], P)
      /\ log[x] \in Seq(Entry) /\ log'[x] \in Seq(Entry)
  BY StepTypes DEF Accepts
<1>2. W \in Piece /\ V \in Piece /\ W \in Pieces /\ Pieces \subseteq Piece
      /\ Span(W) = 0 .. Len(log[x]) /\ Span(V) = 0 .. Len(log'[x])
      /\ Len(log[x]) \in Nat /\ Len(log'[x]) \in Nat
  BY <1>1, PiecesTyped, WholePiece
<1>3. P \in Pieces
  BY DEF Accepts, Pieces
<1>4. \A R \in Pieces' : R = V \/ R \in Pieces
  BY DEF Accepts, Pieces
<1>5. Matching(W, P) /\ WellFormed(W) /\ WellFormed(P)
  BY <1>1, <1>2, <1>3 DEF LogInv, PiecesMatch, TermsBounded
<1>. HIDE DEF W, V, P, x
<1>6. ASSUME NEW i \in Span(V)
      PROVE  \/ i \in Span(W) /\ TermIn(V, i) = TermIn(W, i)
             \/ i \in Span(P) /\ TermIn(V, i) = TermIn(P, i)
  <2>1. /\ P.base \in Nat /\ P.base <= Len(log'[x]) /\ P.base <= Len(log[x])
        /\ End(P) \in Nat
        /\ \A j \in 0 .. P.base : Same(V, W, j)
        /\ \A j \in Span(P) : Same(V, P, j)
        /\ log'[x] # log[x] => Len(log'[x]) = End(P)
    BY <1>1, SplicedSame DEF W, V
  <2>2. CASE log'[x] = log[x]
    BY <2>2 DEF V, W
  <2>3. CASE log'[x] # log[x] /\ i <= P.base
    <3>1. i \in 0 .. P.base /\ i \in Span(W)
      BY <1>2, <1>6, <2>1, <2>3
    <3>. QED BY <2>1, <3>1 DEF Same
  <2>4. CASE log'[x] # log[x] /\ ~(i <= P.base)
    <3>1. i \in Nat /\ P.base <= i /\ i <= End(P)
      BY <1>2, <1>6, <2>1, <2>4
    <3>2. i \in Span(P)
      BY <2>1, <3>1 DEF Span
    <3>. QED BY <2>1, <3>2 DEF Same
  <2>. QED BY <2>2, <2>3, <2>4
<1>. QED BY <1>1, <1>2, <1>3, <1>4, <1>5, <1>6 DEF W, V, P, x

(* The call takes away nothing that is secure.                             *)
LEMMA AcceptsKeeps ==
    ASSUME Step, NEW m, Accepts(m), NEW L \in Seq(Entry), L # << >>,
           Inherited(Len(L), L[Len(L)].term), Uncontradicted(L), Begins(log[m.to], L)
    PROVE  Begins(log'[m.to], L)
<1>. DEFINE x == m.to
            W == Whole(log[x])
            P == Sent(m)
            k == Len(L)
            T == L[Len(L)].term
<1>1. /\ W \in Piece /\ P \in Piece /\ W \in Pieces /\ P \in Pieces
      /\ log[x] \in Seq(Entry) /\ log'[x] \in Seq(Entry)
      /\ Matching(W, P) /\ WellFormed(W) /\ WellFormed(P)
  BY AcceptsPieces
<1>2. /\ k \in Nat /\ k > 0 /\ k <= Len(log[x]) /\ T \in Nat
      /\ \A i \in 1 .. k : TermIn(W, i) = L[i].term
      /\ TermIn(W, k) = T /\ k \in Span(W)
  BY <1>1, BeginsWith
<1>3. /\ TypeOK /\ LogInv /\ x \in Server /\ m.term \in Nat /\ m.term >= currentTerm[x]
      /\ currentTerm[x] \in Nat /\ Spliced(log'[x], log[x], P)
      /\ Span(W) = 0 .. Len(log[x]) /\ Len(log[x]) \in Nat
  BY <1>1, StepTypes, WholePiece DEF Accepts
<1>4. PICK n \in Appends : n.term = m.term /\ Sent(n) = P
  BY DEF Accepts
<1>5. ASSUME NEW i \in Span(P), i <= k
      PROVE  TermIn(P, i) = TermIn(W, i)
  <2>0. i \in Nat /\ i \in Span(W) /\ P.base \in Nat /\ P.base <= i /\ End(P) \in Nat
    <3>1. i \in Nat /\ P.base \in Nat /\ End(P) \in Nat
      BY <1>1, PieceType
    <3>2. P.base <= i
      BY <1>5, <3>1 DEF Span
    <3>3. i \in 0 .. Len(log[x])
      BY <1>2, <1>3, <1>5, <3>1
    <3>. QED BY <1>3, <3>1, <3>2, <3>3
  <2>1. CASE m.term > T
    <3>1. Has(P, k, T)
      BY <1>4, <2>1 DEF Inherited
    <3>2. k >= P.base
      BY <1>2, <1>5, <2>0
    <3>3. k \in Span(P) /\ TermIn(P, k) = T
      BY <1>2, <2>0, <3>1, <3>2 DEF Has, Span
    <3>4. Same(W, P, i)
      BY <1>1, <1>2, <1>5, <2>0, <3>3, MatchingSame
    <3>. QED BY <3>4 DEF Same
  <2>2. CASE m.term = T /\ i > 0
    <3>1. i \in 1 .. k
      BY <1>2, <1>5, <2>0, <2>2
    <3>. QED BY <1>2, <1>4, <1>5, <2>2, <3>1 DEF Uncontradicted
  <2>3. CASE i = 0
    BY <1>1, <1>5, <2>0, <2>3 DEF WellFormed
  <2>4. CASE m.term < T
    <3>1. TermIn(W, k) <= LastTerm(W) /\ LastTerm(W) \in Nat
      BY <1>1, <1>2, TermsGrowIn, PieceType
    <3>2. LastTerm(W) <= currentTerm[x]
      BY <1>3 DEF LogInv, TermsBounded
    <3>. QED BY <1>2, <1>3, <2>4, <3>1, <3>2
  <2>. QED BY <1>2, <1>3, <2>0, <2>1, <2>2, <2>3, <2>4
<1>. HIDE DEF W, P
<1>6. k <= Len(log'[x]) /\ \A i \in 1 .. k : log'[x][i] = log[x][i]
  BY <1>1, <1>2, <1>3, <1>5, SplicedKeeps DEF W
<1>. QED BY <1>6 DEF Begins

LEMMA AcceptsSecure ==
    ASSUME Step, VotesJustified, NEW m, Accepts(m),
           NEW L \in Seq(Entry), L # << >>, NEW A \in SUBSET Server, Secure(A, L)
    PROVE  Secure(A, L)'
<1>. DEFINE x == m.to
            W == Whole(log[x])
            V == Whole(log'[x])
            P == Sent(m)
            k == Len(L)
            T == L[Len(L)].term
<1>1. /\ W \in Piece /\ V \in Piece /\ P \in Piece /\ W \in Pieces /\ P \in Pieces
      /\ log[x] \in Seq(Entry) /\ log'[x] \in Seq(Entry)
      /\ \A R \in Pieces' : R = V \/ R \in Pieces
      /\ WellFormed(W)
  BY AcceptsPieces
<1>2. Spliced(log'[x], log[x], P) /\ x \in Server
  BY DEF Accepts
<1>3. k \in Nat /\ T \in Nat
  <2>1. Len(L) \in 1 .. Len(L)
    BY EmptySeq
  <2>2. L[Len(L)] \in Entry
    BY <2>1
  <2>. QED BY <2>2 DEF Entry
<1>. HIDE DEF W, V, P, k, T, x
<1>4. \A R \in Pieces : Beyond(R, k, T) => Has(R, k, T)
  BY DEF Secure, Inherited, k, T
<1>5. ASSUME Beyond(V, k, T)
      PROVE  Has(V, k, T)
  <2>1. /\ P.base \in Nat /\ P.base <= Len(log'[x]) /\ P.base <= Len(log[x])
        /\ End(P) \in Nat /\ End(P) <= Len(log'[x])
        /\ \A j \in 0 .. P.base : Same(V, W, j)
        /\ \A j \in Span(P) : Same(V, P, j)
        /\ log'[x] # log[x] => Len(log'[x]) = End(P) /\ LastTerm(V) = LastTerm(P)
    BY <1>1, <1>2, SplicedSame DEF W, V
  <2>2. End(V) = Len(log'[x]) /\ Span(W) = 0 .. Len(log[x]) /\ End(W) = Len(log[x])
        /\ Len(log[x]) \in Nat /\ Len(log'[x]) \in Nat
    BY <1>1, WholePiece DEF V, W
  <2>3. CASE log'[x] = log[x]
    BY <1>1, <1>4, <1>5, <2>3 DEF V, W
  <2>4. CASE log'[x] # log[x]
    <3>1. Beyond(P, k, T)
      BY <1>5, <2>1, <2>2, <2>4 DEF Beyond
    <3>2. Has(P, k, T)
      BY <1>1, <1>4, <3>1
    <3>3. CASE k >= P.base
      <4>1. k \in Span(P) /\ TermIn(P, k) = T /\ k <= End(P)
        BY <1>3, <2>1, <3>2, <3>3 DEF Has, Span
      <4>2. TermIn(V, k) = T /\ k <= Len(log'[x])
        BY <1>3, <2>1, <2>2, <2>4, <4>1 DEF Same
      <4>. QED BY <1>1, <1>3, <4>2, HasWhole DEF V
    <3>4. CASE k < P.base
      <4>1. P.baseTerm >= T /\ P.baseTerm \in Nat
        BY <1>1, <1>3, <2>1, <3>2, <3>4, PieceType DEF Has
      <4>2. TermIn(W, P.base) = P.baseTerm /\ P.base \in Span(W)
        BY <1>2, <2>1, <2>2 DEF Spliced, W
      <4>3. Beyond(W, P.base, P.baseTerm)
        BY <1>1, <4>2, TermsGrowIn
      <4>4. Beyond(W, k, T)
        BY <1>1, <1>3, <2>1, <3>4, <4>1, <4>3, BeyondTransitive
      <4>5. Has(W, k, T)
        BY <1>1, <1>4, <4>4
      <4>6. TermIn(W, k) = T
        BY <1>1, <1>3, <4>5, HasWhole DEF W
      <4>7. k \in 0 .. P.base /\ k <= Len(log'[x])
        BY <1>3, <2>1, <2>2, <3>4
      <4>8. TermIn(V, k) = T
        BY <2>1, <4>6, <4>7 DEF Same
      <4>. QED BY <1>1, <1>3, <4>7, <4>8, HasWhole DEF V
    <3>. QED BY <1>3, <2>1, <3>3, <3>4
  <2>. QED BY <2>3, <2>4
<1>6. \A c \in Server : state'[c] = "leader" /\ currentTerm'[c] > T => Has(Whole(log'[c]), k, T)
  BY DEF Secure, Inherited, Accepts, k, T
<1>7. Inherited(Len(L), L[Len(L)].term)'
  BY <1>1, <1>4, <1>5, <1>6 DEF Secure, Inherited, Accepts, k, T
<1>8. Uncontradicted(L)'
  BY DEF Secure, Uncontradicted, Accepts
<1>9. ASSUME NEW y \in A
      PROVE  Begins(log'[y], L)
  <2>1. CASE y = x
    BY <1>9, <2>1, AcceptsKeeps DEF Secure, HeldBy, x
  <2>2. CASE y # x
    BY <1>9, <2>2 DEF Secure, HeldBy, Accepts, x
  <2>. QED BY <2>1, <2>2
<1>. QED BY <1>7, <1>8, <1>9, SecureOn

(* The one acknowledgement the call adds.                                  *)
LEMMA AcceptsAcks ==
    ASSUME Step, LeadersKept, NEW m, Accepts(m),
           NEW t \in Server, NEW z \in Server, state'[t] = "leader", NEW a \in Acks(t, z)'
    PROVE  \/ a \in Acks(t, z)
           \/ t = m.from /\ z = m.to /\ currentTerm[t] = m.term /\ a = End(Sent(m))
<1>1. currentTerm'[t] = currentTerm[t] /\ matchIndex' = matchIndex
  BY DEF LeadersKept, Accepts
<1>2. CASE a = matchIndex'[t][z]
  BY <1>1, <1>2 DEF Acks
<1>3. CASE \E r \in messages' : IsAppendReply(r, t, z)' /\ r.success /\ a = r.match
  <2>1. PICK r \in messages' : IsAppendReply(r, t, z)' /\ r.success /\ a = r.match
    BY <1>3
  <2>2. r.type = "AppendEntriesReply" /\ r.to = t /\ r.from = z /\ r.argsTerm = currentTerm[t]
    BY <1>1, <2>1 DEF IsAppendReply
  <2>3. CASE r \in messages
    BY <2>1, <2>2, <2>3 DEF Acks, IsAppendReply
  <2>4. CASE r \notin messages
    <3>1. r.from = m.to /\ r.to = m.from /\ r.argsTerm = m.term /\ r.match = End(Sent(m))
      BY <2>2, <2>4 DEF Accepts
    <3>. QED BY <2>1, <2>2, <3>1
  <2>. QED BY <2>3, <2>4
<1>. QED BY <1>2, <1>3 DEF Acks

(* It is true: the leader of the call has what the follower has now.       *)
LEMMA AcceptsAck ==
    ASSUME Step, NEW m, Accepts(m), NEW t \in Server, state[t] = "leader", currentTerm[t] = m.term
    PROVE  LET P == Sent(m)
           IN  /\ t = m.from
               /\ End(P) \in Nat /\ End(P) <= Len(log[t]) /\ End(P) <= Len(log'[m.to])
               /\ \A i \in 1 .. End(P) : log'[m.to][i] = log[t][i]
               /\ \A i \in Span(P) : TermIn(P, i) = TermIn(Whole(log[t]), i)
<1>. DEFINE x == m.to
            W == Whole(log[x])
            V == Whole(log'[x])
            P == Sent(m)
            R == Whole(log[t])
<1>1. /\ W \in Piece /\ V \in Piece /\ P \in Piece /\ W \in Pieces /\ P \in Pieces
      /\ log[x] \in Seq(Entry) /\ log'[x] \in Seq(Entry)
  BY AcceptsPieces
<1>2. /\ TypeOK /\ LogInv /\ HonestCount /\ log[t] \in Seq(Entry) /\ Spliced(log'[x], log[x], P)
      /\ m.from \in Server
  BY StepTypes DEF Accepts
<1>3. PICK n \in Appends : n.from = m.from /\ n.term = m.term /\ Sent(n) = P
  BY DEF Accepts
<1>4. t = m.from
  BY <1>2, <1>3, LeaderAlone DEF LogInv, TermsLed
<1>5. End(P) <= Len(log[t]) /\ \A i \in Span(P) : TermIn(P, i) = TermIn(R, i)
  BY <1>2, <1>3 DEF LogInv, LeaderOwns
<1>6. R \in Piece /\ R \in Pieces
  BY <1>2, PiecesTyped
<1>7. Matching(V, R)
  <2>1. Matching(W, R) /\ Matching(P, R)
    BY <1>1, <1>2, <1>6 DEF LogInv, PiecesMatch
  <2>. QED BY <1>1, <1>2, <1>6, <2>1, SplicedMatching
<1>8. End(P) \in Nat /\ End(P) \in Span(P)
  BY <1>1, PieceType
<1>9. End(P) <= Len(log'[x]) /\ TermIn(V, End(P)) = TermIn(P, End(P))
  BY <1>1, <1>2, <1>8, SplicedSame DEF Same
<1>10. TermIn(V, End(P)) = TermIn(R, End(P))
  BY <1>5, <1>8, <1>9
<1>. HIDE DEF P
<1>11. \A i \in 1 .. End(P) : log'[x][i] = log[t][i]
  BY <1>1, <1>2, <1>5, <1>7, <1>8, <1>9, <1>10, MatchingLogs
<1>. QED BY <1>4, <1>5, <1>8, <1>9, <1>11 DEF P

LEMMA AcceptsAcksTrue ==
    ASSUME Step, LeadersKept, NEW m, Accepts(m)
    PROVE  AcksTrue'
<1>. SUFFICES ASSUME NEW t \in Server, NEW z \in Server, state'[t] = "leader", t # z,
                     NEW a \in Acks(t, z)'
              PROVE  /\ a <= Len(log'[t])
                     /\ a > 0 => currentTerm'[z] >= currentTerm'[t]
                     /\ currentTerm'[z] = currentTerm'[t] =>
                          a <= Len(log'[z]) /\ \A i \in 1 .. a : log'[z][i] = log'[t][i]
  BY DEF AcksTrue
<1>. DEFINE x == m.to
            W == Whole(log[x])
            P == Sent(m)
            R == Whole(log[t])
<1>1. /\ state[t] = "leader" /\ currentTerm'[t] = currentTerm[t]
      /\ t # x /\ log'[t] = log[t] /\ currentTerm'[x] = m.term
  BY DEF LeadersKept, Accepts
<1>2. /\ TypeOK /\ LogInv /\ x \in Server /\ m.term \in Nat /\ m.term >= currentTerm[x]
      /\ currentTerm[z] \in Nat /\ currentTerm[t] \in Nat /\ currentTerm'[z] \in Nat
      /\ currentTerm'[z] >= currentTerm[z] /\ Len(log[t]) \in Nat /\ Len(log[z]) \in Nat
      /\ log[t] \in Seq(Entry) /\ Spliced(log'[x], log[x], P)
  BY StepTypes DEF Accepts
<1>3. CASE t = m.from /\ z = x /\ currentTerm[t] = m.term /\ a = End(P)
  BY <1>1, <1>2, <1>3, AcceptsAck
<1>4. CASE a \in Acks(t, z)
  <2>1. /\ a <= Len(log[t])
        /\ a > 0 => currentTerm[z] >= currentTerm[t]
        /\ currentTerm[z] = currentTerm[t] =>
             a <= Len(log[z]) /\ \A i \in 1 .. a : log[z][i] = log[t][i]
    BY <1>1, <1>2, <1>4 DEF LogInv, AcksTrue
  <2>2. a \in Nat
    BY <1>2, <1>4, AcksTyped
  <2>3. ASSUME currentTerm'[z] = currentTerm[t], z # x
        PROVE  a <= Len(log'[z]) /\ \A i \in 1 .. a : log'[z][i] = log[t][i]
    <3>1. log'[z] = log[z] /\ currentTerm'[z] = currentTerm[z]
      BY <2>3 DEF Accepts
    <3>. QED BY <2>1, <2>3, <3>1
  <2>4. ASSUME currentTerm'[z] = currentTerm[t], z = x, a > 0
        PROVE  a <= Len(log'[z]) /\ \A i \in 1 .. a : log'[z][i] = log[t][i]
    <3>1. currentTerm[t] = m.term /\ currentTerm[x] = currentTerm[t]
      BY <1>1, <1>2, <2>1, <2>4
    <3>2. a <= Len(log[x]) /\ \A i \in 1 .. a : log[x][i] = log[t][i]
      BY <2>1, <2>4, <3>1
    <3>3. /\ P \in Piece /\ log[x] \in Seq(Entry) /\ Matching(W, P)
      BY AcceptsPieces
    <3>4. \A i \in Span(P) : TermIn(P, i) = TermIn(R, i)
      BY <1>1, <3>1, AcceptsAck
    <3>5. ASSUME NEW i \in Span(P), i <= a
          PROVE  TermIn(P, i) = TermIn(W, i)
      <4>1. i \in Nat
        BY <3>3, <3>5, PieceType
      <4>2. CASE i = 0
        BY <1>2, <3>3, <3>4, <3>5, <4>2, WholePiece
      <4>3. CASE i > 0
        <5>1. i \in 1 .. a /\ i \in 1 .. Len(log[x]) /\ i \in 1 .. Len(log[t])
          BY <1>2, <2>1, <2>2, <2>4, <3>2, <3>5, <4>1, <4>3
        <5>2. TermIn(W, i) = log[x][i].term /\ TermIn(R, i) = log[t][i].term
          BY <1>2, <3>3, <5>1, WholePiece
        <5>. QED BY <3>2, <3>4, <3>5, <5>1, <5>2
      <4>. QED BY <4>1, <4>2, <4>3
    <3>6. a <= Len(log'[x]) /\ \A i \in 1 .. a : log'[x][i] = log[x][i]
      BY <1>2, <2>2, <3>2, <3>3, <3>5, SplicedKeeps
    <3>. QED BY <2>4, <3>2, <3>6
  <2>5. ASSUME a = 0
        PROVE  a <= Len(log'[z]) /\ \A i \in 1 .. a : log'[z][i] = log[t][i]
    BY <2>5, StepTypes
  <2>. QED BY <1>1, <1>2, <2>1, <2>2, <2>3, <2>4, <2>5
<1>. QED BY <1>3, <1>4, AcceptsAcks

LEMMA AcceptsOwn ==
    ASSUME Step, VotesJustified, LeadersKept, Calm, NEW m, Accepts(m)
    PROVE  OwnEntriesSecure'
<1>. SUFFICES ASSUME NEW t \in Server, state'[t] = "leader",
                     NEW i \in 1 .. Len(log'[t]), log'[t][i].term = currentTerm'[t]
              PROVE  Blocked(t, i)' \/ Secure(Ackers(t, i), SubSeq(log[t], 1, i))'
  BY DEF OwnEntriesSecure
<1>. DEFINE x == m.to
<1>1. /\ state[t] = "leader" /\ currentTerm'[t] = currentTerm[t]
      /\ t # x /\ log'[t] = log[t] /\ currentTerm'[x] = m.term
  BY DEF LeadersKept, Accepts
<1>2. /\ TypeOK /\ LogInv /\ HonestCount /\ x \in Server /\ m.term \in Nat /\ m.term >= currentTerm[x]
      /\ currentTerm[x] \in Nat /\ currentTerm[t] \in Nat
      /\ log[t] \in Seq(Entry) /\ log'[x] \in Seq(Entry) /\ Appends' = Appends
      /\ i \in Nat /\ i > 0 /\ i <= Len(log[t]) /\ i \in 1 .. Len(log[t])
      /\ log[t][i].term = currentTerm[t]
  BY <1>1, StepTypes DEF Accepts
<1>3. \A z \in Server : Acked(t, z, i)' =>
         \/ Acked(t, z, i)
         \/ currentTerm[t] = m.term /\ z = x /\ i <= End(Sent(m))
  BY AcceptsAcks DEF Acked
<1>4. PICK L : L = SubSeq(log[t], 1, i)
  OBVIOUS
<1>5. /\ L \in Seq(Entry) /\ L # << >> /\ Len(L) = i /\ Begins(log[t], L)
      /\ L[Len(L)].term = currentTerm[t]
  <2>1. UpTo(L, log[t], i)
    BY <1>2, <1>4, PrefixUpTo
  <2>. QED BY <1>2, <2>1 DEF UpTo
<1>6. Blocked(t, i) \/ Secure(Ackers(t, i), L)
  BY <1>1, <1>2, <1>4 DEF LogInv, OwnEntriesSecure
<1>7. CASE Blocked(t, i)
  <2>1. \A z \in Server : currentTerm[z] > currentTerm[t] /\ ~Acked(t, z, i) => ~Acked(t, z, i)'
    BY <1>2, <1>3
  <2>. QED BY <1>1, <1>2, <1>7, <2>1, BlockedStays
<1>8. CASE Secure(Ackers(t, i), L)
  <2>1. Ackers(t, i) \in SUBSET Server
    BY DEF Ackers
  <2>2. Secure(Ackers(t, i), L)'
    <3>1. PICK A \in SUBSET Server : A = Ackers(t, i)
      BY <2>1
    <3>2. Secure(A, L)'
      BY <1>5, <1>8, <3>1, AcceptsSecure
    <3>3. PICK B \in SUBSET Server : B = Ackers(t, i)'
      BY DEF Ackers
    <3>4. ASSUME NEW z \in B, z \notin A
          PROVE  HeldBy(z, L)'
      <4>1. z \in Server /\ Acked(t, z, i)' /\ ~Acked(t, z, i)
        BY <3>1, <3>3, <3>4 DEF Ackers
      <4>2. currentTerm[t] = m.term /\ z = x /\ i <= End(Sent(m))
        BY <1>3, <4>1
      <4>3. Begins(log'[z], L)
        <5>1. /\ End(Sent(m)) \in Nat /\ End(Sent(m)) <= Len(log'[x])
              /\ \A j \in 1 .. End(Sent(m)) : log'[x][j] = log[t][j]
          BY <1>1, <4>2, AcceptsAck
        <5>2. Len(log'[x]) \in Nat
          BY <1>2
        <5>3. \A j \in 1 .. i : j \in 1 .. End(Sent(m))
          BY <1>2, <4>2, <5>1
        <5>4. i <= Len(log'[x])
          BY <1>2, <4>2, <5>1, <5>2
        <5>5. \A j \in 1 .. i : log[t][j] = L[j]
          BY <1>5 DEF Begins
        <5>6. \A j \in 1 .. i : log'[x][j] = L[j]
          BY <5>1, <5>3, <5>5
        <5>. QED BY <1>5, <4>2, <5>4, <5>6 DEF Begins
      <4>4. ASSUME NEW c \in Server, Contends(c)', currentTerm'[c] > currentTerm[t], Voted(z, c)'
            PROVE  FALSE
        <5>1. Contends(c) /\ currentTerm'[c] = currentTerm[c] /\ Voted(z, c)
          BY <1>2, <4>1, <4>4, CalmContenders
        <5>2. currentTerm[z] >= currentTerm[c] /\ currentTerm[c] \in Nat
          BY <1>2, <4>1, <5>1, VotedTerm, StepTypes
        <5>. QED BY <1>2, <4>2, <4>4, <5>1, <5>2
      <4>. QED BY <1>5, <4>3, <4>4 DEF HeldBy, Begins
    <3>5. Secure(B, L)'
      BY <3>2, <3>4 DEF Secure
    <3>. QED BY <3>3, <3>5 DEF Secure, HeldBy, Inherited, Uncontradicted, Begins
  <2>. QED BY <1>1, <1>4, <2>2 DEF Secure, HeldBy, Inherited, Uncontradicted, Begins
<1>. QED BY <1>6, <1>7, <1>8

LEMMA AcceptsShape ==
    ASSUME Step, NEW m, Accepts(m)
    PROVE  /\ \A R \in Pieces' : WellFormed(R)
           /\ LastTerm(Whole(log'[m.to])) <= m.term
           /\ \A R \in Pieces : Matching(Whole(log'[m.to]), R)
<1>. DEFINE x == m.to
            W == Whole(log[x])
            V == Whole(log'[x])
            P == Sent(m)
<1>1. /\ W \in Piece /\ V \in Piece /\ P \in Piece /\ W \in Pieces /\ P \in Pieces
      /\ Pieces \subseteq Piece
      /\ log[x] \in Seq(Entry) /\ log'[x] \in Seq(Entry)
      /\ \A R \in Pieces' : R = V \/ R \in Pieces
      /\ WellFormed(W) /\ WellFormed(P)
  BY AcceptsPieces
<1>2. /\ LogInv /\ x \in Server /\ m.term \in Nat /\ m.term >= currentTerm[x]
      /\ currentTerm[x] \in Nat /\ Spliced(log'[x], log[x], P)
  BY StepTypes DEF Accepts
<1>3. WellFormed(V)
  BY <1>1, <1>2, SplicedWellFormed
<1>4. LastTerm(V) <= m.term
  <2>1. PICK n \in Appends : n.term = m.term /\ Sent(n) = P
    BY DEF Accepts
  <2>2. LastTerm(P) <= m.term /\ LastTerm(W) <= currentTerm[x]
    BY <1>2, <2>1 DEF LogInv, TermsBounded
  <2>3. LastTerm(W) \in Nat
    BY <1>1, PieceType
  <2>4. CASE log'[x] = log[x]
    BY <1>2, <2>2, <2>3, <2>4
  <2>5. CASE log'[x] # log[x]
    <3>1. LastTerm(V) = LastTerm(P)
      BY <1>1, <1>2, <2>5, SplicedSame
    <3>. QED BY <2>2, <3>1
  <2>. QED BY <2>4, <2>5
<1>5. ASSUME NEW R \in Pieces
      PROVE  Matching(V, R)
  <2>1. Matching(W, R) /\ Matching(P, R) /\ R \in Piece
    BY <1>1, <1>2 DEF LogInv, PiecesMatch
  <2>. QED BY <1>1, <1>2, <2>1, SplicedMatching
<1>6. \A R \in Pieces : WellFormed(R)
  BY <1>2 DEF LogInv, TermsBounded
<1>. HIDE DEF V, W, P
<1>7. \A R \in Pieces' : WellFormed(R)
  BY <1>1, <1>3, <1>6
<1>. QED BY <1>4, <1>5, <1>7 DEF V

LEMMA AcceptAgrees ==
    ASSUME NoLogFault, Inv, StorageInv', HonestCount', NEW m \in messages, AppendEntries(m),
           m.term >= currentTerm[m.to], Consistent(m.to, m)
    PROVE  Step /\ Agreement' /\ ChosenKept
<1>1. Step /\ Accepts(m) /\ Calm
  BY AcceptAccepts
<1>. DEFINE x == m.to
            W == Whole(log[x])
            V == Whole(log'[x])
            P == Sent(m)
<1>2. /\ Inv /\ TypeOK /\ LogInv /\ HonestCount /\ Appends' = Appends
      /\ x \in Server /\ m.term \in Nat /\ m.term >= currentTerm[x] /\ currentTerm'[x] = m.term
      /\ state'[x] # "leader"
      /\ \A t \in Server : /\ currentTerm[t] \in Nat /\ Len(log[t]) \in Nat /\ Len(log'[t]) \in Nat
                           /\ currentTerm'[t] \in Nat /\ currentTerm'[t] >= currentTerm[t]
      /\ \A t \in Server \ {x} : log'[t] = log[t] /\ currentTerm'[t] = currentTerm[t] /\ state'[t] = state[t]
      /\ UNCHANGED <<matchIndex, nextIndex>>
  BY <1>1, StepTypes DEF Accepts
<1>3. LeadersKept
  BY <1>1, <1>2, CalmVotes
<1>4. PICK n \in Appends : n.from = m.from /\ n.term = m.term /\ Sent(n) = P
  BY <1>1 DEF Accepts
<1>5. VotesJustified
  <2>1. ASSUME NEW c \in Server, Contends(c)'
        PROVE  log'[c] = log[c]
    <3>1. c # x
      BY <1>2, <1>4, <2>1 DEF Contends
    <3>. QED BY <1>2, <3>1
  <2>. QED BY <1>1, <1>2, <2>1, CalmJustified
<1>6. Requested
  BY <1>1, <1>2, CalmRequested
<1>7. Replied
  <2>1. m \in messages /\ m.type = "AppendEntries"
    BY DEF AppendEntries
  <2>2. PICK c \in Appends : c.from = m.from /\ c.to = m.to /\ c.term = m.term
    BY <1>2, <2>1, CallSeen
  <2>. QED BY <1>1, <2>2 DEF Replied, Accepts
<1>8. NextKnown
  BY <1>2, <1>3 DEF NextKnown, LeadersKept, LogInv, RefusalsTrue
<1>9. RequestsTrue' /\ \A r \in messages' : r.type = "RequestVote" => r.term <= currentTerm'[r.from]
  BY <1>1, <1>2, <1>5, <1>6, RequestsStay
<1>10. RefusalsTrue' /\ \A r \in messages' : r.type = "AppendEntriesReply" =>
                          r.from # r.to /\ Led(r.to, r.argsTerm)'
  <2>1. \A t \in Server : state'[t] = "leader" => Len(log[t]) <= Len(log'[t])
    BY <1>2
  <2>. QED BY <1>1, <1>3, <1>7, <1>8, <2>1, RepliesStay
<1>11. /\ W \in Piece /\ V \in Piece /\ P \in Piece /\ W \in Pieces /\ P \in Pieces
       /\ Pieces \subseteq Piece
       /\ \A R \in Pieces' : R = V \/ R \in Pieces
       /\ \A i \in Span(V) : \/ i \in Span(W) /\ TermIn(V, i) = TermIn(W, i)
                             \/ i \in Span(P) /\ TermIn(V, i) = TermIn(P, i)
  BY <1>1, AcceptsPieces
<1>12. /\ \A R \in Pieces' : WellFormed(R)
       /\ LastTerm(V) <= m.term
       /\ \A R \in Pieces : Matching(V, R)
  BY <1>1, AcceptsShape
<1>13. TermsBounded'
  <2>1. \A t \in Server : LastTerm(Whole(log'[t])) <= currentTerm'[t]
    <3>. SUFFICES ASSUME NEW t \in Server
                  PROVE  LastTerm(Whole(log'[t])) <= currentTerm'[t]
      OBVIOUS
    <3>1. CASE t = x
      BY <1>2, <1>12, <3>1
    <3>2. CASE t # x
      BY <1>2, <3>2 DEF LogInv, TermsBounded
    <3>. QED BY <3>1, <3>2
  <2>2. \A t \in Server : Running(t)' => currentTerm'[t] > 0
    BY <1>1, RunningTerms
  <2>. QED BY <1>2, <1>9, <1>12, <2>1, <2>2 DEF LogInv, TermsBounded, LastTerm, Whole, TermIn, End, EntryIn
<1>. HIDE DEF x, W, V, P
<1>14. ASSUME NEW R \in Pieces', NEW i \in Span(R)
       PROVE  \E S \in Pieces : i \in Span(S) /\ TermIn(R, i) = TermIn(S, i)
  BY <1>11, <1>14
<1>15. TermsLed'
  <2>1. /\ \A R \in Pieces : \A i \in Span(R) : i > 0 => \E l \in Server : Led(l, TermIn(R, i))'
        /\ \A r \in Appends : Led(r.from, r.term)'
    BY <1>1, TermsLedStay
  <2>2. ASSUME NEW R \in Pieces', NEW i \in Span(R), i > 0
        PROVE  \E l \in Server : Led(l, TermIn(R, i))'
    <3>1. PICK S \in Pieces : i \in Span(S) /\ TermIn(R, i) = TermIn(S, i)
      BY <1>14
    <3>2. \E l \in Server : Led(l, TermIn(S, i))'
      BY <2>1, <2>2, <3>1
    <3>. QED BY <3>1, <3>2
  <2>3. \A t \in Server : state'[t] = "leader" => Led(t, currentTerm[t])'
    BY <1>1, <1>3, LeadersLed
  <2>. QED BY <1>2, <1>10, <2>1, <2>2, <2>3 DEF TermsLed, Led, Span, TermIn, End, EntryIn
<1>16. PiecesMatch'
  <2>. SUFFICES ASSUME NEW R \in Pieces', NEW S \in Pieces'
                PROVE  Matching(R, S)
    BY DEF PiecesMatch, Matching, Span, TermIn, End, EntryIn
  <2>. QED BY <1>2, <1>11, <1>12, MatchingSymmetric, MatchingReflexive DEF LogInv, PiecesMatch
<1>17. LeaderOwns'
  <2>. SUFFICES ASSUME NEW t \in Server, state'[t] = "leader"
                PROVE  /\ \A R \in Pieces' : \A i \in Span(R) : TermIn(R, i) = currentTerm'[t] =>
                             i <= Len(log'[t]) /\ TermIn(Whole(log'[t]), i) = currentTerm'[t]
                       /\ \A r \in Appends : r.term = currentTerm'[t] =>
                             /\ End(Sent(r)) <= Len(log'[t])
                             /\ \A i \in Span(Sent(r)) : TermIn(Sent(r), i) = TermIn(Whole(log'[t]), i)
    BY <1>2 DEF LeaderOwns, Span, TermIn, End, EntryIn, Whole, Sent
  <2>1. state[t] = "leader" /\ log'[t] = log[t] /\ currentTerm'[t] = currentTerm[t]
    BY <1>2
  <2>2. ASSUME NEW R \in Pieces', NEW i \in Span(R), TermIn(R, i) = currentTerm[t]
        PROVE  i <= Len(log[t]) /\ TermIn(Whole(log[t]), i) = currentTerm[t]
    <3>1. PICK S \in Pieces : i \in Span(S) /\ TermIn(R, i) = TermIn(S, i)
      BY <1>14
    <3>. QED BY <1>2, <2>1, <2>2, <3>1, OwnedBy
  <2>. QED BY <1>2, <2>1, <2>2 DEF LogInv, LeaderOwns
<1>18. AcksTrue' /\ OwnEntriesSecure'
  BY <1>1, <1>3, <1>5, AcceptsAcksTrue, AcceptsOwn
<1>19. ChosenKept
  <2>1. \A L \in Seq(Entry) : \A y \in Server : \A A \in SUBSET Server :
           L # << >> /\ Begins(log[y], L) /\ Secure(A, L) => Secure(A, L)'
    BY <1>1, <1>5, AcceptsSecure
  <2>2. ASSUME NEW L \in Seq(Entry), NEW y \in Server, L # << >>, Chosen(L), Begins(log[y], L)
        PROVE  Begins(log'[y], L)
    <3>1. CASE y = x
      <4>1. Inherited(Len(L), L[Len(L)].term) /\ Uncontradicted(L)
        BY <2>2 DEF Chosen, Secure
      <4>. QED BY <1>1, <2>2, <3>1, <4>1, AcceptsKeeps DEF x
    <3>2. CASE y # x
      BY <1>2, <2>2, <3>2
    <3>. QED BY <3>1, <3>2
  <2>. QED BY <1>1, <2>1, <2>2, SecureChosen
<1>. QED BY <1>1, <1>9, <1>10, <1>13, <1>15, <1>16, <1>17, <1>18, <1>19
     DEF Agreement, Step

-----------------------------------------------------------------------------
(* Commit indexes.                                                         *)

(* What server s takes for committed, and what it has executed.            *)
CommitOf(s) ==
    /\ commitIndex[s] > 0 => commitIndex[s] <= Len(log[s]) /\ Chosen(SubSeq(log[s], 1, commitIndex[s]))
    /\ lastApplied[s] = commitIndex[s]
    /\ Len(applied[s]) = commitIndex[s]
    /\ \A i \in 1 .. commitIndex[s] : applied[s][i] = log[s][i].command

(* What a call tells of the commits.                                       *)
CommitIn(m) ==
    m.leaderCommit > 0 =>
        /\ m.leaderCommit <= End(Sent(m))
        /\ \E y \in Server :
              /\ m.leaderCommit <= Len(log[y])
              /\ Chosen(SubSeq(log[y], 1, m.leaderCommit))
              /\ Has(Sent(m), m.leaderCommit, log[y][m.leaderCommit].term)

Commits == (\A s \in Server : CommitOf(s)) /\ (\A m \in Appends : CommitIn(m))

(* A commit index goes back only in a crash, to the start.                 *)
CommitsGrow ==
    \A s \in Server : commitIndex'[s] >= commitIndex[s] \/ (commitIndex'[s] = 0 /\ crashes' > crashes)

(* A leader only appends.                                                  *)
LeadersAppend ==
    \A s \in Server : state[s] = "leader" /\ state'[s] = "leader" =>
        /\ Len(log[s]) <= Len(log'[s])
        /\ \A i \in 1 .. Len(log[s]) : log'[s][i] = log[s][i]

(* No entry is new.                                                        *)
EntriesOld ==
    \A R \in Pieces' : \A i \in Span(R) : i > R.base =>
        \E S \in Pieces : i \in Span(S) /\ i > S.base /\ EntryIn(S, i) = EntryIn(R, i)

LEMMA CommitsAre == CommitsChosen /\ CommitsExecuted <=> Commits
BY DEF CommitsChosen, CommitsExecuted, Commits, CommitOf, CommitIn

LEMMA CommitsAreThen == Commits' => CommitsChosen' /\ CommitsExecuted'
BY CommitsAre, PTL

(* What is chosen stays where it is.                                       *)
LEMMA ChosenOn ==
    ASSUME Step, ChosenKept, NEW y \in Server, NEW n \in Nat, n > 0, n <= Len(log[y]),
           Chosen(SubSeq(log[y], 1, n))
    PROVE  /\ n <= Len(log'[y])
           /\ \A i \in 1 .. n : log'[y][i] = log[y][i]
           /\ log'[y][n] = log[y][n]
           /\ Chosen(SubSeq(log[y], 1, n))'
<1>1. log[y] \in Seq(Entry) /\ log'[y] \in Seq(Entry) /\ Len(log'[y]) \in Nat
  BY StepTypes
<1>2. PICK L : L = SubSeq(log[y], 1, n)
  OBVIOUS
<1>3. L \in Seq(Entry) /\ L # << >> /\ Len(L) = n /\ Begins(log[y], L)
  <2>1. UpTo(L, log[y], n)
    BY <1>1, <1>2, PrefixUpTo
  <2>. QED BY <2>1 DEF UpTo
<1>4. Chosen(L)' /\ Begins(log'[y], L)
  BY <1>2, <1>3 DEF ChosenKept
<1>5. SubSeq(log'[y], 1, n) = L
  BY <1>1, <1>3, <1>4, PrefixIs
<1>6. n <= Len(log'[y]) /\ \A i \in 1 .. n : log'[y][i] = log[y][i]
  BY <1>3, <1>4 DEF Begins
<1>7. log'[y][n] = log[y][n]
  BY <1>6
<1>8. Chosen(SubSeq(log[y], 1, n))'
  BY <1>4, <1>5 DEF Chosen, Secure, HeldBy, Inherited, Uncontradicted, Begins
<1>. QED BY <1>6, <1>7, <1>8

LEMMA CommitStays ==
    ASSUME Step, ChosenKept, Commits, NEW s \in Server,
           \/ commitIndex'[s] = commitIndex[s] /\ lastApplied'[s] = lastApplied[s] /\ applied'[s] = applied[s]
           \/ commitIndex'[s] = 0 /\ lastApplied'[s] = 0 /\ applied'[s] = << >>
    PROVE  CommitOf(s)'
<1>1. TypeOK /\ commitIndex[s] \in Nat /\ CommitOf(s)
  BY StepTypes DEF TypeOK, Commits
<1>2. CASE commitIndex'[s] = 0 /\ lastApplied'[s] = 0 /\ applied'[s] = << >>
  BY <1>2 DEF CommitOf
<1>3. CASE /\ commitIndex'[s] = commitIndex[s] /\ lastApplied'[s] = lastApplied[s]
           /\ applied'[s] = applied[s] /\ commitIndex[s] > 0
  <2>1. PICK n \in Nat : n = commitIndex[s]
    BY <1>1
  <2>2. n > 0 /\ n <= Len(log[s]) /\ Chosen(SubSeq(log[s], 1, n))
    BY <1>1, <1>3, <2>1 DEF CommitOf
  <2>3. /\ n <= Len(log'[s])
        /\ \A i \in 1 .. n : log'[s][i] = log[s][i]
        /\ Chosen(SubSeq(log[s], 1, n))'
    BY <2>2, ChosenOn
  <2>4. commitIndex'[s] = n
    BY <1>3, <2>1
  <2>5. Chosen(SubSeq(log[s], 1, commitIndex[s]))'
    BY <2>3, <2>4 DEF Chosen, Secure, HeldBy, Inherited, Uncontradicted, Begins
  <2>6. \A i \in 1 .. n : applied'[s][i] = log'[s][i].command
    BY <1>1, <1>3, <2>1, <2>3 DEF CommitOf
  <2>. QED BY <1>1, <1>3, <2>1, <2>3, <2>4, <2>5, <2>6 DEF CommitOf
<1>4. CASE /\ commitIndex'[s] = commitIndex[s] /\ lastApplied'[s] = lastApplied[s]
           /\ applied'[s] = applied[s] /\ commitIndex[s] = 0
  BY <1>1, <1>4 DEF CommitOf
<1>. QED BY <1>1, <1>2, <1>3, <1>4

LEMMA CallStays ==
    ASSUME Step, ChosenKept, Commits, NEW m \in Appends
    PROVE  CommitIn(m)'
<1>. SUFFICES ASSUME m.leaderCommit > 0
              PROVE  /\ m.leaderCommit <= End(Sent(m))
                     /\ \E y \in Server :
                           /\ m.leaderCommit <= Len(log'[y])
                           /\ Chosen(SubSeq(log[y], 1, m.leaderCommit))'
                           /\ Has(Sent(m), m.leaderCommit, log'[y][m.leaderCommit].term)
  BY DEF CommitIn, Has, TermIn, EntryIn, End, Sent
<1>1. m.leaderCommit \in Nat
  BY StepTypes, AppendsTyped
<1>2. PICK y \in Server : /\ m.leaderCommit <= Len(log[y])
                          /\ Chosen(SubSeq(log[y], 1, m.leaderCommit))
                          /\ Has(Sent(m), m.leaderCommit, log[y][m.leaderCommit].term)
  BY DEF Commits, CommitIn
<1>3. m.leaderCommit <= End(Sent(m))
  BY DEF Commits, CommitIn
<1>4. PICK n \in Nat : n = m.leaderCommit
  BY <1>1
<1>5. /\ n <= Len(log'[y]) /\ log'[y][n] = log[y][n]
      /\ Chosen(SubSeq(log[y], 1, n))'
  BY <1>2, <1>4, ChosenOn
<1>. QED BY <1>2, <1>3, <1>4, <1>5

(* Nothing new is committed, and nobody is told so.                        *)
LEMMA CommitsOn ==
    ASSUME Step, ChosenKept, CommitsKept, Appends' = Appends
    PROVE  CommitsChosen' /\ CommitsExecuted' /\ CommitsGrow
<1>1. Commits
  BY StepTypes, CommitsAre DEF LogInv
<1>2. \A s \in Server : CommitOf(s)'
  BY <1>1, CommitStays DEF CommitsKept
<1>3. \A m \in Appends : CommitIn(m)'
  BY <1>1, CallStays
<1>4. Commits'
  BY <1>2, <1>3 DEF Commits, CommitOf, CommitIn
<1>5. \A s \in Server : commitIndex[s] \in Nat
  BY StepTypes DEF TypeOK
<1>6. CommitsGrow
  BY <1>5 DEF CommitsGrow, CommitsKept
<1>. QED BY <1>4, <1>6, CommitsAreThen

(* The logs are as they were.                                              *)
LEMMA QuietEntries ==
    ASSUME Pieces' = Pieces, log' = log
    PROVE  EntriesOld /\ LeadersAppend
BY DEF EntriesOld, LeadersAppend

(* A leader tells its peers what it takes for committed.                   *)
LEMMA SendsCommits ==
    ASSUME Step, ChosenKept, CommitsKept, NEW l \in Server, Sends(l)
    PROVE  CommitsChosen' /\ CommitsExecuted' /\ CommitsGrow
<1>1. Commits /\ TypeOK /\ LogInv
  BY StepTypes, CommitsAre DEF LogInv
<1>2. \A s \in Server : CommitOf(s)'
  BY <1>1, CommitStays DEF CommitsKept
<1>3. ASSUME NEW m \in Appends'
      PROVE  CommitIn(m)'
  <2>1. CASE m \in Appends
    BY <1>1, <2>1, CallStays
  <2>2. CASE m \notin Appends /\ m.leaderCommit = 0
    BY <2>2 DEF CommitIn
  <2>3. CASE m \notin Appends /\ m.leaderCommit # 0
    <3>1. Carries(m, l)
      BY <1>3, <2>3 DEF Sends
    <3>2. PICK W \in Pieces : W = Whole(log[l])
      BY <1>1, PiecesTyped
    <3>3. PICK n \in Nat : n = commitIndex[l]
      BY <1>1 DEF TypeOK
    <3>4. /\ Sent(m) \in Piece /\ Part(Sent(m), W) /\ End(Sent(m)) = Len(log[l])
          /\ m.leaderCommit = n
      BY <3>1, <3>2, <3>3 DEF Carries
    <3>5. CommitOf(l) /\ n > 0 /\ log[l] \in Seq(Entry) /\ Len(log[l]) \in Nat
      BY <1>1, <2>3, <3>3, <3>4, StepTypes DEF Commits
    <3>6. n <= Len(log[l]) /\ log' = log /\ commitIndex' = commitIndex
      BY <3>3, <3>5 DEF CommitOf, Sends, applyVars
    <3>7. W \in Piece /\ WellFormed(W) /\ End(W) = Len(log[l]) /\ TermIn(W, n) = log[l][n].term
          /\ log[l][n].term \in Nat
      <4>1. n \in 1 .. Len(log[l])
        BY <3>5, <3>6
      <4>. QED BY <1>1, <3>2, <3>5, <4>1, WholePiece DEF LogInv, TermsBounded
    <3>8. Has(W, n, log[l][n].term)
      BY <3>2, <3>5, <3>6, <3>7, HasWhole
    <3>9. Has(Sent(m), n, log[l][n].term)
      BY <3>4, <3>7, <3>8, PartTail
    <3>10. Chosen(SubSeq(log[l], 1, n))'
      <4>1. CommitOf(l)'
        BY <1>2
      <4>. QED BY <3>3, <3>5, <3>6, <4>1 DEF CommitOf
    <3>11. /\ m.leaderCommit <= End(Sent(m))
           /\ m.leaderCommit <= Len(log'[l])
           /\ Chosen(SubSeq(log[l], 1, m.leaderCommit))'
           /\ Has(Sent(m), m.leaderCommit, log'[l][m.leaderCommit].term)
      BY <3>4, <3>6, <3>9, <3>10
    <3>. QED BY <3>11 DEF CommitIn, Has, TermIn, EntryIn, End, Sent
  <2>. QED BY <2>1, <2>2, <2>3
<1>4. Commits'
  BY <1>2, <1>3 DEF Commits, CommitOf, CommitIn
<1>5. \A t \in Server : commitIndex[t] \in Nat
  BY <1>1 DEF TypeOK
<1>6. CommitsGrow
  BY <1>5 DEF CommitsGrow, CommitsKept
<1>. QED BY <1>4, <1>6, CommitsAreThen

(* The state machine gets what is newly committed.                         *)
LEMMA AppliesTo ==
    ASSUME TypeOK, NEW s \in Server, lastIncludedIndex[s] = 0, CommitOf(s),
           NEW l \in Seq(Entry), NEW c \in Nat, c >= commitIndex[s], c <= Len(l),
           \A i \in 1 .. commitIndex[s] : l[i] = log[s][i], ApplyUpTo(s, l, c)
    PROVE  /\ commitIndex'[s] = c /\ lastApplied'[s] = c /\ Len(applied'[s]) = c
           /\ \A i \in 1 .. c : applied'[s][i] = l[i].command
           /\ \A t \in Server \ {s} : /\ commitIndex'[t] = commitIndex[t]
                                      /\ lastApplied'[t] = lastApplied[t]
                                      /\ applied'[t] = applied[t]
<1>1. /\ commitIndex \in [Server -> Nat] /\ lastApplied \in [Server -> Nat]
      /\ applied \in [Server -> Seq(Command)]
  BY DEF TypeOK
<1>2. PICK k \in Nat : k = commitIndex[s]
  BY <1>1
<1>3. lastApplied[s] = k /\ Len(applied[s]) = k /\ k <= c /\ Len(l) \in Nat
      /\ \A i \in 1 .. k : applied[s][i] = log[s][i].command
  BY <1>2 DEF CommitOf
<1>. DEFINE new == [i \in 1 .. Greatest(c - lastApplied[s], 0) |->
                      l[lastApplied[s] + i - lastIncludedIndex[s]].command]
<1>4. /\ commitIndex' = [commitIndex EXCEPT ![s] = c]
      /\ lastApplied' = [lastApplied EXCEPT ![s] = Greatest(@, c)]
      /\ Execute(s, lastApplied[s], new)
  BY DEF ApplyUpTo
<1>5. Greatest(c - lastApplied[s], 0) = c - k /\ c - k \in Nat /\ Greatest(lastApplied[s], c) = c
  BY <1>3 DEF Greatest
<1>6. \A i \in 1 .. c - k : k + i \in 1 .. Len(l) /\ lastApplied[s] + i - lastIncludedIndex[s] = k + i
  BY <1>3
<1>7. new = [i \in 1 .. c - k |-> l[k + i].command]
  BY <1>5, <1>6
<1>8. \A i \in 1 .. c - k : l[k + i].command \in Command
  <2>. SUFFICES ASSUME NEW i \in 1 .. c - k
                PROVE  l[k + i].command \in Command
    OBVIOUS
  <2>1. l[k + i] \in Entry
    BY <1>6, ElementOfSeq
  <2>. QED BY <2>1 DEF Entry
<1>9. /\ new \in Seq(Command) /\ Len(new) = c - k
      /\ \A i \in 1 .. c - k : new[i] = l[k + i].command
  <2>. DEFINE p == c - k
  <2>1. new \in [1 .. p -> Command]
    BY <1>7, <1>8
  <2>2. \A i \in 1 .. p : new[i] = l[k + i].command
    BY <1>7
  <2>. HIDE DEF new, p
  <2>3. p \in Nat
    BY <1>5 DEF p
  <2>4. new \in Seq(Command) /\ Len(new) = p
    BY <2>1, <2>3
  <2>. QED BY <2>2, <2>4 DEF p
<1>. HIDE DEF new
<1>10. applied' = [applied EXCEPT ![s] = @ \o new]
  BY <1>3, <1>4 DEF Execute
<1>11. applied'[s] = applied[s] \o new
  BY <1>1, <1>10
<1>12. /\ Len(applied'[s]) = k + (c - k)
       /\ \A i \in 1 .. k + (c - k) : applied'[s][i] = IF i <= k THEN applied[s][i] ELSE new[i - k]
  <2>1. PICK a \in Seq(Command) : a = applied[s]
    BY <1>1
  <2>2. PICK b \in Seq(Command) : b = new
    BY <1>9
  <2>3. /\ Len(a \o b) = Len(a) + Len(b)
        /\ \A i \in 1 .. Len(a) + Len(b) : (a \o b)[i] = IF i <= Len(a) THEN a[i] ELSE b[i - Len(a)]
    BY ConcatProperties
  <2>4. Len(a) = k /\ Len(b) = c - k
    BY <1>3, <1>9, <2>1, <2>2
  <2>5. applied'[s] = a \o b
    BY <1>11, <2>1, <2>2
  <2>6. /\ Len(applied'[s]) = k + (c - k)
        /\ \A i \in 1 .. k + (c - k) : applied'[s][i] = IF i <= k THEN a[i] ELSE b[i - k]
    <3>. DEFINE w == applied'[s]
    <3>1. w = a \o b
      BY <2>5
    <3>. HIDE DEF w
    <3>2. /\ Len(w) = k + (c - k)
          /\ \A i \in 1 .. k + (c - k) : w[i] = IF i <= k THEN a[i] ELSE b[i - k]
      BY <2>3, <2>4, <3>1, Zenon
    <3>. QED BY <3>2 DEF w
  <2>. QED BY <2>1, <2>2, <2>6, Zenon
<1>13. ASSUME NEW i \in 1 .. c
       PROVE  applied'[s][i] = l[i].command
  <2>1. i \in 1 .. k + (c - k)
    BY <1>3
  <2>2. CASE i <= k
    <3>1. i \in 1 .. k
      BY <2>2
    <3>. QED BY <1>2, <1>3, <1>12, <2>1, <2>2, <3>1
  <2>3. CASE ~(i <= k)
    <3>1. i - k \in 1 .. c - k /\ k + (i - k) = i
      BY <1>3, <2>3
    <3>. QED BY <1>9, <1>12, <2>1, <2>3, <3>1
  <2>. QED BY <2>2, <2>3
<1>14. commitIndex'[s] = c /\ lastApplied'[s] = c /\ Len(applied'[s]) = c
  BY <1>1, <1>3, <1>4, <1>5, <1>12
<1>15. \A t \in Server \ {s} : /\ commitIndex'[t] = commitIndex[t]
                               /\ lastApplied'[t] = lastApplied[t]
                               /\ applied'[t] = applied[t]
  BY <1>1, <1>4, <1>10
<1>. QED BY <1>13, <1>14, <1>15

(* Where the commit index of a leader goes.                                *)
LEMMA LeaderCommitIs ==
    ASSUME TypeOK, NEW s \in Server, NEW match \in [Server -> Nat],
           lastIncludedIndex[s] = 0, lastIncludedTerm[s] = 0
    PROVE  LET c == LeaderCommit(s, match)
           IN  \/ c = commitIndex[s]
               \/ /\ c \in Nat /\ c > commitIndex[s] /\ c <= Len(log[s])
                  /\ Majority(Cardinality({s} \cup {d \in Server \ {s} : match[d] >= c}))
                  /\ log[s][c].term = currentTerm[s]
<1>. DEFINE replicas(n) == {s} \cup {d \in Server \ {s} : match[d] >= n}
            committable == {n \in Greatest(commitIndex[s] + 1, lastIncludedIndex[s])..LastLogIndex(s) :
                              /\ Majority(Cardinality(replicas(n)))
                              /\ TermAt(s, n) = currentTerm[s]}
<1>1. /\ commitIndex[s] \in Nat /\ Len(log[s]) \in Nat /\ LastLogIndex(s) = Len(log[s])
      /\ log[s] \in Seq(Entry)
      /\ \A i \in 0 .. Len(log[s]) : TermAt(s, i) = TermIn(Whole(log[s]), i)
  BY LogAsPiece DEF TypeOK
<1>2. committable \in SUBSET (0 .. Len(log[s]))
  BY <1>1 DEF Greatest
<1>3. LeaderCommit(s, match) = IF committable = {} THEN commitIndex[s] ELSE MaxOf(committable)
  BY DEF LeaderCommit
<1>. HIDE DEF committable
<1>4. CASE committable = {}
  BY <1>3, <1>4
<1>5. CASE committable # {}
  <2>1. PICK c \in committable : c = MaxOf(committable)
    BY <1>1, <1>2, <1>5, MaxOfNat
  <2>2. /\ c \in Greatest(commitIndex[s] + 1, lastIncludedIndex[s]) .. LastLogIndex(s)
        /\ Majority(Cardinality(replicas(c)))
        /\ TermAt(s, c) = currentTerm[s]
    BY <2>1 DEF committable
  <2>5. Greatest(commitIndex[s] + 1, lastIncludedIndex[s]) = commitIndex[s] + 1
    BY <1>1 DEF Greatest
  <2>6. c \in 0 .. Len(log[s]) /\ c >= commitIndex[s] + 1
    BY <1>1, <2>2, <2>5
  <2>3. c \in 1 .. Len(log[s])
    BY <1>1, <2>6
  <2>4. log[s][c].term = currentTerm[s]
    BY <1>1, <2>2, <2>3, <2>6, WholePiece
  <2>7. LeaderCommit(s, match) = c
    BY <1>3, <1>5, <2>1
  <2>8. c \in Nat /\ c > commitIndex[s] /\ c <= Len(log[s])
    BY <1>1, <2>6
  <2>. QED BY <2>2, <2>4, <2>7, <2>8
<1>. QED BY <1>4, <1>5

(* The commit index of one server goes where everything is chosen.         *)
LEMMA CommitMoves ==
    ASSUME Step, ChosenKept, Appends' = Appends, NEW s \in Server, NEW c \in Nat,
           c >= commitIndex[s], ApplyUpTo(s, log'[s], c),
           c > commitIndex[s] => c <= Len(log'[s]) /\ Chosen(SubSeq(log[s], 1, c))'
    PROVE  CommitsChosen' /\ CommitsExecuted' /\ CommitsGrow
<1>1. Commits /\ CommitOf(s) /\ TypeOK
  BY StepTypes, CommitsAre DEF LogInv, Commits
<1>2. PICK k \in Nat : k = commitIndex[s]
  BY <1>1 DEF TypeOK
<1>3. k > 0 => /\ k <= Len(log'[s])
               /\ \A i \in 1 .. k : log'[s][i] = log[s][i]
               /\ Chosen(SubSeq(log[s], 1, k))'
  <2>1. k > 0 => k <= Len(log[s]) /\ Chosen(SubSeq(log[s], 1, k))
    BY <1>1, <1>2 DEF CommitOf
  <2>. QED BY <2>1, ChosenOn
<1>4. log'[s] \in Seq(Entry) /\ Len(log'[s]) \in Nat /\ lastIncludedIndex[s] = 0
  BY StepTypes
<1>5. c > 0 => c <= Len(log'[s]) /\ Chosen(SubSeq(log[s], 1, c))'
  <2>1. CASE c > k
    BY <1>2, <2>1
  <2>2. CASE c = k
    BY <1>3, <2>2 DEF Chosen, Secure, HeldBy, Inherited, Uncontradicted, Begins
  <2>. QED BY <1>2, <2>1, <2>2
<1>6. c <= Len(log'[s]) /\ \A i \in 1 .. commitIndex[s] : log'[s][i] = log[s][i]
  BY <1>2, <1>3, <1>4, <1>5
<1>7. /\ commitIndex'[s] = c /\ lastApplied'[s] = c /\ Len(applied'[s]) = c
      /\ \A i \in 1 .. c : applied'[s][i] = log'[s][i].command
      /\ \A t \in Server \ {s} : /\ commitIndex'[t] = commitIndex[t]
                                 /\ lastApplied'[t] = lastApplied[t]
                                 /\ applied'[t] = applied[t]
  BY <1>1, <1>4, <1>6, AppliesTo
<1>8. CommitOf(s)'
  <2>1. ASSUME c > 0
        PROVE  Chosen(SubSeq(log[s], 1, commitIndex[s]))'
    <3>1. Chosen(SubSeq(log[s], 1, c))' /\ commitIndex'[s] = c
      BY <1>5, <1>7, <2>1
    <3>. QED BY <3>1 DEF Chosen, Secure, HeldBy, Inherited, Uncontradicted, Begins
  <2>. QED BY <1>5, <1>7, <2>1 DEF CommitOf
<1>9. \A t \in Server : CommitOf(t)'
  BY <1>1, <1>7, <1>8, CommitStays
<1>10. \A m \in Appends : CommitIn(m)'
  BY <1>1, CallStays
<1>11. Commits'
  BY <1>9, <1>10 DEF Commits, CommitOf, CommitIn
<1>12. \A t \in Server : commitIndex'[t] >= commitIndex[t]
  <2>1. \A t \in Server : commitIndex[t] \in Nat
    BY <1>1 DEF TypeOK
  <2>. QED BY <1>7, <2>1
<1>13. CommitsGrow
  BY <1>12 DEF CommitsGrow
<1>. QED BY <1>11, <1>13, CommitsAreThen

(* An entry of a leader's own term that a majority acknowledged.           *)
LEMMA MajorityChosen ==
    ASSUME TypeOK, HonestCount, OwnEntriesSecure,
           NEW s \in Server, state[s] = "leader", NEW n \in Nat, n > 0, n <= Len(log[s]),
           log[s][n].term = currentTerm[s],
           Majority(Cardinality({s} \cup {d \in Server \ {s} : matchIndex[s][d] >= n}))
    PROVE  Chosen(SubSeq(log[s], 1, n))
<1>1. log[s] \in Seq(Entry) /\ \A t \in Server : currentTerm[t] \in Nat
  BY DEF TypeOK
<1>2. PICK L : L = SubSeq(log[s], 1, n)
  OBVIOUS
<1>3. L \in Seq(Entry) /\ L # << >> /\ Len(L) = n /\ Begins(log[s], L) /\ L[Len(L)] = log[s][n]
  <2>1. UpTo(L, log[s], n)
    BY <1>1, <1>2, PrefixUpTo
  <2>. QED BY <2>1 DEF UpTo
<1>4. Blocked(s, n) \/ Secure(Ackers(s, n), L)
  <2>1. n \in 1 .. Len(log[s])
    BY <1>1
  <2>. QED BY <1>2, <2>1 DEF OwnEntriesSecure
<1>5. PICK Q \in SUBSET Server : Q = {s} \cup {d \in Server \ {s} : matchIndex[s][d] >= n}
  OBVIOUS
<1>6. \A x \in Q : x = s \/ x \in Ackers(s, n)
  <2>. SUFFICES ASSUME NEW x \in Server \ {s}, matchIndex[s][x] >= n
                PROVE  x \in Ackers(s, n)
    BY <1>5
  <2>1. matchIndex[s][x] \in Acks(s, x) /\ n <= matchIndex[s][x]
    BY AcksTyped
  <2>. QED BY <2>1 DEF Ackers, Acked
<1>7. ~Blocked(s, n)
  <2>. SUFFICES ASSUME Blocked(s, n) PROVE FALSE
    OBVIOUS
  <2>1. PICK P \in SUBSET Server :
           /\ Majority(Cardinality(P))
           /\ \A x \in P : currentTerm[x] > currentTerm[s] /\ ~Acked(s, x, n)
    BY DEF Blocked
  <2>2. PICK x \in Server : x \in P /\ x \in Q
    BY <1>5, <2>1, MajoritiesMeet
  <2>. QED BY <1>1, <1>6, <2>1, <2>2 DEF Ackers
<1>8. HeldBy(s, L)
  <2>. SUFFICES ASSUME NEW c \in Server, Contends(c), currentTerm[c] > currentTerm[s], Voted(s, c)
                PROVE  FALSE
    BY <1>3 DEF HeldBy
  <2>1. currentTerm[s] >= currentTerm[c]
    BY VotedTerm
  <2>. QED BY <1>1, <2>1
<1>9. Secure(Q, L)
  BY <1>4, <1>6, <1>7, <1>8 DEF Secure
<1>. QED BY <1>2, <1>5, <1>9 DEF Chosen

(* The same after a step.                                                  *)
Acknowledged(s, n) ==
    /\ state[s] = "leader" /\ n <= Len(log[s]) /\ log[s][n].term = currentTerm[s]
    /\ Majority(Cardinality({s} \cup {d \in Server \ {s} : matchIndex[s][d] >= n}))

AcknowledgedChosen ==
    \A s \in Server : \A n \in Nat : n > 0 /\ Acknowledged(s, n) => Chosen(SubSeq(log[s], 1, n))

LEMMA MajoritiesChosen == TypeOK /\ HonestCount /\ OwnEntriesSecure => AcknowledgedChosen
BY MajorityChosen DEF Acknowledged, AcknowledgedChosen

LEMMA MajoritiesChosenThen == TypeOK' /\ HonestCount' /\ OwnEntriesSecure' => AcknowledgedChosen'
BY MajoritiesChosen, PTL

(* A leader hears of what its peers have.                                  *)
LEMMA HandleAppendReplyKeeps ==
    ASSUME Inv, StorageInv', HonestCount', NEW m \in messages, HandleAppendReply(m)
    PROVE  /\ Step /\ Agreement' /\ ChosenKept /\ CommitsChosen' /\ CommitsExecuted'
           /\ CommitsGrow /\ LeadersAppend /\ EntriesOld
<1>. DEFINE s == m.to
<1>1. Step /\ Quiet /\ Requested /\ Replied /\ NextKnown
  BY HandleAppendReplyQuiet
<1>2. Agreement' /\ ChosenKept /\ Appends' = Appends /\ EntriesOld /\ LeadersAppend
  BY <1>1, QuietAgrees, QuietPieces, QuietEntries DEF Quiet
<1>3. CASE UNCHANGED applyVars
  BY <1>1, <1>2, <1>3, CommitsOn DEF CommitsKept, applyVars
<1>4. CASE /\ ApplyUpTo(s, log[s], LeaderCommit(s, matchIndex'[s]))
           /\ UNCHANGED electionVars
  <2>1. /\ TypeOK /\ TypeOK' /\ HonestCount' /\ LogInv
        /\ state[s] = "leader" /\ state'[s] = "leader" /\ currentTerm' = currentTerm /\ log' = log
    <3>1. state[s] = "leader" /\ UNCHANGED log
      BY DEF HandleAppendReply
    <3>. QED BY <1>1, <1>4, <3>1, StepTypes DEF electionVars
  <2>2. s \in Server
    <3>1. m \in AppendReply
      BY <2>1, MessageTypes DEF HandleAppendReply, TypeOK
    <3>. QED BY <3>1 DEF AppendReply
  <2>. HIDE DEF s
  <2>3. matchIndex'[s] \in [Server -> Nat]
    BY <2>1, <2>2 DEF TypeOK
  <2>4. lastIncludedIndex[s] = 0 /\ lastIncludedTerm[s] = 0 /\ commitIndex[s] \in Nat
        /\ Len(log[s]) \in Nat
    BY <1>1, <2>1, <2>2, StepTypes DEF TypeOK
  <2>5. PICK match \in [Server -> Nat] : match = matchIndex'[s]
    BY <2>3
  <2>6. PICK c : c = LeaderCommit(s, match)
    OBVIOUS
  <2>7. \/ c = commitIndex[s]
        \/ /\ c \in Nat /\ c > commitIndex[s] /\ c <= Len(log[s])
           /\ Majority(Cardinality({s} \cup {d \in Server \ {s} : match[d] >= c}))
           /\ log[s][c].term = currentTerm[s]
    BY <2>1, <2>2, <2>4, <2>6, LeaderCommitIs
  <2>8. c \in Nat /\ c >= commitIndex[s]
    BY <2>4, <2>7
  <2>9. ASSUME c > commitIndex[s]
        PROVE  c <= Len(log'[s]) /\ Chosen(SubSeq(log[s], 1, c))'
    <3>1. Acknowledged(s, c)' /\ c > 0 /\ c <= Len(log'[s])
      BY <2>1, <2>4, <2>5, <2>7, <2>8, <2>9 DEF Acknowledged
    <3>2. AcknowledgedChosen'
      BY <1>2, <2>1, MajoritiesChosenThen DEF Agreement
    <3>3. Chosen(SubSeq(log[s], 1, c))'
      BY <2>2, <2>8, <3>1, <3>2 DEF AcknowledgedChosen
    <3>. QED BY <3>1, <3>3
  <2>10. ApplyUpTo(s, log'[s], c)
    BY <1>4, <2>1, <2>5, <2>6
  <2>. QED BY <1>1, <1>2, <2>2, <2>8, <2>9, <2>10, CommitMoves
<1>. QED BY <1>3, <1>4 DEF HandleAppendReply

(* A follower accepts no entry that is not there already.                  *)
LEMMA AcceptsEntries ==
    ASSUME Step, NEW m, Accepts(m)
    PROVE  EntriesOld /\ LeadersAppend
<1>. DEFINE x == m.to
            W == Whole(log[x])
            V == Whole(log'[x])
            P == Sent(m)
<1>1. /\ W \in Piece /\ V \in Piece /\ P \in Piece /\ W \in Pieces /\ P \in Pieces
      /\ log[x] \in Seq(Entry) /\ log'[x] \in Seq(Entry)
      /\ \A R \in Pieces' : R = V \/ R \in Pieces
  BY AcceptsPieces
<1>2. Spliced(log'[x], log[x], P) /\ P.base \in Nat /\ End(P) \in Nat
  BY <1>1, PieceType DEF Accepts
<1>3. /\ Span(W) = 0 .. Len(log[x]) /\ Len(log[x]) \in Nat /\ W.base = 0
      /\ Span(V) = 0 .. Len(log'[x]) /\ Len(log'[x]) \in Nat /\ V.base = 0
      /\ \A i \in 1 .. Len(log[x]) : EntryIn(W, i) = log[x][i]
      /\ \A i \in 1 .. Len(log'[x]) : EntryIn(V, i) = log'[x][i]
  BY <1>1, WholePiece
<1>. HIDE DEF V, W, P
<1>4. ASSUME NEW i \in 1 .. Len(log'[x])
      PROVE  \E S \in Pieces : i \in Span(S) /\ i > S.base /\ EntryIn(S, i) = log'[x][i]
  <2>1. CASE log'[x] = log[x]
    BY <1>1, <1>3, <2>1
  <2>2. CASE log'[x] # log[x] /\ i <= P.base
    <3>1. P.base <= Len(log[x]) /\ \A j \in 1 .. P.base : log'[x][j] = log[x][j]
      BY <1>2, <2>2 DEF Spliced
    <3>2. i \in 1 .. P.base /\ i \in 1 .. Len(log[x])
      BY <1>2, <1>3, <2>2, <3>1
    <3>3. i \in Span(W) /\ i > W.base
      BY <1>3, <3>2
    <3>. QED BY <1>1, <1>3, <3>1, <3>2, <3>3
  <2>3. CASE log'[x] # log[x] /\ ~(i <= P.base)
    <3>1. Len(log'[x]) = End(P) /\ \A j \in P.base + 1 .. End(P) : log'[x][j] = EntryIn(P, j)
      BY <1>2, <2>3 DEF Spliced
    <3>2. i \in P.base + 1 .. End(P) /\ i > P.base
      BY <1>2, <2>3, <3>1
    <3>3. i \in Span(P)
      BY <1>2, <3>2 DEF Span
    <3>. QED BY <1>1, <3>1, <3>2, <3>3
  <2>. QED BY <2>1, <2>2, <2>3
<1>5. ASSUME NEW R \in Pieces', NEW i \in Span(R), i > R.base
      PROVE  \E S \in Pieces : i \in Span(S) /\ i > S.base /\ EntryIn(S, i) = EntryIn(R, i)
  <2>1. CASE R = V
    <3>1. i \in 1 .. Len(log'[x]) /\ EntryIn(R, i) = log'[x][i]
      BY <1>3, <1>5, <2>1
    <3>. QED BY <1>4, <3>1
  <2>2. CASE R \in Pieces
    BY <1>5, <2>2
  <2>. QED BY <1>1, <2>1, <2>2
<1>6. LeadersAppend
  BY DEF LeadersAppend, Accepts
<1>. QED BY <1>5, <1>6 DEF EntriesOld

(* A follower has what the leader tells it is committed.                   *)
Tells(m, c) == m.leaderCommit = c /\ c > 0

LEMMA ToldChosen ==
    ASSUME Step, Agreement', ChosenKept, NEW m, Accepts(m), NEW c \in Nat, Tells(m, c)
    PROVE  /\ c <= End(Sent(m)) /\ c <= Len(log'[m.to])
           /\ Chosen(SubSeq(log[m.to], 1, c))'
<1>. DEFINE x == m.to
            V == Whole(log'[x])
            P == Sent(m)
<1>0. c > 0
  BY DEF Tells
<1>1. Commits /\ TypeOK /\ TypeOK' /\ LogInv
  BY StepTypes, CommitsAre DEF LogInv
<1>2. /\ V \in Piece /\ P \in Piece /\ V \in Pieces' /\ Pieces' \subseteq Piece
      /\ log[x] \in Seq(Entry) /\ log'[x] \in Seq(Entry) /\ x \in Server
      /\ Spliced(log'[x], log[x], P)
  <2>1. V \in Piece /\ P \in Piece /\ x \in Server /\ log[x] \in Seq(Entry) /\ log'[x] \in Seq(Entry)
    BY AcceptsPieces DEF Accepts
  <2>2. V \in Pieces'
    BY <2>1 DEF Pieces, Whole
  <2>3. \A R \in Pieces' : R = V \/ R \in Pieces
    BY AcceptsPieces
  <2>4. Pieces \subseteq Piece
    BY <1>1, PiecesTyped
  <2>. QED BY <2>1, <2>2, <2>3, <2>4 DEF Accepts
<1>3. PICK n \in Appends : Sent(n) = P /\ n.leaderCommit = c
  BY DEF Accepts, Tells
<1>4. c <= End(P)
  BY <1>0, <1>1, <1>3 DEF Commits, CommitIn
<1>5. PICK y \in Server : /\ c <= Len(log[y])
                          /\ Chosen(SubSeq(log[y], 1, c))
                          /\ Has(P, c, log[y][c].term)
  BY <1>0, <1>1, <1>3 DEF Commits, CommitIn
<1>6. log[y] \in Seq(Entry) /\ log'[y] \in Seq(Entry)
  BY StepTypes
<1>7. PICK L : L = SubSeq(log[y], 1, c)
  OBVIOUS
<1>8. L \in Seq(Entry) /\ L # << >> /\ Len(L) = c /\ Begins(log[y], L) /\ L[c] = log[y][c]
  <2>1. c \in Nat /\ c > 0 /\ c <= Len(log[y])
    BY <1>0, <1>5
  <2>2. UpTo(L, log[y], c)
    BY <1>6, <1>7, <2>1, PrefixUpTo
  <2>. QED BY <2>2 DEF UpTo
<1>9. Chosen(L)' /\ Begins(log'[y], L)
  BY <1>5, <1>7, <1>8 DEF ChosenKept
<1>10. PICK T : T = L[c].term
  OBVIOUS
<1>11. /\ T \in Nat /\ c <= Len(log'[y]) /\ TermIn(Whole(log'[y]), c) = T
  BY <1>6, <1>8, <1>9, <1>10, BeginsWith
<1>12. Beyond(V, c, T) => Has(V, c, T)
  BY <1>2, <1>8, <1>9, <1>10 DEF Chosen, Secure, Inherited, Has, Beyond, LastTerm, End, TermIn, EntryIn
<1>. HIDE DEF V, P, x
<1>13. /\ P.base \in Nat /\ P.base <= Len(log'[x])
       /\ End(P) \in Nat /\ End(P) <= Len(log'[x])
       /\ \A j \in Span(P) : Same(V, P, j)
  BY <1>2, SplicedSame DEF V
<1>14. End(V) = Len(log'[x]) /\ Span(V) = 0 .. Len(log'[x]) /\ Len(log'[x]) \in Nat
  BY <1>2, WholePiece DEF V
<1>15. c <= Len(log'[x])
  BY <1>4, <1>13, <1>14
<1>16. TermIn(V, c) = T
  <2>1. CASE c >= P.base
    <3>1. c \in Span(P)
      BY <1>4, <1>13, <2>1 DEF Span
    <3>2. TermIn(P, c) = T
      BY <1>5, <1>8, <1>10, <2>1 DEF Has
    <3>. QED BY <1>13, <3>1, <3>2 DEF Same
  <2>2. CASE c < P.base
    <3>1. P.baseTerm >= T /\ P.baseTerm \in Nat /\ TermIn(P, P.base) = P.baseTerm /\ P.base \in Span(P)
      BY <1>2, <1>5, <1>8, <1>10, <1>13, <2>2, PieceType DEF Has
    <3>2. TermIn(V, P.base) = P.baseTerm /\ P.base \in Span(V)
      BY <1>13, <1>14, <3>1 DEF Same
    <3>3. WellFormed(V)
      BY <1>2 DEF Agreement, TermsBounded, WellFormed, Span, TermIn, End, EntryIn
    <3>4. Beyond(V, P.base, P.baseTerm)
      BY <1>2, <3>2, <3>3, TermsGrowIn
    <3>5. Beyond(V, c, T)
      BY <1>2, <1>11, <1>13, <2>2, <3>1, <3>4, BeyondTransitive
    <3>6. Has(V, c, T)
      BY <1>12, <3>5
    <3>. QED BY <1>2, <3>6, HasWhole DEF V
  <2>. QED BY <1>13, <2>1, <2>2
<1>17. \A i \in 1 .. c : log'[x][i] = log'[y][i]
  <2>1. Whole(log'[y]) \in Pieces'
    BY DEF Pieces, Whole
  <2>2. Matching(Whole(log'[x]), Whole(log'[y]))
    BY <1>2, <2>1 DEF V, Agreement, PiecesMatch, Matching, Span, TermIn, End, EntryIn
  <2>. QED BY <1>2, <1>6, <1>11, <1>15, <1>16, <2>2, MatchingLogs DEF V
<1>18. Begins(log'[x], L)
  BY <1>8, <1>9, <1>15, <1>17 DEF Begins
<1>19. SubSeq(log'[x], 1, c) = L
  BY <1>2, <1>8, <1>18, PrefixIs
<1>20. Chosen(SubSeq(log[x], 1, c))'
  BY <1>9, <1>19 DEF Chosen, Secure, HeldBy, Inherited, Uncontradicted, Begins
<1>. QED BY <1>0, <1>4, <1>15, <1>20 DEF P, x

LEMMA AppendEntriesKeeps ==
    ASSUME NoLogFault, Inv, StorageInv', HonestCount', NEW m \in messages, AppendEntries(m)
    PROVE  /\ Step /\ Agreement' /\ ChosenKept /\ CommitsChosen' /\ CommitsExecuted'
           /\ CommitsGrow /\ LeadersAppend /\ EntriesOld
<1>1. CASE ~(m.term >= currentTerm[m.to] /\ Consistent(m.to, m))
  <2>1. Step /\ Quiet /\ Requested /\ Replied /\ NextKnown /\ CommitsKept
    BY <1>1, RefusedQuiet
  <2>2. Agreement' /\ ChosenKept /\ Appends' = Appends /\ EntriesOld /\ LeadersAppend
    BY <2>1, QuietAgrees, QuietPieces, QuietEntries DEF Quiet
  <2>. QED BY <2>1, <2>2, CommitsOn
<1>2. CASE m.term >= currentTerm[m.to] /\ Consistent(m.to, m)
  <2>1. Step /\ Agreement' /\ ChosenKept
    BY <1>2, AcceptAgrees
  <2>2. Accepts(m) /\ ApplyUpTo(m.to, log'[m.to], NewCommit(m.to, m)) /\ Appends' = Appends
        /\ m.to \in Server
    BY <1>2, AcceptAccepts DEF Accepts
  <2>7. EntriesOld /\ LeadersAppend
    BY <2>1, <2>2, AcceptsEntries
  <2>3. TypeOK /\ commitIndex[m.to] \in Nat /\ m \in AppendRequest
    <3>1. TypeOK /\ m.type = "AppendEntries"
      BY <2>1, StepTypes DEF AppendEntries
    <3>2. m \in AppendRequest
      BY <3>1, CallSeen
    <3>. QED BY <2>2, <3>1, <3>2 DEF TypeOK
  <2>4. m.leaderCommit \in Nat /\ End(Sent(m)) = m.preLogIndex + Len(m.entries)
        /\ End(Sent(m)) \in Nat
    BY <2>3, SentPiece, PieceType DEF AppendRequest
  <2>5. CASE m.leaderCommit > commitIndex[m.to]
    <3>1. PICK c \in Nat : c = m.leaderCommit
      BY <2>4
    <3>2. c > 0 /\ c >= commitIndex[m.to]
      BY <2>3, <2>5, <3>1
    <3>3. /\ c <= End(Sent(m)) /\ c <= Len(log'[m.to])
          /\ Chosen(SubSeq(log[m.to], 1, c))'
      BY <2>1, <2>2, <3>1, <3>2, ToldChosen DEF Tells
    <3>4. NewCommit(m.to, m) = c
      BY <2>4, <2>5, <3>1, <3>3 DEF NewCommit, Least
    <3>. QED BY <2>1, <2>2, <2>7, <3>2, <3>3, <3>4, CommitMoves
  <2>6. CASE ~(m.leaderCommit > commitIndex[m.to])
    <3>1. PICK c \in Nat : c = commitIndex[m.to]
      BY <2>3
    <3>2. NewCommit(m.to, m) = c
      BY <2>6, <3>1 DEF NewCommit
    <3>. QED BY <2>1, <2>2, <2>7, <3>1, <3>2, CommitMoves
  <2>. QED BY <2>5, <2>6
<1>. QED BY <1>1, <1>2

-----------------------------------------------------------------------------
(* All steps.                                                              *)

(* What every step keeps.                                                  *)
Follows ==
    /\ Step /\ Agreement' /\ ChosenKept /\ CommitsChosen' /\ CommitsExecuted'
    /\ CommitsGrow /\ LeadersAppend

LEMMA QuietFollows ==
    ASSUME Step, Quiet, Requested, Replied, NextKnown, CommitsKept
    PROVE  Follows /\ EntriesOld
<1>1. Agreement' /\ ChosenKept
  BY QuietAgrees
<1>2. EntriesOld /\ LeadersAppend
  BY QuietPieces, QuietEntries DEF Quiet
<1>3. CommitsChosen' /\ CommitsExecuted' /\ CommitsGrow
  BY <1>1, CommitsOn DEF Quiet
<1>. QED BY <1>1, <1>2, <1>3 DEF Follows

LEMMA BecomeLeaderFollows ==
    ASSUME Inv, StorageInv', HonestCount', NEW s \in Server, BecomeLeader(s)
    PROVE  Follows /\ EntriesOld
<1>1. Step /\ Agreement' /\ ChosenKept /\ CommitsKept
  BY BecomeLeaderAgrees
<1>2. Pieces' = Pieces /\ Appends' = Appends /\ log' = log
  BY BecomeLeaderElects DEF Elects
<1>3. EntriesOld /\ LeadersAppend
  BY <1>2, QuietEntries
<1>4. CommitsChosen' /\ CommitsExecuted' /\ CommitsGrow
  BY <1>1, <1>2, CommitsOn
<1>. QED BY <1>1, <1>3, <1>4 DEF Follows

LEMMA StartFollows ==
    ASSUME Inv, StorageInv', HonestCount', NEW s \in Server, NEW c \in Command, Start(s, c)
    PROVE  Follows
<1>1. Step /\ Agreement' /\ ChosenKept /\ CommitsKept
  BY StartAgrees
<1>2. Extends(s)
  BY StartExtends
<1>3. Appends' = Appends
  BY <1>2 DEF Extends
<1>4. LeadersAppend
  BY <1>1, <1>2, ExtendsKeeps DEF LeadersAppend
<1>5. CommitsChosen' /\ CommitsExecuted' /\ CommitsGrow
  BY <1>1, <1>3, CommitsOn
<1>. QED BY <1>1, <1>4, <1>5 DEF Follows

LEMMA BroadcastFollows ==
    ASSUME Inv, StorageInv', HonestCount', NEW l \in Server, BroadcastAppendEntries(l)
    PROVE  Follows /\ EntriesOld
<1>. DEFINE W == Whole(log[l])
<1>1. Step /\ Agreement' /\ ChosenKept /\ CommitsKept /\ Sends(l)
  BY BroadcastAgrees
<1>2. CommitsChosen' /\ CommitsExecuted' /\ CommitsGrow
  BY <1>1, SendsCommits
<1>3. LeadersAppend
  BY <1>1, StepTypes DEF LeadersAppend, Sends
<1>4. /\ W \in Piece /\ W \in Pieces /\ Pieces \subseteq Piece
      /\ \A R \in Pieces' : R \in Pieces \/ (R \in Piece /\ Part(R, W) /\ End(R) = End(W))
  BY <1>1, SendsPieces
<1>. HIDE DEF W
<1>5. ASSUME NEW R \in Pieces', NEW i \in Span(R), i > R.base
      PROVE  \E S \in Pieces : i \in Span(S) /\ i > S.base /\ EntryIn(S, i) = EntryIn(R, i)
  <2>1. CASE R \in Pieces
    BY <1>5, <2>1
  <2>2. CASE R \in Piece /\ Part(R, W)
    <3>1. /\ W.base <= R.base /\ i \in Span(W) /\ Same(R, W, i)
          /\ R.base \in Nat /\ W.base \in Nat /\ i \in Nat
      BY <1>4, <2>2, PieceType DEF Part
    <3>2. i > W.base
      BY <1>5, <3>1
    <3>. QED BY <1>4, <1>5, <3>1, <3>2 DEF Same
  <2>. QED BY <1>4, <2>1, <2>2
<1>6. EntriesOld
  BY <1>5 DEF EntriesOld
<1>. QED BY <1>1, <1>2, <1>3, <1>6 DEF Follows

LEMMA InstantFollows ==
    ASSUME NoLogFault, Inv, StorageInv', HonestCount', NEW s \in Server,
           StartElection(s) \/ BecomeLeader(s) \/ BroadcastAppendEntries(s) \/ Crash(s)
    PROVE  Follows /\ EntriesOld
<1>1. CASE StartElection(s)
  <2>1. CommitsKept
    BY <1>1 DEF StartElection, applyVars, CommitsKept
  <2>. QED BY <1>1, <2>1, StartElectionQuiet, QuietFollows
<1>2. CASE Crash(s)
  BY <1>2, CrashQuiet, QuietFollows
<1>. QED BY <1>1, <1>2, BecomeLeaderFollows, BroadcastFollows

LEMMA HandlerFollows ==
    ASSUME NoLogFault, Inv, StorageInv', HonestCount', NEW m \in messages,
           \/ HandleRequestVote(m) \/ HandleVoteReply(m) \/ AppendEntries(m)
           \/ HandleAppendReply(m) \/ HandleInstallSnapshot(m) \/ HandleInstallReply(m)
    PROVE  Follows /\ EntriesOld
<1>1. CASE HandleRequestVote(m)
  <2>1. CommitsKept
    BY <1>1 DEF HandleRequestVote, applyVars, CommitsKept
  <2>. QED BY <1>1, <2>1, HandleRequestVoteQuiet, QuietFollows
<1>2. CASE HandleVoteReply(m)
  <2>1. CommitsKept
    BY <1>2 DEF HandleVoteReply, applyVars, CommitsKept
  <2>. QED BY <1>2, <2>1, HandleVoteReplyQuiet, QuietFollows
<1>3. CASE AppendEntries(m)
  BY <1>3, AppendEntriesKeeps DEF Follows
<1>4. CASE HandleAppendReply(m)
  BY <1>4, HandleAppendReplyKeeps DEF Follows
<1>5. CASE HandleInstallSnapshot(m)
  BY <1>5, HandleInstallSnapshotQuiet, QuietFollows
<1>6. CASE HandleInstallReply(m)
  BY <1>6, HandleInstallReplyQuiet, QuietFollows
<1>. QED BY <1>1, <1>2, <1>3, <1>4, <1>5, <1>6

LEMMA LogFaultless ==
    ASSUME NoLogFault
    PROVE  NoElectionFault /\ NoCompaction
BY DEF NoLogFault, NoElectionFault, NoCompaction

(* Everything but start() works with the entries that are there.           *)
LEMMA NextFollows ==
    ASSUME NoLogFault, Inv, [Next]_vars
    PROVE  Follows /\ (EntriesOld \/ \E s \in Server : \E c \in Command : Start(s, c))
<1>1. StorageInv' /\ HonestCount'
  BY LogFaultless, NextStorage, NextElection DEF Inv, StorageInv
<1>2. CASE UNCHANGED vars
  BY <1>1, <1>2, StutterQuiet, QuietFollows
<1>3. ASSUME NEW s \in Server
      PROVE  ~TakeSnapshot(s) /\ ~ResumeAppendEntries(s)
  <2>1. Idle(s)
    BY <1>3 DEF Inv, LogInv, NothingHalfDone
  <2>. QED BY <2>1 DEF NoLogFault, TakeSnapshot, ResumeAppendEntries
<1>4. ASSUME NEW m \in messages
      PROVE  ~CrashInInstallSnapshot(m)
  BY <1>4, NothingToInstall DEF CrashInInstallSnapshot, Inv
<1>. QED BY <1>1, <1>2, <1>3, <1>4, StartFollows, InstantFollows, HandlerFollows DEF Next

LEMMA FollowsThen == Follows => LogInv'
BY DEF Follows, Agreement, LogInv

LEMMA NextInv ==
    ASSUME NoLogFault, Inv, [Next]_vars
    PROVE  Inv'
<1>1. Follows
  BY NextFollows
<1>2. StorageInv' /\ HonestCount' /\ LogInv'
  BY <1>1, FollowsThen DEF Follows, Step
<1>. QED BY <1>2 DEF Inv

(* At first there is nothing but empty logs.                               *)
LEMMA InitInv ==
    ASSUME Init
    PROVE  Inv
<1>1. StorageInv /\ HonestCount
  BY InitStorage, InitElection
<1>2. /\ Appends = {} /\ messages = {}
      /\ \A s \in Server : /\ log[s] = << >> /\ state[s] = "follower" /\ currentTerm[s] = 0
                           /\ commitIndex[s] = 0 /\ lastApplied[s] = 0 /\ applied[s] = << >>
                           /\ Idle(s)
  BY DEF Init, Appends, Idle
<1>3. /\ \A R \in Pieces : R = Whole(<< >>)
      /\ Whole(<< >>) \in Piece /\ Span(Whole(<< >>)) = {0} /\ TermIn(Whole(<< >>), 0) = 0
      /\ LastTerm(Whole(<< >>)) = 0
  <2>1. << >> \in Seq(Entry) /\ Len(<< >>) = 0
    OBVIOUS
  <2>2. /\ Whole(<< >>) \in Piece /\ Span(Whole(<< >>)) = 0 .. 0 /\ TermIn(Whole(<< >>), 0) = 0
        /\ End(Whole(<< >>)) = 0
    BY <2>1, WholePiece
  <2>3. 0 .. 0 = {0}
    OBVIOUS
  <2>. QED BY <1>2, <2>2, <2>3 DEF Pieces, LastTerm
<1>4. NothingHalfDone
  BY <1>2 DEF NothingHalfDone
<1>5. TermsBounded
  <2>1. WellFormed(Whole(<< >>))
    BY <1>3 DEF WellFormed
  <2>2. \A s \in Server : LastTerm(Whole(log[s])) <= currentTerm[s]
    BY <1>2, <1>3
  <2>. QED BY <1>2, <1>3, <2>1, <2>2 DEF TermsBounded, Running
<1>6. TermsLed
  BY <1>2, <1>3 DEF TermsLed
<1>7. PiecesMatch
  BY <1>3, MatchingReflexive DEF PiecesMatch
<1>8. LeaderOwns /\ AcksTrue /\ RequestsTrue /\ RefusalsTrue /\ OwnEntriesSecure
  BY <1>2 DEF LeaderOwns, AcksTrue, RequestsTrue, RefusalsTrue, OwnEntriesSecure
<1>9. CommitsChosen
  BY <1>2 DEF CommitsChosen
<1>10. CommitsExecuted
  BY <1>2 DEF CommitsExecuted
<1>. QED BY <1>1, <1>4, <1>5, <1>6, <1>7, <1>8, <1>9, <1>10 DEF Inv, LogInv

-----------------------------------------------------------------------------
(* What the invariant says of the state.                                   *)

LEMMA WholeLogs ==
    ASSUME Inv, NEW s \in Server
    PROVE  /\ Indexes(s) = 1 .. Len(log[s]) /\ LastLogIndex(s) = Len(log[s])
           /\ \A i \in Indexes(s) : EntryAt(s, i) = log[s][i]
           /\ log[s] \in Seq(Entry) /\ Len(log[s]) \in Nat
           /\ Whole(log[s]) \in Piece /\ Whole(log[s]) \in Pieces
           /\ commitIndex[s] \in Nat /\ currentTerm[s] \in Nat
           /\ lastIncludedIndex[s] = 0
<1>1. TypeOK /\ lastIncludedIndex[s] = 0 /\ lastIncludedTerm[s] = 0
  BY InvTypes
<1>2. log[s] \in Seq(Entry) /\ Whole(log[s]) \in Pieces /\ Pieces \subseteq Piece
      /\ currentTerm[s] \in Nat
  BY <1>1, PiecesTyped
<1>3. LastLogIndex(s) = Len(log[s]) /\ Len(log[s]) \in Nat
  BY <1>1, LogAsPiece
<1>4. commitIndex[s] \in Nat
  BY <1>1 DEF TypeOK
<1>. QED BY <1>1, <1>2, <1>3, <1>4 DEF Indexes, EntryAt

LEMMA LogsMatch == Inv => LogMatching
<1>. SUFFICES ASSUME Inv, NEW s \in Server, NEW t \in Server,
                     NEW i \in Indexes(s) \cap Indexes(t), EntryAt(s, i).term = EntryAt(t, i).term,
                     NEW j \in Indexes(s) \cap Indexes(t), j <= i
              PROVE  EntryAt(s, j) = EntryAt(t, j)
  BY DEF LogMatching
<1>1. /\ i \in Nat /\ i <= Len(log[s]) /\ i <= Len(log[t]) /\ i > 0 /\ j \in 1 .. i
      /\ log[s] \in Seq(Entry) /\ log[t] \in Seq(Entry)
      /\ log[s][i].term = log[t][i].term
      /\ EntryAt(s, j) = log[s][j] /\ EntryAt(t, j) = log[t][j]
      /\ Whole(log[s]) \in Pieces /\ Whole(log[t]) \in Pieces
  BY WholeLogs
<1>2. Matching(Whole(log[s]), Whole(log[t]))
  BY <1>1 DEF Inv, LogInv, PiecesMatch
<1>3. TermIn(Whole(log[s]), i) = TermIn(Whole(log[t]), i)
  BY <1>1, WholePiece
<1>4. \A k \in 1 .. i : log[s][k] = log[t][k]
  BY <1>1, <1>2, <1>3, MatchingLogs
<1>. QED BY <1>1, <1>4

(* Some majority holds what a server takes for committed.                  *)
LEMMA CommittedHeld ==
    ASSUME Inv, NEW s \in Server, commitIndex[s] > 0
    PROVE  \E Q \in SUBSET Server :
              /\ Majority(Cardinality(Q))
              /\ \A x \in Q : /\ commitIndex[s] <= Len(log[x])
                              /\ \A i \in 1 .. commitIndex[s] : log[x][i] = log[s][i]
<1>1. PICK n \in Nat : n = commitIndex[s]
  BY WholeLogs
<1>2. n > 0 /\ n <= Len(log[s]) /\ Chosen(SubSeq(log[s], 1, n)) /\ log[s] \in Seq(Entry)
  BY <1>1, WholeLogs DEF Inv, LogInv, CommitsChosen
<1>3. /\ Len(SubSeq(log[s], 1, n)) = n
      /\ \A i \in 1 .. n : SubSeq(log[s], 1, n)[i] = log[s][i]
  BY <1>2, Prefix
<1>4. PICK Q \in SUBSET Server :
              Majority(Cardinality(Q)) /\ \A x \in Q : Begins(log[x], SubSeq(log[s], 1, n))
  BY <1>2 DEF Chosen, Secure, HeldBy
<1>. QED BY <1>1, <1>3, <1>4 DEF Begins

LEMMA StateMachinesSafe == Inv => StateMachineSafety
<1>. SUFFICES ASSUME Inv, NEW s \in Server, NEW t \in Server,
                     NEW i \in DOMAIN applied[s] \cap DOMAIN applied[t]
              PROVE  applied[s][i] = applied[t][i]
  BY DEF StateMachineSafety
<1>1. \A u \in Server : /\ DOMAIN applied[u] = 1 .. commitIndex[u] /\ commitIndex[u] \in Nat
                        /\ \A k \in 1 .. commitIndex[u] : applied[u][k] = log[u][k].command
  <2>1. TypeOK /\ CommitsExecuted
    BY InvTypes DEF LogInv
  <2>. QED BY <2>1 DEF TypeOK, CommitsExecuted
<1>2. /\ commitIndex[s] > 0 /\ i \in 1 .. commitIndex[s]
      /\ commitIndex[t] > 0 /\ i \in 1 .. commitIndex[t]
  BY <1>1
<1>3. PICK P \in SUBSET Server :
              /\ Majority(Cardinality(P))
              /\ \A x \in P : \A k \in 1 .. commitIndex[s] : log[x][k] = log[s][k]
  BY <1>2, CommittedHeld
<1>4. PICK Q \in SUBSET Server :
              /\ Majority(Cardinality(Q))
              /\ \A x \in Q : \A k \in 1 .. commitIndex[t] : log[x][k] = log[t][k]
  BY <1>2, CommittedHeld
<1>5. PICK x \in Server : x \in P /\ x \in Q
  BY <1>3, <1>4, MajoritiesMeet
<1>6. log[s][i] = log[t][i]
  BY <1>2, <1>3, <1>4, <1>5
<1>. QED BY <1>1, <1>2, <1>6

LEMMA LeadersComplete == Inv => LeaderCompleteness
<1>. SUFFICES ASSUME Inv, NEW s \in Server, NEW t \in Server, state[s] = "leader",
                     currentTerm[s] >= currentTerm[t]
              PROVE  /\ commitIndex[t] <= LastLogIndex(s)
                     /\ \A i \in Indexes(s) \cap Indexes(t) :
                           i <= commitIndex[t] => EntryAt(s, i) = EntryAt(t, i)
  BY DEF LeaderCompleteness
<1>1. /\ LastLogIndex(s) = Len(log[s]) /\ Len(log[s]) \in Nat /\ commitIndex[t] \in Nat
      /\ Indexes(s) = 1 .. Len(log[s]) /\ Indexes(t) = 1 .. Len(log[t])
      /\ \A i \in Indexes(s) : EntryAt(s, i) = log[s][i]
      /\ \A i \in Indexes(t) : EntryAt(t, i) = log[t][i]
      /\ log[s] \in Seq(Entry) /\ log[t] \in Seq(Entry)
      /\ Whole(log[s]) \in Pieces /\ Whole(log[t]) \in Pieces /\ Whole(log[t]) \in Piece
      /\ currentTerm[s] \in Nat /\ currentTerm[t] \in Nat
  BY WholeLogs
<1>2. PICK k \in Nat : k = commitIndex[t]
  BY <1>1
<1>3. CASE k = 0
  BY <1>1, <1>2, <1>3
<1>4. CASE k > 0
  <2>1. k <= Len(log[t]) /\ Chosen(SubSeq(log[t], 1, k))
    BY <1>2, <1>4 DEF Inv, LogInv, CommitsChosen
  <2>2. /\ SubSeq(log[t], 1, k) \in Seq(Entry) /\ Len(SubSeq(log[t], 1, k)) = k
        /\ SubSeq(log[t], 1, k)[k] = log[t][k]
    BY <1>1, <1>4, <2>1, Prefix
  <2>3. Inherited(k, log[t][k].term)
    BY <2>1, <2>2 DEF Chosen, Secure
  <2>4. k \in Span(Whole(log[t])) /\ TermIn(Whole(log[t]), k) = log[t][k].term
    BY <1>1, <1>4, <2>1, WholePiece
  <2>5. TermIn(Whole(log[t]), k) <= currentTerm[t]
    <3>1. WellFormed(Whole(log[t])) /\ LastTerm(Whole(log[t])) <= currentTerm[t]
      BY <1>1 DEF Inv, LogInv, TermsBounded
    <3>2. TermIn(Whole(log[t]), k) <= LastTerm(Whole(log[t]))
      BY <1>1, <2>4, <3>1, TermsGrowIn
    <3>3. TermIn(Whole(log[t]), k) \in Nat /\ LastTerm(Whole(log[t])) \in Nat
      BY <1>1, <2>4, PieceType
    <3>. QED BY <1>1, <3>1, <3>2, <3>3
  <2>6. PICK term \in Nat : term = log[t][k].term
    BY <1>1, <2>4, PieceType
  <2>7. k <= Len(log[s]) /\ TermIn(Whole(log[s]), k) = term
    <3>1. CASE term < currentTerm[s]
      <4>1. Has(Whole(log[s]), k, term)
        BY <2>3, <2>6, <3>1 DEF Inherited
      <4>. QED BY <1>1, <4>1, HasWhole
    <3>2. CASE term = currentTerm[s]
      BY <1>1, <2>4, <2>6, <3>2, OwnedBy
    <3>. QED BY <1>1, <2>4, <2>5, <2>6, <3>1, <3>2
  <2>8. Matching(Whole(log[s]), Whole(log[t]))
    BY <1>1 DEF Inv, LogInv, PiecesMatch
  <2>9. \A i \in 1 .. k : log[s][i] = log[t][i]
    BY <1>1, <2>1, <2>4, <2>6, <2>7, <2>8, MatchingLogs
  <2>. QED BY <1>1, <1>2, <2>7, <2>9
<1>. QED BY <1>2, <1>3, <1>4

LEMMA MatchesTrue == Inv => MatchTruthful
<1>. SUFFICES ASSUME Inv, NEW s \in Server, NEW d \in Server, state[s] = "leader",
                     currentTerm[d] = currentTerm[s], s # d
              PROVE  /\ matchIndex[s][d] <= LastLogIndex(d)
                     /\ \A i \in Indexes(s) \cap Indexes(d) :
                           i <= matchIndex[s][d] => EntryAt(d, i) = EntryAt(s, i)
  BY DEF MatchTruthful
<1>1. matchIndex[s][d] \in Acks(s, d) /\ matchIndex[s][d] \in Nat
  BY InvTypes, AcksTyped
<1>2. /\ matchIndex[s][d] <= Len(log[d])
      /\ \A i \in 1 .. matchIndex[s][d] : log[d][i] = log[s][i]
  BY <1>1 DEF Inv, LogInv, AcksTrue
<1>. QED BY <1>1, <1>2, WholeLogs

LEMMA CommittedByMajority == Inv => CommittedOnMajority
<1>. SUFFICES ASSUME Inv, NEW s \in Server, NEW i \in Indexes(s), i <= commitIndex[s]
              PROVE  Majority(Cardinality({d \in Server :
                        \/ i <= lastIncludedIndex[d]
                        \/ i \in Indexes(d) /\ EntryAt(d, i) = EntryAt(s, i)}))
  BY DEF CommittedOnMajority
<1>. DEFINE D == {d \in Server : \/ i <= lastIncludedIndex[d]
                                 \/ i \in Indexes(d) /\ EntryAt(d, i) = EntryAt(s, i)}
<1>1. commitIndex[s] \in Nat /\ i \in 1 .. commitIndex[s] /\ commitIndex[s] > 0
      /\ EntryAt(s, i) = log[s][i]
  BY WholeLogs
<1>2. PICK Q \in SUBSET Server :
              /\ Majority(Cardinality(Q))
              /\ \A x \in Q : /\ commitIndex[s] <= Len(log[x])
                              /\ \A k \in 1 .. commitIndex[s] : log[x][k] = log[s][k]
  BY <1>1, CommittedHeld
<1>3. ASSUME NEW x \in Q
      PROVE  x \in D
  <2>1. /\ x \in Server /\ Indexes(x) = 1 .. Len(log[x]) /\ Len(log[x]) \in Nat
        /\ \A k \in Indexes(x) : EntryAt(x, k) = log[x][k]
    BY WholeLogs
  <2>. QED BY <1>1, <1>2, <2>1
<1>4. Q \subseteq D /\ D \subseteq Server
  BY <1>3
<1>. HIDE DEF D
<1>5. IsFiniteSet(D) /\ IsFiniteSet(Q)
  BY <1>4, ServerAssumption, FS_Subset
<1>6. /\ Cardinality(Q) <= Cardinality(D)
      /\ Cardinality(Q) \in Nat /\ Cardinality(D) \in Nat /\ Cardinality(Server) \in Nat
  BY <1>4, <1>5, ServerAssumption, FS_Subset, FS_CardinalityType
<1>7. Majority(Cardinality(D))
  BY <1>2, <1>6 DEF Majority
<1>. QED BY <1>7 DEF D

LEMMA NextIndexesInLog == Inv => NextIndexInLog
<1>. SUFFICES ASSUME Inv, NEW s \in Server, NEW d \in Server, state[s] = "leader"
              PROVE  nextIndex[s][d] <= LastLogIndex(s) + 1
  BY DEF NextIndexInLog
<1>1. nextIndex[s][d] <= Len(log[s]) + 1
  BY DEF Inv, LogInv, RefusalsTrue
<1>. QED BY <1>1, WholeLogs

-----------------------------------------------------------------------------
(* The theorems.  All assume NoLogFault: that the service takes no         *)
(* snapshots, and that no timer fires within a handler.                    *)

LEMMA AlwaysInv ==
    ASSUME NoLogFault
    PROVE  Spec => []Inv
<1>1. Init => Inv
  BY InitInv
<1>2. Inv /\ [Next]_vars => Inv'
  BY NextInv
<1>. QED BY <1>1, <1>2, PTL DEF Spec

(* The invariant holds whatever the network, the timers and the crashes do. *)
THEOREM LogInvariant ==
    ASSUME NoLogFault
    PROVE  Spec => []LogInv
<1>1. Inv => LogInv
  BY DEF Inv
<1>. QED BY <1>1, AlwaysInv, PTL

(* Logs with an entry of the same term at the same index are equal up to   *)
(* there: appendEntries' consistency check and mark loop keep them so.     *)
THEOREM AlwaysLogMatching ==
    ASSUME NoLogFault
    PROVE  Spec => []LogMatching
BY LogsMatch, AlwaysInv, PTL

(* No two state machines execute different commands at one index.          *)
THEOREM AlwaysStateMachineSafety ==
    ASSUME NoLogFault
    PROVE  Spec => []StateMachineSafety
BY StateMachinesSafe, AlwaysInv, PTL

(* Whoever wins an election has all that was committed before.             *)
THEOREM AlwaysLeaderCompleteness ==
    ASSUME NoLogFault
    PROVE  Spec => []LeaderCompleteness
BY LeadersComplete, AlwaysInv, PTL

(* What a leader counts as replicated is on the follower's log.            *)
THEOREM AlwaysMatchTruthful ==
    ASSUME NoLogFault
    PROVE  Spec => []MatchTruthful
BY MatchesTrue, AlwaysInv, PTL

(* What is committed is on a majority of the logs.                         *)
THEOREM AlwaysCommittedOnMajority ==
    ASSUME NoLogFault
    PROVE  Spec => []CommittedOnMajority
BY CommittedByMajority, AlwaysInv, PTL

(* A leader never looks for a peer's next entry past the end of its log.   *)
THEOREM AlwaysNextIndexInLog ==
    ASSUME NoLogFault
    PROVE  Spec => []NextIndexInLog
BY NextIndexesInLog, AlwaysInv, PTL

(* Only a restart takes a commit index back.                               *)
THEOREM CommitsNeverGoBack ==
    ASSUME NoLogFault
    PROVE  Spec => CommitMonotonic
<1>1. Inv /\ [Next]_vars =>
        [\A s \in Server : commitIndex'[s] < commitIndex[s] => crashes' > crashes]_vars
  <2>. SUFFICES ASSUME Inv, [Next]_vars, NEW s \in Server, commitIndex'[s] < commitIndex[s]
                PROVE  crashes' > crashes
    OBVIOUS
  <2>1. commitIndex'[s] >= commitIndex[s] \/ crashes' > crashes
    BY NextFollows DEF Follows, CommitsGrow
  <2>2. commitIndex[s] \in Nat /\ commitIndex'[s] \in Nat
    <3>1. TypeOK /\ TypeOK'
      BY NextInv DEF Inv, StorageInv, TypeInv
    <3>. QED BY <3>1 DEF TypeOK
  <2>. QED BY <2>1, <2>2
<1>. QED BY <1>1, AlwaysInv, PTL DEF Spec, CommitMonotonic

(* No appendEntries that arrives late truncates the log of a leader.       *)
THEOREM LeadersOnlyAppend ==
    ASSUME NoLogFault
    PROVE  Spec => LeaderAppendOnly
<1>1. Inv /\ [Next]_vars =>
        [\A s \in Server :
            state[s] = "leader" /\ state'[s] = "leader" =>
                /\ LastLogIndex(s)' >= LastLogIndex(s)
                /\ \A i \in Indexes(s) \cap Indexes(s)' : EntryAt(s, i)' = EntryAt(s, i)]_vars
  <2>. SUFFICES ASSUME Inv, [Next]_vars, NEW s \in Server, state[s] = "leader", state'[s] = "leader"
                PROVE  /\ LastLogIndex(s)' >= LastLogIndex(s)
                       /\ \A i \in Indexes(s) \cap Indexes(s)' : EntryAt(s, i)' = EntryAt(s, i)
    OBVIOUS
  <2>1. /\ Len(log[s]) <= Len(log'[s])
        /\ \A i \in 1 .. Len(log[s]) : log'[s][i] = log[s][i]
    BY NextFollows DEF Follows, LeadersAppend
  <2>2. /\ lastIncludedIndex[s] = 0 /\ lastIncludedIndex'[s] = 0
        /\ log[s] \in Seq(Entry) /\ log'[s] \in Seq(Entry)
    <3>1. TypeOK /\ TypeOK' /\ NothingCompacted /\ NothingCompacted'
      BY NextInv DEF Inv, StorageInv, TypeInv
    <3>. QED BY <3>1 DEF TypeOK, NothingCompacted
  <2>3. Len(log[s]) \in Nat /\ Len(log'[s]) \in Nat
    BY <2>2
  <2>4. LastLogIndex(s)' = Len(log'[s]) /\ LastLogIndex(s) = Len(log[s])
    BY <2>2, <2>3 DEF LastLogIndex
  <2>5. Indexes(s) = 1 .. Len(log[s]) /\ \A i \in Indexes(s) : EntryAt(s, i) = log[s][i]
    BY <2>2, <2>3, <2>4 DEF Indexes, EntryAt
  <2>6. \A i \in Indexes(s) : EntryAt(s, i)' = log'[s][i]
    BY <2>2, <2>3, <2>5 DEF EntryAt
  <2>. QED BY <2>1, <2>3, <2>4, <2>5, <2>6
<1>. QED BY <1>1, AlwaysInv, PTL DEF Spec, LeaderAppendOnly

-----------------------------------------------------------------------------
(* Raft implements ReplicatedLog.                                          *)

Recorded ==
    /\ proposed' = proposed \cup Returned
    /\ chosen' = IF LongerExecuted = {} THEN chosen ELSE CHOOSE q \in LongerExecuted : TRUE

(* What is in a log was accepted by start(), at its index.                 *)
EntriesProposed ==
    \A R \in Pieces : \A i \in Span(R) : i > R.base =>
        \E p \in proposed : p.index = i /\ p.entry = EntryIn(R, i).command

ProposedOnce == \A p \in proposed : p.entry \in requests

(* q is what the log of y begins with, and is there for ever.              *)
Backs(y, q) ==
    /\ Len(q) <= Len(log[y])
    /\ Chosen(SubSeq(log[y], 1, Len(q)))
    /\ \A i \in 1 .. Len(q) : q[i] = log[y][i].command

LongestChosen ==
    /\ chosen \in Seq(Command)
    /\ \A s \in Server : Len(applied[s]) <= Len(chosen)
    /\ Len(chosen) > 0 => \E y \in Server : Backs(y, chosen)

RecordInv == EntriesProposed /\ ProposedOnce /\ LongestChosen

LEMMA StutterRecorded ==
    ASSUME LongestChosen, UNCHANGED recordedVars
    PROVE  Recorded
<1>1. log' = log /\ applied' = applied /\ proposed' = proposed /\ chosen' = chosen
  BY DEF recordedVars, vars, logVars, applyVars
<1>2. Returned = {}
  BY <1>1 DEF Returned
<1>3. \A s \in Server : ~(Len(applied'[s]) > Len(chosen))
  <2>1. \A s \in Server : Len(applied[s]) <= Len(chosen)
    BY DEF LongestChosen
  <2>2. Len(chosen) \in Nat
    BY DEF LongestChosen
  <2>3. UNCHANGED applied
    BY <1>1
  <2>. QED BY <2>1, <2>2, <2>3
<1>4. LongerExecuted = {}
  BY <1>3 DEF LongerExecuted
<1>. QED BY <1>1, <1>2, <1>4 DEF Recorded

(* Only start() accepts commands.                                          *)
LEMMA RequestsOnly ==
    ASSUME [Next]_vars, ~UNCHANGED requests
    PROVE  \E s \in Server : \E c \in Command : Start(s, c)
<1>1. ~UNCHANGED vars
  BY DEF vars, boundVars
<1>2. ASSUME NEW s \in Server,
             \/ StartElection(s) \/ BecomeLeader(s) \/ BroadcastAppendEntries(s)
             \/ ResumeAppendEntries(s) \/ TakeSnapshot(s) \/ Crash(s)
      PROVE  UNCHANGED requests
  BY <1>2 DEF StartElection, BecomeLeader, BroadcastAppendEntries, ResumeAppendEntries,
     TakeSnapshot, Crash, Restart, boundVars
<1>3. ASSUME NEW m \in messages,
             \/ HandleRequestVote(m) \/ HandleVoteReply(m) \/ AppendEntries(m)
             \/ HandleAppendReply(m) \/ HandleInstallSnapshot(m) \/ HandleInstallReply(m)
             \/ CrashInInstallSnapshot(m)
      PROVE  UNCHANGED requests
  BY <1>3 DEF HandleRequestVote, HandleVoteReply, AppendEntries, HandleAppendReply,
     HandleInstallSnapshot, HandleInstallReply, CrashInInstallSnapshot, Restart, boundVars
<1>. QED BY <1>1, <1>2, <1>3 DEF Next

(* One step executes at one server.                                        *)
LEMMA OneExecutes ==
    ASSUME NoLogFault, Inv, [Next]_vars
    PROVE  \E s \in Server : \A t \in Server \ {s} : applied'[t] = applied[t]
<1>1. TypeOK
  BY InvTypes
<1>2. CASE UNCHANGED vars
  <2>1. UNCHANGED applied
    BY <1>2 DEF vars, applyVars
  <2>. QED BY <2>1, ServerAssumption
<1>3. ASSUME Storing
      PROVE  \E s \in Server : \A t \in Server \ {s} : applied'[t] = applied[t]
  <2>1. CASE UNCHANGED applied
    BY <2>1, ServerAssumption
  <2>2. ASSUME NEW s \in Server, NEW l, NEW n, ApplyUpTo(s, l, n)
        PROVE  \A t \in Server \ {s} : applied'[t] = applied[t]
    <3>1. applied \in [Server -> Seq(Command)]
      BY <1>1 DEF TypeOK
    <3>. QED BY <2>2, <3>1 DEF ApplyUpTo, Execute
  <2>. QED BY <1>3, <2>1, <2>2 DEF Storing, Executed
<1>4. ASSUME NEW s \in Server, Crash(s)
      PROVE  \A t \in Server \ {s} : applied'[t] = applied[t]
  <2>1. applied \in [Server -> Seq(Command)]
    BY <1>1 DEF TypeOK
  <2>. QED BY <1>4, <2>1 DEF Crash, Restart, IngestSnap
<1>. QED BY <1>2, <1>3, <1>4, LogFaultless, StepStores DEF Inv

LEMMA BacksOn ==
    ASSUME Follows, NEW y \in Server, NEW q \in Seq(Command), Len(q) > 0, Backs(y, q)
    PROVE  Backs(y, q)'
<1>1. PICK n \in Nat : n = Len(q)
  OBVIOUS
<1>2. n > 0 /\ n <= Len(log[y]) /\ Chosen(SubSeq(log[y], 1, n))
  BY <1>1 DEF Backs
<1>3. /\ n <= Len(log'[y])
      /\ \A i \in 1 .. n : log'[y][i] = log[y][i]
      /\ Chosen(SubSeq(log[y], 1, n))'
  BY <1>2, ChosenOn DEF Follows
<1>4. \A i \in 1 .. n : q[i] = log'[y][i].command
  BY <1>1, <1>3 DEF Backs
<1>5. Chosen(SubSeq(log[y], 1, Len(q)))'
  BY <1>1, <1>3
<1>. QED BY <1>1, <1>3, <1>4, <1>5 DEF Backs

(* Two such sequences agree.                                               *)
BackedAgree ==
    \A q, r \in Seq(Command) : \A y, z \in Server :
        Backs(y, q) /\ Backs(z, r) =>
            \A i \in 1 .. Len(q) : i <= Len(r) => q[i] = r[i]

LEMMA BacksAgree == TypeOK => BackedAgree
<1>. SUFFICES ASSUME TypeOK, NEW q \in Seq(Command), NEW r \in Seq(Command),
                     NEW y \in Server, NEW z \in Server, Backs(y, q), Backs(z, r),
                     NEW i \in 1 .. Len(q), i <= Len(r)
              PROVE  q[i] = r[i]
  BY DEF BackedAgree
<1>1. log[y] \in Seq(Entry) /\ log[z] \in Seq(Entry)
  BY DEF TypeOK
<1>2. PICK n \in Nat : n = Len(q)
  OBVIOUS
<1>3. PICK k \in Nat : k = Len(r)
  OBVIOUS
<1>4. n <= Len(log[y]) /\ Chosen(SubSeq(log[y], 1, n)) /\ q[i] = log[y][i].command
  BY <1>2 DEF Backs
<1>5. k <= Len(log[z]) /\ Chosen(SubSeq(log[z], 1, k)) /\ r[i] = log[z][i].command
  BY <1>3 DEF Backs
<1>6. /\ Len(SubSeq(log[y], 1, n)) = n
      /\ \A j \in 1 .. n : SubSeq(log[y], 1, n)[j] = log[y][j]
  BY <1>1, <1>4, Prefix
<1>7. /\ Len(SubSeq(log[z], 1, k)) = k
      /\ \A j \in 1 .. k : SubSeq(log[z], 1, k)[j] = log[z][j]
  BY <1>1, <1>5, Prefix
<1>8. PICK P \in SUBSET Server :
              Majority(Cardinality(P)) /\ \A x \in P : Begins(log[x], SubSeq(log[y], 1, n))
  BY <1>4 DEF Chosen, Secure, HeldBy
<1>9. PICK Q \in SUBSET Server :
              Majority(Cardinality(Q)) /\ \A x \in Q : Begins(log[x], SubSeq(log[z], 1, k))
  BY <1>5 DEF Chosen, Secure, HeldBy
<1>10. PICK x \in Server : x \in P /\ x \in Q
  BY <1>8, <1>9, MajoritiesMeet
<1>11. log[x][i] = log[y][i]
  BY <1>2, <1>6, <1>8, <1>10 DEF Begins
<1>12. log[x][i] = log[z][i]
  BY <1>3, <1>7, <1>9, <1>10 DEF Begins
<1>. QED BY <1>4, <1>5, <1>11, <1>12

LEMMA BacksAgreeThen == TypeOK' => BackedAgree'
BY BacksAgree, PTL

(* Nothing is returned, or what start() returns.                           *)
LEMMA ReturnedNothing ==
    ASSUME UNCHANGED requests
    PROVE  Returned = {}
BY DEF Returned

LEMMA ReturnedIndex ==
    ASSUME Inv, NEW s \in Server, NEW c \in Command, Start(s, c)
    PROVE  Returned = {[index |-> Len(log[s]) + 1, entry |-> c]}
<1>1. TypeOK /\ lastIncludedIndex[s] = 0 /\ log \in [Server -> Seq(Entry)]
  BY InvTypes DEF TypeOK
<1>2. requests' \ requests = {c}
  BY DEF Start
<1>3. log' = [log EXCEPT ![s] = Append(@, [term |-> currentTerm[s], command |-> c])]
  BY DEF Start
<1>4. log'[s] = Append(log[s], [term |-> currentTerm[s], command |-> c])
  BY <1>1, <1>3
<1>5. Len(log'[s]) = Len(log[s]) + 1 /\ Len(log[s]) \in Nat
  <2>1. [term |-> currentTerm[s], command |-> c] \in Entry
    BY <1>1 DEF TypeOK, Entry
  <2>2. log[s] \in Seq(Entry)
    BY <1>1
  <2>. QED BY <1>4, <2>1, <2>2
<1>6. log'[s] # log[s]
  <2>1. Len(log'[s]) # Len(log[s])
    BY <1>5
  <2>. QED BY <2>1
<1>7. \A t \in Server \ {s} : log'[t] = log[t]
  BY <1>1, <1>3
<1>8. {t \in Server : log'[t] # log[t]} = {s}
  BY <1>6, <1>7
<1>9. lastIncludedIndex[s] + Len(log'[s]) = Len(log[s]) + 1
  BY <1>1, <1>5
<1>. QED BY <1>2, <1>8, <1>9 DEF Returned

(* The record of what is chosen follows the one server that executes.      *)
LEMMA LongestIs ==
    ASSUME TypeOK', LongestChosen, Recorded, NEW s \in Server,
           \A t \in Server \ {s} : applied'[t] = applied[t]
    PROVE  /\ Len(applied'[s]) > Len(chosen) => chosen' = applied'[s]
           /\ Len(applied'[s]) <= Len(chosen) => chosen' = chosen
<1>1. Len(chosen) \in Nat /\ applied'[s] \in Seq(Command) /\ Len(applied'[s]) \in Nat
  BY DEF LongestChosen, TypeOK
<1>2. \A t \in Server \ {s} : Len(applied'[t]) <= Len(chosen)
  BY DEF LongestChosen
<1>3. \A t \in Server \ {s} : ~(Len(applied'[t]) > Len(chosen))
  <2>1. \A t \in Server : Len(applied'[t]) \in Nat
    BY DEF TypeOK
  <2>. QED BY <1>1, <1>2, <2>1
<1>4. CASE Len(applied'[s]) > Len(chosen)
  <2>1. LongerExecuted = {applied'[s]}
    BY <1>3, <1>4 DEF LongerExecuted
  <2>2. chosen' = CHOOSE q \in {applied'[s]} : TRUE
    BY <2>1 DEF Recorded
  <2>3. chosen' = applied'[s]
    BY <2>2
  <2>. QED BY <1>1, <1>4, <2>3
<1>5. CASE Len(applied'[s]) <= Len(chosen)
  <2>1. ~(Len(applied'[s]) > Len(chosen))
    BY <1>1, <1>5
  <2>2. LongerExecuted = {}
    BY <1>3, <2>1 DEF LongerExecuted
  <2>. QED BY <2>1, <2>2 DEF Recorded
<1>. QED BY <1>1, <1>4, <1>5

LEMMA ProposedOn ==
    ASSUME EntriesOld, EntriesProposed, proposed \subseteq proposed'
    PROVE  EntriesProposed'
BY DEF EntriesOld, EntriesProposed

(* What a state machine has executed.                                      *)
AllBacked ==
    \A s \in Server : \A r \in Seq(Command) : r = applied[s] /\ Len(r) > 0 => Backs(s, r)

AllProposed ==
    \A s \in Server : \A i \in 1 .. Len(applied[s]) :
        \E p \in proposed : p.index = i /\ p.entry = applied[s][i]

AllInLog ==
    \A s \in Server : Len(applied[s]) = commitIndex[s] /\ Len(applied[s]) <= Len(log[s])

LEMMA ExecutedFromLog == Inv => AllInLog /\ AllBacked
<1>. SUFFICES ASSUME Inv, NEW s \in Server
              PROVE  /\ Len(applied[s]) = commitIndex[s] /\ Len(applied[s]) <= Len(log[s])
                     /\ \A r \in Seq(Command) : r = applied[s] /\ Len(r) > 0 => Backs(s, r)
  BY DEF AllInLog, AllBacked
<1>1. /\ Len(applied[s]) = commitIndex[s]
      /\ \A i \in 1 .. commitIndex[s] : applied[s][i] = log[s][i].command
      /\ commitIndex[s] > 0 =>
            commitIndex[s] <= Len(log[s]) /\ Chosen(SubSeq(log[s], 1, commitIndex[s]))
  BY DEF Inv, LogInv, CommitsExecuted, CommitsChosen
<1>2. commitIndex[s] \in Nat /\ Len(log[s]) \in Nat
  BY WholeLogs
<1>3. Len(applied[s]) <= Len(log[s])
  BY <1>1, <1>2
<1>4. ASSUME NEW r \in Seq(Command), r = applied[s], Len(r) > 0
      PROVE  Backs(s, r)
  <2>1. Len(r) = commitIndex[s]
    BY <1>1, <1>4
  <2>2. Chosen(SubSeq(log[s], 1, Len(r))) /\ Len(r) <= Len(log[s])
    BY <1>1, <1>2, <1>4, <2>1
  <2>3. \A i \in 1 .. Len(r) : r[i] = log[s][i].command
    BY <1>1, <1>4, <2>1
  <2>. QED BY <2>2, <2>3 DEF Backs
<1>. QED BY <1>1, <1>3, <1>4

LEMMA ExecutedProposed == Inv /\ EntriesProposed => AllProposed
<1>. SUFFICES ASSUME Inv, EntriesProposed, NEW s \in Server, NEW i \in 1 .. Len(applied[s])
              PROVE  \E p \in proposed : p.index = i /\ p.entry = applied[s][i]
  BY DEF AllProposed
<1>1. /\ Len(applied[s]) = commitIndex[s] /\ Len(applied[s]) <= Len(log[s])
      /\ Len(applied[s]) \in Nat /\ Len(log[s]) \in Nat /\ log[s] \in Seq(Entry)
      /\ Whole(log[s]) \in Pieces
      /\ applied[s][i] = log[s][i].command
  <2>1. commitIndex[s] \in Nat
    BY WholeLogs
  <2>2. Len(applied[s]) = commitIndex[s] /\ Len(applied[s]) <= Len(log[s])
    BY ExecutedFromLog DEF AllInLog
  <2>3. applied[s][i] = log[s][i].command
    BY <2>2 DEF Inv, LogInv, CommitsExecuted
  <2>. QED BY <2>1, <2>2, <2>3, WholeLogs
<1>2. i \in 1 .. Len(log[s]) /\ i \in 0 .. Len(log[s]) /\ i > 0
  BY <1>1
<1>3. /\ i \in Span(Whole(log[s])) /\ i > Whole(log[s]).base
      /\ EntryIn(Whole(log[s]), i) = log[s][i]
  BY <1>1, <1>2, WholePiece
<1>4. \E p \in proposed : p.index = i /\ p.entry = EntryIn(Whole(log[s]), i).command
  BY <1>1, <1>3 DEF EntriesProposed
<1>. QED BY <1>1, <1>3, <1>4

LEMMA ExecutedThen == Inv' /\ EntriesProposed' => AllInLog' /\ AllBacked' /\ AllProposed'
BY ExecutedFromLog, ExecutedProposed, PTL

LEMMA PrefixOfCommands ==
    ASSUME NEW q \in Seq(Command), NEW r \in Seq(Command), Len(q) <= Len(r),
           \A i \in 1 .. Len(q) : q[i] = r[i]
    PROVE  Log!Prefix(q, r)
<1>1. Len(q) \in Nat /\ Len(r) \in Nat
  OBVIOUS
<1>2. /\ SubSeq(r, 1, Len(q)) \in Seq(Command) /\ Len(SubSeq(r, 1, Len(q))) = Len(q)
      /\ \A i \in 1 .. Len(q) : SubSeq(r, 1, Len(q))[i] = r[i]
  BY <1>1, SubSeqProperties
<1>3. q = SubSeq(r, 1, Len(q))
  BY <1>2, SeqEqual
<1>. QED BY <1>3 DEF Log!Prefix

LEMMA StartRecords ==
    ASSUME Inv, StorageInv', HonestCount', EntriesProposed, ProposedOnce, Recorded,
           NEW s \in Server, NEW c \in Command, Start(s, c)
    PROVE  EntriesProposed' /\ ProposedOnce'
<1>. DEFINE n == Len(log[s])
            W == Whole(log[s])
            V == Whole(log'[s])
            r == [index |-> n + 1, entry |-> c]
<1>1. proposed' = proposed \cup {r}
  BY ReturnedIndex DEF Recorded
<1>2. Step /\ Extends(s)
  BY StartExtends
<1>3. /\ W \in Pieces /\ n \in Nat
      /\ Span(W) = 0 .. n /\ Span(V) = 0 .. n + 1 /\ V.base = 0 /\ W.base = 0
      /\ \A i \in 0 .. n : Same(V, W, i)
      /\ \A R \in Pieces' : R = V \/ R \in Pieces
  BY <1>2, ExtendsPieces
<1>4. EntryIn(V, n + 1) = log'[s][n + 1] /\ log'[s][n + 1].command = c
  <2>1. log'[s] \in Seq(Entry) /\ Len(log'[s]) = n + 1 /\ n \in Nat
    BY <1>2, <1>3 DEF Extends
  <2>2. EntryIn(V, n + 1) = log'[s][n + 1]
    BY <2>1, WholePiece
  <2>3. TypeOK
    BY InvTypes
  <2>4. log'[s] = Append(log[s], [term |-> currentTerm[s], command |-> c]) /\ log[s] \in Seq(Entry)
    BY <2>3 DEF Start, TypeOK
  <2>5. [term |-> currentTerm[s], command |-> c] \in Entry
    BY <2>3 DEF TypeOK, Entry
  <2>6. log'[s][n + 1] = [term |-> currentTerm[s], command |-> c]
    BY <2>4, <2>5
  <2>. QED BY <2>2, <2>6
<1>. HIDE DEF V, W, n
<1>5. ASSUME NEW R \in Pieces', NEW i \in Span(R), i > R.base
      PROVE  \E p \in proposed' : p.index = i /\ p.entry = EntryIn(R, i).command
  <2>1. CASE R \in Pieces
    BY <1>1, <1>5, <2>1 DEF EntriesProposed
  <2>2. CASE R = V /\ i = n + 1
    <3>1. r \in proposed' /\ r.index = n + 1 /\ r.entry = c
      BY <1>1
    <3>2. EntryIn(R, i).command = c
      BY <1>4, <2>2
    <3>. QED BY <2>2, <3>1, <3>2
  <2>3. CASE R = V /\ i # n + 1
    <3>1. i \in 0 .. n /\ i > W.base /\ i > V.base /\ i \in Span(W)
      BY <1>3, <1>5, <2>3
    <3>2. EntryIn(V, i) = EntryIn(W, i)
      BY <1>3, <3>1 DEF Same
    <3>3. \E p \in proposed : p.index = i /\ p.entry = EntryIn(W, i).command
      BY <1>3, <3>1 DEF EntriesProposed
    <3>. QED BY <1>1, <2>3, <3>2, <3>3
  <2>. QED BY <1>3, <2>1, <2>2, <2>3
<1>6. EntriesProposed'
  BY <1>5 DEF EntriesProposed
<1>7. ProposedOnce'
  BY <1>1 DEF ProposedOnce, Start
<1>. QED BY <1>6, <1>7

LEMMA LongestOn ==
    ASSUME Inv', EntriesProposed', Follows, LongestChosen, Recorded, NEW s \in Server,
           \A t \in Server \ {s} : applied'[t] = applied[t]
    PROVE  LongestChosen'
<1>1. TypeOK' /\ AllBacked'
  BY ExecutedThen DEF Inv, StorageInv, TypeInv
<1>2. /\ Len(applied'[s]) > Len(chosen) => chosen' = applied'[s]
      /\ Len(applied'[s]) <= Len(chosen) => chosen' = chosen
  BY <1>1, LongestIs
<1>3. PICK r \in Seq(Command) : r = applied'[s]
  BY <1>1 DEF TypeOK
<1>4. PICK q \in Seq(Command) : q = chosen
  BY DEF LongestChosen
<1>5. \A t \in Server \ {s} : Len(applied'[t]) <= Len(q)
  BY <1>4 DEF LongestChosen
<1>6. \A t \in Server : Len(applied'[t]) \in Nat
  BY <1>1 DEF TypeOK
<1>7. CASE Len(r) > Len(q)
  <2>1. Backs(s, r)'
    BY <1>1, <1>3, <1>7 DEF AllBacked
  <2>2. chosen' = r
    BY <1>2, <1>3, <1>4, <1>7
  <2>3. \A t \in Server : Len(applied'[t]) <= Len(r)
    BY <1>3, <1>5, <1>6, <1>7
  <2>4. Backs(s, chosen)'
    BY <2>1, <2>2 DEF Backs, Chosen, Secure, HeldBy, Inherited, Uncontradicted, Begins
  <2>. QED BY <2>2, <2>3, <2>4 DEF LongestChosen
<1>8. CASE ~(Len(r) > Len(q))
  <2>1. chosen' = q /\ \A t \in Server : Len(applied'[t]) <= Len(q)
    BY <1>2, <1>3, <1>4, <1>5, <1>6, <1>8
  <2>2. ASSUME Len(q) > 0
        PROVE  \E y \in Server : Backs(y, chosen)'
    <3>1. PICK y \in Server : Backs(y, q)
      BY <1>4, <2>2 DEF LongestChosen
    <3>2. Backs(y, q)'
      BY <2>2, <3>1, BacksOn
    <3>3. Backs(y, chosen)'
      BY <2>1, <3>2 DEF Backs, Chosen, Secure, HeldBy, Inherited, Uncontradicted, Begins
    <3>. QED BY <3>3
  <2>. QED BY <2>1, <2>2 DEF LongestChosen
<1>. QED BY <1>7, <1>8

(* Each step is one of ReplicatedLog, or none.                             *)
LEMMA StartProposes ==
    ASSUME Inv, TypeOK', RecordInv, Recorded, NEW s \in Server, NEW c \in Command, Start(s, c)
    PROVE  Log!LogNext
<1>. DEFINE n == Len(log[s])
            r == [index |-> n + 1, entry |-> c]
<1>1. proposed' = proposed \cup {r} /\ r \in proposed'
  BY ReturnedIndex DEF Recorded
<1>2. n \in Nat /\ Len(applied[s]) <= n /\ Len(applied[s]) \in Nat
  <2>1. Len(applied[s]) <= n
    BY ExecutedFromLog DEF AllInLog
  <2>2. TypeOK
    BY InvTypes
  <2>. QED BY <2>1, <2>2, WholeLogs DEF TypeOK
<1>3. r.index > Len(applied[s])
  BY <1>2
<1>4. r.index = 1 \/ Log!ProposedAt(r.index - 1) # {}
  <2>1. CASE n = 0
    BY <2>1
  <2>2. CASE n > 0
    <3>1. Whole(log[s]) \in Pieces /\ log[s] \in Seq(Entry)
      BY WholeLogs
    <3>2. n \in Span(Whole(log[s])) /\ n > Whole(log[s]).base
      BY <1>2, <2>2, <3>1, WholePiece
    <3>3. PICK p \in proposed : p.index = n
      BY <3>1, <3>2 DEF RecordInv, EntriesProposed
    <3>4. r.index - 1 = n
      BY <1>2
    <3>. QED BY <3>3, <3>4 DEF Log!ProposedAt
  <2>. QED BY <1>2, <2>1, <2>2
<1>5. \A p \in proposed : p.entry # r.entry
  BY DEF RecordInv, ProposedOnce, Start
<1>6. applied' = applied
  BY DEF Start, applyVars
<1>7. chosen' = chosen
  <2>1. \A t \in Server \ {s} : applied'[t] = applied[t]
    BY <1>6
  <2>2. Len(applied'[s]) <= Len(chosen)
    BY <1>6 DEF RecordInv, LongestChosen
  <2>. QED BY <2>1, <2>2, LongestIs DEF RecordInv
<1>8. [index |-> r.index, entry |-> r.entry] = r
  OBVIOUS
<1>9. Log!Propose(s, r.index, r.entry)
  BY <1>1, <1>3, <1>4, <1>5, <1>6, <1>7, <1>8 DEF Log!Propose
<1>. QED BY <1>1, <1>9 DEF Log!LogNext

LEMMA OthersExecute ==
    ASSUME Inv, Inv', Follows, RecordInv, EntriesProposed', Recorded, UNCHANGED proposed,
           NEW s \in Server, \A t \in Server \ {s} : applied'[t] = applied[t]
    PROVE  Log!LogNext \/ UNCHANGED Log!logVars
<1>1. /\ TypeOK /\ TypeOK' /\ AllBacked /\ AllBacked' /\ AllProposed' /\ BackedAgree'
      /\ LongestChosen
  <2>1. TypeOK /\ TypeOK'
    BY DEF Inv, StorageInv, TypeInv
  <2>. QED BY <2>1, ExecutedFromLog, ExecutedThen, BacksAgreeThen DEF RecordInv
<1>2. PICK q \in Seq(Command) : q = applied'[s]
  BY <1>1 DEF TypeOK
<1>3. PICK p \in Seq(Command) : p = applied[s]
  BY <1>1 DEF TypeOK
<1>4. PICK k \in Seq(Command) : k = chosen
  BY <1>1 DEF LongestChosen
<1>5. /\ Len(q) > Len(k) => chosen' = q
      /\ Len(q) <= Len(k) => chosen' = k
  BY <1>1, <1>2, <1>4, LongestIs
<1>6. /\ Len(p) \in Nat /\ Len(q) \in Nat /\ Len(k) \in Nat /\ Len(p) <= Len(k)
  BY <1>1, <1>3, <1>4 DEF LongestChosen
<1>7. Len(q) >= Len(p) \/ Len(q) = 0
  <2>1. Len(p) = commitIndex[s] /\ Len(q) = commitIndex'[s]
    BY <1>2, <1>3, ExecutedFromLog, ExecutedThen DEF AllInLog
  <2>. QED BY <2>1 DEF Follows, CommitsGrow
<1>8. applied' = [applied EXCEPT ![s] = q]
  BY <1>1, <1>2 DEF TypeOK
<1>9. CASE Len(q) = 0
  <2>1. chosen' = chosen
    BY <1>4, <1>5, <1>6, <1>9
  <2>2. Log!Prefix(q, p)
    <3>1. Len(q) <= Len(p) /\ \A i \in 1 .. Len(q) : q[i] = p[i]
      BY <1>6, <1>9
    <3>. QED BY <3>1, PrefixOfCommands
  <2>3. Log!Restart(s, applied'[s])
    BY <1>2, <1>3, <1>8, <2>1, <2>2 DEF Log!Restart
  <2>. QED BY <2>3 DEF Log!LogNext
<1>10. CASE Len(q) = Len(p) /\ Len(q) > 0
  <2>1. Backs(s, p)' /\ Backs(s, q)'
    <3>1. Backs(s, p)
      BY <1>1, <1>3, <1>10 DEF AllBacked
    <3>2. Backs(s, p)'
      BY <1>10, <3>1, BacksOn
    <3>3. Backs(s, q)'
      BY <1>1, <1>2, <1>10 DEF AllBacked
    <3>. QED BY <3>2, <3>3
  <2>2. \A i \in 1 .. Len(q) : q[i] = p[i]
    BY <1>1, <1>6, <1>10, <2>1 DEF BackedAgree
  <2>3. q = p
    BY <1>10, <2>2, SeqEqual
  <2>4. applied' = applied
    BY <1>1, <1>3, <1>8, <2>3 DEF TypeOK
  <2>5. chosen' = chosen
    BY <1>4, <1>5, <1>6, <1>10
  <2>. QED BY <2>4, <2>5 DEF Log!logVars
<1>11. CASE Len(q) > Len(p)
  <2>1. Len(q) > Len(applied[s])
    BY <1>3, <1>11
  <2>2. Backs(s, q)'
    BY <1>1, <1>2, <1>6, <1>11 DEF AllBacked
  <2>3. Log!Prefix(q, chosen) \/ Log!Prefix(chosen, q)
    <3>1. CASE Len(k) = 0
      BY <1>4, <1>6, <3>1, PrefixOfCommands
    <3>2. CASE Len(k) > 0
      <4>1. PICK y \in Server : Backs(y, k)
        BY <1>1, <1>4, <3>2 DEF LongestChosen
      <4>2. Backs(y, k)'
        BY <3>2, <4>1, BacksOn
      <4>3. CASE Len(q) <= Len(k)
        <5>1. \A i \in 1 .. Len(q) : q[i] = k[i]
          BY <1>1, <1>6, <2>2, <4>2, <4>3 DEF BackedAgree
        <5>. QED BY <1>4, <4>3, <5>1, PrefixOfCommands
      <4>4. CASE Len(k) <= Len(q)
        <5>1. \A i \in 1 .. Len(k) : k[i] = q[i]
          BY <1>1, <1>6, <2>2, <4>2, <4>4 DEF BackedAgree
        <5>. QED BY <1>4, <4>4, <5>1, PrefixOfCommands
      <4>. QED BY <1>6, <4>3, <4>4
    <3>. QED BY <1>6, <3>1, <3>2
  <2>4. \A i \in Len(chosen) + 1 .. Len(q) : \E r \in Log!ProposedAt(i) : q[i] = r.entry
    <3>. SUFFICES ASSUME NEW i \in Len(chosen) + 1 .. Len(q)
                  PROVE  \E r \in Log!ProposedAt(i) : q[i] = r.entry
      OBVIOUS
    <3>1. i \in 1 .. Len(q)
      BY <1>4, <1>6
    <3>2. PICK r \in proposed : r.index = i /\ r.entry = q[i]
      BY <1>1, <1>2, <3>1 DEF AllProposed
    <3>. QED BY <3>2 DEF Log!ProposedAt
  <2>5. chosen' = IF Len(q) > Len(chosen) THEN q ELSE chosen
    BY <1>4, <1>5, <1>6
  <2>6. Log!Execute(s, applied'[s])
    BY <1>2, <1>8, <2>1, <2>3, <2>4, <2>5 DEF Log!Execute
  <2>. QED BY <2>6 DEF Log!LogNext
<1>. QED BY <1>6, <1>7, <1>9, <1>10, <1>11

LEMMA InitRecord ==
    ASSUME Init, proposed = {}, chosen = << >>
    PROVE  Inv /\ RecordInv /\ Log!LogInit
<1>1. Inv
  BY InitInv
<1>2. applied = [s \in Server |-> << >>]
  BY DEF Init
<1>3. Log!LogInit
  BY <1>2 DEF Log!LogInit
<1>4. EntriesProposed
  <2>. SUFFICES ASSUME NEW R \in Pieces, NEW i \in Span(R), i > R.base
                PROVE  FALSE
    BY DEF EntriesProposed
  <2>1. R = Whole(<< >>)
    BY DEF Init, Pieces, Appends
  <2>2. << >> \in Seq(Entry) /\ Len(<< >>) = 0
    OBVIOUS
  <2>3. Span(Whole(<< >>)) = 0 .. 0 /\ Whole(<< >>).base = 0
    BY <2>2, WholePiece
  <2>. QED BY <2>1, <2>3
<1>5. ProposedOnce
  BY DEF ProposedOnce
<1>6. LongestChosen
  <2>1. << >> \in Seq(Command) /\ Len(<< >>) = 0
    OBVIOUS
  <2>2. \A s \in Server : Len(applied[s]) <= 0
    BY <1>2, <2>1
  <2>. QED BY <2>1, <2>2 DEF LongestChosen
<1>. QED BY <1>1, <1>3, <1>4, <1>5, <1>6 DEF RecordInv

LEMMA NextRecord ==
    ASSUME NoLogFault, Inv, RecordInv, [RecordedNext]_recordedVars
    PROVE  Inv' /\ RecordInv' /\ (Log!LogNext \/ UNCHANGED Log!logVars)
<1>1. [Next]_vars /\ Recorded
  <2>1. CASE UNCHANGED recordedVars
    BY <2>1, StutterRecorded DEF RecordInv, recordedVars
  <2>2. CASE RecordedNext
    BY <2>2 DEF RecordedNext, Recorded
  <2>. QED BY <2>1, <2>2
<1>2. Inv' /\ Follows /\ (EntriesOld \/ \E s \in Server : \E c \in Command : Start(s, c))
  BY <1>1, NextInv, NextFollows
<1>3. StorageInv' /\ HonestCount' /\ TypeOK'
  BY <1>2 DEF Inv, StorageInv, TypeInv
<1>4. PICK s \in Server : \A t \in Server \ {s} : applied'[t] = applied[t]
  BY <1>1, OneExecutes
<1>5. ASSUME EntriesProposed', ProposedOnce'
      PROVE  RecordInv'
  <2>1. LongestChosen'
    BY <1>1, <1>2, <1>4, <1>5, LongestOn DEF RecordInv
  <2>. QED BY <1>5, <2>1 DEF RecordInv
<1>6. ASSUME NEW l \in Server, NEW c \in Command, Start(l, c)
      PROVE  RecordInv' /\ Log!LogNext
  <2>1. EntriesProposed' /\ ProposedOnce'
    BY <1>1, <1>3, <1>6, StartRecords DEF RecordInv
  <2>2. Log!LogNext
    BY <1>1, <1>3, <1>6, StartProposes
  <2>. QED BY <1>5, <2>1, <2>2
<1>7. ASSUME ~ \E l \in Server : \E c \in Command : Start(l, c)
      PROVE  RecordInv' /\ (Log!LogNext \/ UNCHANGED Log!logVars)
  <2>1. requests' = requests
    BY <1>1, <1>7, RequestsOnly
  <2>2. proposed' = proposed
    BY <1>1, <2>1, ReturnedNothing DEF Recorded
  <2>3. EntriesProposed'
    BY <1>2, <1>7, <2>2, ProposedOn DEF RecordInv
  <2>4. ProposedOnce'
    BY <2>1, <2>2 DEF RecordInv, ProposedOnce
  <2>5. Log!LogNext \/ UNCHANGED Log!logVars
    BY <1>1, <1>2, <1>4, <2>2, <2>3, OthersExecute
  <2>. QED BY <1>5, <2>3, <2>4, <2>5
<1>. QED BY <1>2, <1>6, <1>7

(* Raft is the replicated log the key/value service takes it for: what     *)
(* start() accepts is executed at the index it returned or nowhere, and in *)
(* the same order at every server, through elections, crashes and whatever *)
(* the network does to the messages.                                       *)
THEOREM RaftImplementsLog ==
    ASSUME NoLogFault
    PROVE  RecordedSpec => ImplementsLog
<1>1. Init /\ proposed = {} /\ chosen = << >> => Inv /\ RecordInv /\ Log!LogInit
  BY InitRecord
<1>2. Inv /\ RecordInv /\ [RecordedNext]_recordedVars
        => Inv' /\ RecordInv' /\ [Log!LogNext]_(Log!logVars)
  BY NextRecord
<1>. QED BY <1>1, <1>2, PTL DEF RecordedSpec, ImplementsLog, Log!LogSpec

=============================================================================
