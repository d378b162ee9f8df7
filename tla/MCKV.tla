--------------------------------- MODULE MCKV ---------------------------------
(* Small instances of KV.                                                     *)
EXTENDS KVProperties, TLC

(* Clerks are interchangeable.                                                *)
Symmetry == Permutations(Client)

(* A view that forgets what no step can depend on any more: the identity of   *)
(* entries but for the handler that waits for one, entries that lost their    *)
(* index to another, where requests are when start() accepts nothing more     *)
(* (MaxStarts), since when a clerk that does not read has been waiting, its    *)
(* number when it calls nothing more (MaxOps), and what it was told.          *)
Waiting(e) == {s \in Server : handler[s] # Nil /\ handler[s].id = e.id}
Known(e) == [args |-> e.args, waiting |-> Waiting(e)]
Open == {p \in proposed : p.index > Len(chosen)}
MoreStarts == Cardinality(proposed) < MaxStarts
View == <<[s \in Server |-> Len(executed[s])], [i \in DOMAIN chosen |-> Known(chosen[i])],
          {[index |-> p.index, entry |-> Known(p.entry)] : p \in Open}, Cardinality(proposed),
          store, clientSeqMap,
          [s \in Server |-> IF handler[s] = Nil THEN Nil ELSE [handler[s] EXCEPT !.id = 0]],
          op, ops, crashes,
          [c \in Client |-> IF op[c] # Nil \/ ops < MaxOps THEN seq[c] ELSE 0],
          IF MoreStarts THEN <<strays, peer, try>> ELSE <<>>,
          [c \in Client |-> IF op[c] # Nil /\ op[c].operation = "Get" THEN since[c] ELSE 0]>>

=============================================================================
