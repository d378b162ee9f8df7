-------------------------------- MODULE KVProofs --------------------------------
(* The key/value service of Lab 4 for every number of servers, clerks, keys,     *)
(* operations and crashes: each server's store is the replay of the log it has   *)
(* executed, and the clerks see a linearizable store.                            *)
EXTENDS KVProperties, FiniteSetTheorems, NaturalMinimum, TLAPS

EntryType == [args : ArgsType, id : Nat]
IsWrite(a) == a.operation # "Get"

(* What start() accepted: entries of different numbers.                          *)
Proposals ==
    /\ proposed \subseteq [index : 1 .. MaxStarts, entry : EntryType]
    /\ IsFiniteSet(proposed)
    /\ \A p \in proposed : p.entry.id \in 1 .. Cardinality(proposed)
    /\ \A p, q \in proposed : p.entry.id = q.entry.id => p = q

(* What was chosen was proposed for its index, and executed in order.            *)
LogInv ==
    /\ chosen \in Seq(EntryType)
    /\ Len(chosen) <= MaxStarts
    /\ \A i \in 1 .. Len(chosen) : [index |-> i, entry |-> chosen[i]] \in proposed
    /\ executed \in [Server -> Seq(EntryType)]
    /\ \A s \in Server : /\ Len(executed[s]) <= Len(chosen)
                         /\ \A i \in 1 .. Len(executed[s]) : executed[s][i] = chosen[i]

(* The handler waits for its own entry, and has the answer once it is executed.  *)
HandlerInv ==
    \A s \in Server : handler[s] # Nil =>
       LET h == handler[s] IN
       /\ [index |-> h.idx, entry |-> [args |-> h.args, id |-> h.id]] \in proposed
       /\ h.committedOp # Nil =>
             /\ h.idx <= Len(executed[s])
             /\ chosen[h.idx] = [args |-> h.args, id |-> h.id]
             /\ h.committedOp = IF h.args.operation = "Get"
                                THEN [h.args EXCEPT !.value = Replay[h.idx].store[h.args.key]]
                                ELSE h.args

(* A handler whose answer a clerk waits for is the one of its present try; it    *)
(* cannot be answered from before the operation was called.                      *)
AwaitedInv ==
    \A s \in Server : handler[s] # Nil /\ handler[s].awaited =>
       LET h == handler[s]  c == h.args.client IN
       /\ op[c] = h.args /\ try[c] = "taken" /\ peer[c] = s
       /\ \/ h.idx > since[c]
          \/ h.idx <= Len(chosen) /\ chosen[h.idx].id # h.id

ClerkInv ==
    \A c \in Client :
       /\ since[c] <= Len(chosen)
       /\ op[c] = Nil <=> try[c] = "none"
       /\ op[c] # Nil => op[c].client = c /\ op[c].seq = seq[c]
       /\ seq[c] + (IF op[c] # Nil /\ IsWrite(op[c]) THEN 1 ELSE 0) <= 2 * ops

(* Requests on their way, in handlers and in logs.                               *)
Requests == strays \cup {handler[s].args : s \in {t \in Server : handler[t] # Nil}}
                   \cup {p.entry.args : p \in proposed}

(* Every write that is not the pending one of its clerk has taken effect, and no *)
(* number is in the log before its operation is called.                          *)
WritesDone ==
    /\ \A a \in Requests : IsWrite(a) =>
          a = op[a.client] \/ a.seq <= Latest.last[a.client]
    /\ \A c \in Client : Latest.last[c] <= seq[c]

IInv ==
    /\ TypeOK /\ Proposals /\ LogInv /\ StoreIsReplay
    /\ HandlerInv /\ AwaitedInv /\ ClerkInv /\ WritesDone

----------------------------------------------------------------------------------
(* Replays.                                                                      *)

Start == [store |-> Empty, last |-> NoSeq]
IsReplay(f, q, k) ==
    f = [n \in 0 .. k |-> IF n = 0 THEN Start ELSE After(f[n - 1], q[n].args)]

LEMMA ReplayExists ==
  ASSUME NEW q, NEW len \in Nat
  PROVE  \E f : IsReplay(f, q, len)
<1> DEFINE S == {k \in 0 .. len : \E f : IsReplay(f, q, k)}
<1>1. 0 \in S
  <2>1. IsReplay([n \in 0 .. 0 |-> Start], q, 0)
    BY DEF IsReplay
  <2> QED  BY <2>1
<1>2. ASSUME NEW k \in 0 .. len - 1, k \in S PROVE k + 1 \in S
  <2>1. PICK f : IsReplay(f, q, k)
    BY <1>2
  <2> DEFINE g == [n \in 0 .. k + 1 |-> IF n <= k THEN f[n] ELSE After(f[k], q[k + 1].args)]
  <2>2. \A n \in 0 .. k : f[n] = IF n = 0 THEN Start ELSE After(f[n - 1], q[n].args)
    BY <2>1 DEF IsReplay
  <2>3. \A n \in 0 .. k + 1 : g[n] = IF n = 0 THEN Start ELSE After(g[n - 1], q[n].args)
    <3> SUFFICES ASSUME NEW n \in 0 .. k + 1
                 PROVE  g[n] = IF n = 0 THEN Start ELSE After(g[n - 1], q[n].args)
      OBVIOUS
    <3>1. CASE n <= k
      <4>1. n # 0 => n - 1 \in 0 .. k + 1 /\ n - 1 <= k
        BY <3>1
      <4>2. g[n] = f[n] /\ (n # 0 => g[n - 1] = f[n - 1])
        BY <3>1, <4>1
      <4> QED  BY <2>2, <3>1, <4>2
    <3>2. CASE n = k + 1
      <4>1. g[n] = After(f[k], q[k + 1].args) /\ g[k] = f[k] /\ n # 0 /\ n - 1 = k
        BY <3>2
      <4> QED  BY <3>2, <4>1
    <3> QED  BY <3>1, <3>2
  <2>4. IsReplay(g, q, k + 1)
    <3>1. g = [n \in 0 .. k + 1 |-> g[n]]
      OBVIOUS
    <3> HIDE DEF g
    <3> QED  BY <2>3, <3>1 DEF IsReplay
  <2> HIDE DEF g
  <2> QED  BY <2>4
<1> HIDE DEF S
<1>3. 0 .. len \subseteq S
  BY <1>1, <1>2, IntervalInduction
<1> QED
  BY <1>3 DEF S

(* What the recursive definition says.                                           *)
LEMMA ReplayDef ==
  ASSUME NEW E, NEW q \in Seq(E)
  PROVE  /\ ReplayOf(q)[0] = Start
         /\ \A n \in 1 .. Len(q) : ReplayOf(q)[n] = After(ReplayOf(q)[n - 1], q[n].args)
<1>1. Len(q) \in Nat
  OBVIOUS
<1>2. \E f : IsReplay(f, q, Len(q))
  BY <1>1, ReplayExists
<1>3. IsReplay(ReplayOf(q), q, Len(q))
  <2>1. ReplayOf(q) = CHOOSE f : IsReplay(f, q, Len(q))
    BY DEF ReplayOf, IsReplay, Start
  <2> QED  BY <1>2, <2>1
<1> QED
  BY <1>1, <1>3 DEF IsReplay

(* A replay depends on the entries replayed only.                                *)
LEMMA ReplayPrefix ==
  ASSUME NEW E, NEW q \in Seq(E), NEW r \in Seq(E),
         Len(q) <= Len(r), \A i \in 1 .. Len(q) : q[i] = r[i]
  PROVE  \A n \in 0 .. Len(q) : ReplayOf(r)[n] = ReplayOf(q)[n]
<1> DEFINE S == {n \in 0 .. Len(q) : ReplayOf(r)[n] = ReplayOf(q)[n]}
<1>1. Len(q) \in Nat /\ Len(r) \in Nat
  OBVIOUS
<1>2. 0 \in S
  BY <1>1, ReplayDef
<1>3. ASSUME NEW n \in 0 .. Len(q) - 1, n \in S PROVE n + 1 \in S
  <2>1. n + 1 \in 1 .. Len(q) /\ n + 1 \in 1 .. Len(r) /\ (n + 1) - 1 = n
    BY <1>1
  <2>2. ReplayOf(q)[n + 1] = After(ReplayOf(q)[n], q[n + 1].args)
    BY <2>1, ReplayDef
  <2>3. ReplayOf(r)[n + 1] = After(ReplayOf(r)[n], r[n + 1].args)
    BY <2>1, ReplayDef
  <2> QED  BY <1>3, <2>1, <2>2, <2>3
<1> HIDE DEF S
<1>4. 0 .. Len(q) \subseteq S
  BY <1>1, <1>2, <1>3, IntervalInduction
<1> QED
  BY <1>4 DEF S

StateType == [store : [Key -> Seq(Client)], last : [Client -> Nat]]

(* What an operation does to the store and the numbers.                          *)
LEMMA AfterFacts ==
  ASSUME NEW r \in StateType, NEW a \in ArgsType
  PROVE  /\ After(r, a) \in StateType
         /\ \A c \in Client : r.last[c] <= After(r, a).last[c]
         /\ IsWrite(a) => a.seq <= After(r, a).last[a.client]
         /\ a.operation = "Get" \/ a.seq <= r.last[a.client] => After(r, a) = r
         /\ \A c \in Client : c # a.client => After(r, a).last[c] = r.last[c]
         /\ \A k \in Key : k # a.key => After(r, a).store[k] = r.store[k]
<1>1. r.store \in [Key -> Seq(Client)] /\ r.last \in [Client -> Nat]
  BY DEF StateType
<1>2. a.key \in Key /\ a.client \in Client /\ a.value \in Seq(Client) /\ a.seq \in Nat
  BY DEF ArgsType
<1>3. CASE a.operation = "Get" \/ a.seq <= r.last[a.client]
  BY <1>1, <1>2, <1>3 DEF After, IsWrite
<1>4. CASE ~(a.operation = "Get" \/ a.seq <= r.last[a.client])
  <2> DEFINE v == IF a.operation = "Put" THEN a.value ELSE r.store[a.key] \o a.value
  <2>1. After(r, a) = [store |-> [r.store EXCEPT ![a.key] = v], last |-> [r.last EXCEPT ![a.client] = a.seq]]
    BY <1>4 DEF After
  <2>2. v \in Seq(Client)
    BY <1>1, <1>2
  <2> HIDE DEF v
  <2> QED  BY <1>1, <1>2, <1>4, <2>1, <2>2 DEF StateType
<1> QED
  BY <1>3, <1>4

LEMMA ReplayType ==
  ASSUME NEW q \in Seq(EntryType)
  PROVE  \A n \in 0 .. Len(q) : ReplayOf(q)[n] \in StateType
<1> DEFINE S == {n \in 0 .. Len(q) : ReplayOf(q)[n] \in StateType}
<1>1. Len(q) \in Nat
  OBVIOUS
<1>2. 0 \in S
  <2>1. Start \in StateType
    BY DEF Start, StateType, Empty, NoSeq
  <2> QED  BY <1>1, <2>1, ReplayDef
<1>3. ASSUME NEW n \in 0 .. Len(q) - 1, n \in S PROVE n + 1 \in S
  <2>1. n + 1 \in 1 .. Len(q) /\ (n + 1) - 1 = n
    BY <1>1
  <2>2. ReplayOf(q)[n + 1] = After(ReplayOf(q)[n], q[n + 1].args)
    BY <2>1, ReplayDef
  <2>3. q[n + 1] \in EntryType
    BY <2>1
  <2>4. q[n + 1].args \in ArgsType
    BY <2>3 DEF EntryType
  <2> QED  BY <1>3, <2>1, <2>2, <2>4, AfterFacts
<1> HIDE DEF S
<1>4. 0 .. Len(q) \subseteq S
  BY <1>1, <1>2, <1>3, IntervalInduction
<1> QED
  BY <1>4 DEF S

(* The numbers only grow.                                                        *)
LEMMA ReplayMonotone ==
  ASSUME NEW q \in Seq(EntryType), NEW m \in 0 .. Len(q), NEW c \in Client
  PROVE  \A n \in m .. Len(q) : ReplayOf(q)[m].last[c] <= ReplayOf(q)[n].last[c]
<1> DEFINE S == {n \in m .. Len(q) : ReplayOf(q)[m].last[c] <= ReplayOf(q)[n].last[c]}
<1>1. Len(q) \in Nat /\ m \in Nat
  OBVIOUS
<1>2. \A n \in 0 .. Len(q) : ReplayOf(q)[n].last[c] \in Nat
  BY ReplayType DEF StateType
<1>3. m \in S
  BY <1>1, <1>2
<1>4. ASSUME NEW n \in m .. Len(q) - 1, n \in S PROVE n + 1 \in S
  <2>1. n + 1 \in 1 .. Len(q) /\ (n + 1) - 1 = n /\ n \in 0 .. Len(q) /\ n + 1 \in m .. Len(q)
    BY <1>1
  <2>2. ReplayOf(q)[n + 1] = After(ReplayOf(q)[n], q[n + 1].args)
    BY <2>1, ReplayDef
  <2>3. q[n + 1].args \in ArgsType /\ ReplayOf(q)[n] \in StateType
    <3>1. q[n + 1] \in EntryType
      BY <2>1
    <3> QED  BY <2>1, <3>1, ReplayType DEF EntryType
  <2>4. ReplayOf(q)[n].last[c] <= ReplayOf(q)[n + 1].last[c]
    BY <2>2, <2>3, AfterFacts
  <2> QED  BY <1>2, <1>4, <2>1, <2>4
<1> HIDE DEF S
<1>5. m .. Len(q) \subseteq S
  BY <1>1, <1>3, <1>4, IntervalInduction
<1> QED
  BY <1>5 DEF S

----------------------------------------------------------------------------------
(* What the invariant says of the values around.                                 *)

LEMMA StateFacts ==
  ASSUME IInv
  PROVE  /\ Len(chosen) \in Nat
         /\ chosen \in Seq(EntryType)
         /\ \A n \in 0 .. Len(chosen) : Replay[n] \in StateType
         /\ Latest \in StateType
         /\ \A m \in 0 .. Len(chosen), c \in Client : Replay[m].last[c] <= Latest.last[c]
         /\ \A i \in 1 .. Len(chosen) : Replay[i] = After(Replay[i - 1], chosen[i].args)
<1>1. chosen \in Seq(EntryType)
  BY DEF IInv, LogInv
<1>2. Len(chosen) \in Nat
  BY <1>1
<1> QED
  BY <1>1, <1>2, ReplayType, ReplayMonotone, ReplayDef DEF Replay, Latest

LEMMA HandlerFacts ==
  ASSUME TypeOK, NEW s \in Server, handler[s] # Nil
  PROVE  /\ handler[s] \in HandlerType
         /\ handler[s].args \in ArgsType
         /\ handler[s].args # Nil
         /\ handler[s].args.client \in Client
         /\ handler[s].idx \in 1 .. MaxStarts
         /\ handler[s].committedOp \in ArgsType \cup {Nil}
<1>1. handler[s] \in HandlerType
  BY DEF TypeOK
<1>2. handler[s].args \in ArgsType
  BY <1>1 DEF HandlerType
<1> QED
  BY <1>1, <1>2, NilAssumption DEF HandlerType, ArgsType

LEMMA RequestFacts ==
  ASSUME TypeOK, Proposals
  PROVE  Requests \subseteq ArgsType
<1>1. \A p \in proposed : p.entry.args \in ArgsType
  BY DEF Proposals, EntryType
<1>2. strays \subseteq ArgsType
  BY DEF TypeOK
<1> QED
  BY <1>1, <1>2, HandlerFacts DEF Requests

LEMMA ClerkFacts ==
  ASSUME TypeOK, ClerkInv, NEW c \in Client
  PROVE  /\ op[c] \in ArgsType \cup {Nil}
         /\ seq[c] \in Nat /\ ops \in Nat /\ MaxOps \in Nat
         /\ op[c] # Nil => op[c] \in ArgsType /\ op[c].client = c /\ op[c].seq = seq[c]
  BY BoundAssumption DEF TypeOK, ClerkInv

LEMMA InitHolds == Init => IInv
<1> SUFFICES ASSUME Init PROVE IInv
  OBVIOUS
<1>1. TypeOK
  <2>1. nums \in Nat /\ 0 \in Server
    BY ServerAssumption
  <2>2. \A n \in Nat : 0 \in 0 .. n
    OBVIOUS
  <2>3. 0 \in 0 .. 2 * MaxOps /\ 0 \in 0 .. MaxOps /\ 0 \in 0 .. MaxStarts /\ 0 \in 0 .. MaxCrashes
    BY BoundAssumption
  <2> QED  BY <2>1, <2>3 DEF Init, TypeOK, Empty, NoSeq
<1>2. Proposals
  BY FS_EmptySet DEF Init, LogInit, Proposals
<1>3. LogInv
  BY BoundAssumption DEF Init, LogInit, LogInv
<1>4. Len(chosen) = 0 /\ Replay[0] = Start
  <2>1. chosen = <<>> /\ chosen \in Seq(EntryType)
    BY DEF Init, LogInit
  <2> QED  BY <2>1, ReplayDef DEF Replay
<1>5. StoreIsReplay
  <2>1. ASSUME NEW s \in Server PROVE executed[s] = <<>> /\ Len(executed[s]) = 0
    BY DEF Init, LogInit
  <2>2. ASSUME NEW s \in Server PROVE store[s] = Start.store /\ clientSeqMap[s] = Start.last
    BY DEF Init, Start
  <2> QED  BY <1>4, <2>1, <2>2 DEF StoreIsReplay
<1>6. HandlerInv /\ AwaitedInv
  BY DEF Init, HandlerInv, AwaitedInv
<1>7. ClerkInv
  BY <1>4 DEF Init, ClerkInv
<1>8. WritesDone
  <2>1. Requests = {}
    BY DEF Init, LogInit, Requests
  <2>2. Latest.last = NoSeq
    BY <1>4 DEF Latest, Start
  <2> QED  BY <2>1, <2>2 DEF Init, WritesDone, NoSeq
<1> QED
  BY <1>1, <1>2, <1>3, <1>5, <1>6, <1>7, <1>8 DEF IInv

----------------------------------------------------------------------------------
(* One lemma for each action.                                                    *)

(* Nothing of the log and of the servers' state machines changes.                *)
LEMMA LogFrame ==
  ASSUME IInv, UNCHANGED <<logVars, store, clientSeqMap>>
  PROVE  Proposals' /\ LogInv' /\ StoreIsReplay' /\ Replay' = Replay /\ Latest' = Latest
<1>1. UNCHANGED <<proposed, chosen, executed>>
  BY DEF logVars
<1>2. Replay' = Replay /\ Latest' = Latest
  BY <1>1 DEF Replay, Latest
<1>3. Proposals'
  BY <1>1 DEF IInv, Proposals
<1>4. LogInv'
  BY <1>1 DEF IInv, LogInv
<1>5. StoreIsReplay'
  BY <1>1, <1>2 DEF IInv, StoreIsReplay
<1> QED
  BY <1>2, <1>3, <1>4, <1>5

LEMMA CallStep ==
  ASSUME IInv, NEW c \in Client, Call(c)
  PROVE  IInv'
<1>1. PICK operation \in Operation, key \in Key :
         /\ seq' = [seq EXCEPT ![c] = NewSeq(c, operation)]
         /\ op' = [op EXCEPT ![c] = Args(c, operation, key, seq'[c])]
  BY DEF Call
<1> DEFINE a == Args(c, operation, key, seq'[c])
<1>2. /\ op[c] = Nil /\ ops < MaxOps /\ ops' = ops + 1
      /\ try' = [try EXCEPT ![c] = "sent"]
      /\ since' = [since EXCEPT ![c] = Len(chosen)]
      /\ UNCHANGED <<logVars, store, clientSeqMap, handler, peer, returned, strays, crashes>>
  BY DEF Call, serverVars
<1>3. TypeOK /\ ClerkInv /\ AwaitedInv /\ WritesDone /\ HandlerInv /\ LogInv /\ Proposals
  BY DEF IInv
<1>4. Proposals' /\ LogInv' /\ StoreIsReplay' /\ Replay' = Replay /\ Latest' = Latest
  BY <1>2, LogFrame
<1>5. UNCHANGED <<proposed, chosen, executed>>
  BY <1>2 DEF logVars
<1>6. /\ seq[c] \in Nat /\ ops \in Nat /\ MaxOps \in Nat /\ seq[c] <= 2 * ops
      /\ seq' = [seq EXCEPT ![c] = seq'[c]] /\ seq'[c] \in {seq[c], seq[c] + 1}
  BY <1>1, <1>2, <1>3, ClerkFacts DEF ClerkInv, NewSeq, TypeOK
<1>7. a \in ArgsType /\ a.client = c /\ a.seq = seq'[c]
  <2>1. operation \in {"Get", "Put", "Append"}
    BY OperationAssumption
  <2>2. seq'[c] \in Nat
    BY <1>6
  <2>3. (IF operation = "Get" THEN <<>> ELSE <<c>>) \in Seq(Client)
    OBVIOUS
  <2> QED  BY <2>1, <2>2, <2>3 DEF Args, ArgsType
<1>8. op' = [op EXCEPT ![c] = a] /\ a # Nil
  BY <1>1, <1>7, NilAssumption
<1> HIDE DEF a
<1>9. TypeOK'
  <2>1. seq' \in [Client -> 0 .. 2 * MaxOps]
    <3>1. seq \in [Client -> 0 .. 2 * MaxOps]
      BY <1>3 DEF TypeOK
    <3>2. seq'[c] \in 0 .. 2 * MaxOps
      BY <1>2, <1>6
    <3> QED  BY <1>6, <3>1, <3>2
  <2>2. op' \in [Client -> ArgsType \cup {Nil}]
    BY <1>3, <1>7, <1>8 DEF TypeOK
  <2>3. try' \in [Client -> {"none", "sent", "taken"}]
    BY <1>2, <1>3 DEF TypeOK
  <2>4. ops' \in 0 .. MaxOps
    BY <1>2, <1>6
  <2>5. since' \in [Client -> 0 .. MaxStarts]
    <3>1. Len(chosen) \in 0 .. MaxStarts
      BY <1>3, StateFacts, BoundAssumption DEF LogInv
    <3> QED  BY <1>2, <1>3, <3>1 DEF TypeOK
  <2> QED  BY <1>2, <1>3, <2>1, <2>2, <2>3, <2>4, <2>5 DEF TypeOK
<1>10. HandlerInv'
  BY <1>2, <1>3, <1>4, <1>5 DEF HandlerInv
<1>11. AwaitedInv'
  <2> SUFFICES ASSUME NEW s \in Server, handler[s] # Nil, handler[s].awaited
               PROVE  LET h == handler[s]  d == h.args.client IN
                      /\ op'[d] = h.args /\ try'[d] = "taken" /\ peer[d] = s
                      /\ \/ h.idx > since'[d]
                         \/ h.idx <= Len(chosen) /\ chosen[h.idx].id # h.id
    BY <1>2, <1>5 DEF AwaitedInv
  <2>1. handler[s].args # Nil /\ handler[s].args.client \in Client
    BY <1>3, HandlerFacts
  <2>2. handler[s].args.client # c
    BY <1>2, <1>3, <2>1 DEF AwaitedInv
  <2> QED  BY <1>2, <1>3, <1>8, <2>1, <2>2 DEF AwaitedInv, TypeOK
<1>12. ClerkInv'
  <2> SUFFICES ASSUME NEW d \in Client
               PROVE  /\ since'[d] <= Len(chosen)
                      /\ op'[d] = Nil <=> try'[d] = "none"
                      /\ op'[d] # Nil => op'[d].client = d /\ op'[d].seq = seq'[d]
                      /\ seq'[d] + (IF op'[d] # Nil /\ IsWrite(op'[d]) THEN 1 ELSE 0) <= 2 * ops'
    BY <1>5 DEF ClerkInv
  <2>1. /\ since[d] <= Len(chosen) /\ (op[d] = Nil <=> try[d] = "none")
        /\ op[d] # Nil => op[d].client = d /\ op[d].seq = seq[d]
        /\ seq[d] + (IF op[d] # Nil /\ IsWrite(op[d]) THEN 1 ELSE 0) <= 2 * ops
    BY <1>3 DEF ClerkInv
  <2>2. seq[d] \in Nat
    BY <1>3, ClerkFacts
  <2>3. CASE d = c
    <3>1. since'[d] = Len(chosen) /\ op'[d] = a /\ try'[d] = "sent"
      BY <1>2, <1>3, <1>8, <2>3 DEF TypeOK
    <3>2. seq'[d] + 1 <= 2 * ops'
      BY <1>2, <1>6, <2>3
    <3>3. seq'[d] + (IF op'[d] # Nil /\ IsWrite(op'[d]) THEN 1 ELSE 0) <= 2 * ops'
      <4>1. (IF op'[d] # Nil /\ IsWrite(op'[d]) THEN 1 ELSE 0) \in 0 .. 1
        OBVIOUS
      <4>2. seq'[d] \in Nat /\ 2 * ops' \in Nat
        BY <1>2, <1>6, <2>3
      <4> QED  BY <3>2, <4>1, <4>2
    <3> QED  BY <1>7, <1>8, <2>3, <3>1, <3>3, StateFacts
  <2>4. CASE d # c
    <3>1. since'[d] = since[d] /\ op'[d] = op[d] /\ try'[d] = try[d] /\ seq'[d] = seq[d]
      BY <1>2, <1>3, <1>6, <1>8, <2>4 DEF TypeOK
    <3>2. seq[d] + (IF op[d] # Nil /\ IsWrite(op[d]) THEN 1 ELSE 0) <= 2 * ops'
      BY <1>2, <1>6, <2>1, <2>2
    <3> QED  BY <2>1, <3>1, <3>2
  <2> QED  BY <2>3, <2>4
<1>13. WritesDone'
  <2>1. Requests' = Requests
    BY <1>2, <1>5 DEF Requests
  <2>2. ASSUME NEW b \in Requests, IsWrite(b)
        PROVE  b = op'[b.client] \/ b.seq <= Latest.last[b.client]
    <3>1. b \in ArgsType /\ b # Nil /\ b.client \in Client
      BY <1>3, RequestFacts, NilAssumption DEF ArgsType
    <3>2. b = op[b.client] \/ b.seq <= Latest.last[b.client]
      BY <1>3, <2>2 DEF WritesDone
    <3>3. b.client # c => op'[b.client] = op[b.client]
      BY <1>3, <1>8, <3>1 DEF TypeOK
    <3> QED  BY <1>2, <3>1, <3>2, <3>3
  <2>3. ASSUME NEW d \in Client PROVE Latest.last[d] <= seq'[d]
    <3>1. Latest.last[d] <= seq[d] /\ seq[d] \in Nat /\ Latest.last[d] \in Nat
      BY <1>3, ClerkFacts, StateFacts DEF WritesDone, StateType
    <3>2. seq'[d] \in {seq[d], seq[d] + 1}
      BY <1>3, <1>6 DEF TypeOK
    <3> QED  BY <3>1, <3>2
  <2> QED  BY <1>4, <2>1, <2>2, <2>3 DEF WritesDone
<1> QED
  BY <1>4, <1>9, <1>10, <1>11, <1>12, <1>13 DEF IInv

LEMMA TryNextStep ==
  ASSUME IInv, NEW c \in Client, TryNext(c)
  PROVE  IInv'
<1>1. /\ op[c] # Nil
      /\ peer' = [peer EXCEPT ![c] = (@ + 1) % nums]
      /\ try' = [try EXCEPT ![c] = "sent"]
      /\ strays' = strays \cup {op[c]}
      /\ handler' = [s \in Server |->
                        IF handler[s] # Nil /\ handler[s].args.client = c
                        THEN [handler[s] EXCEPT !.awaited = FALSE] ELSE handler[s]]
      /\ UNCHANGED <<logVars, store, clientSeqMap, op, seq, returned, since, ops, crashes>>
  BY DEF TryNext
<1>2. TypeOK /\ ClerkInv /\ AwaitedInv /\ WritesDone /\ HandlerInv
  BY DEF IInv
<1>3. Proposals' /\ LogInv' /\ StoreIsReplay' /\ Replay' = Replay /\ Latest' = Latest
  BY <1>1, LogFrame
<1>4. UNCHANGED <<proposed, chosen, executed>>
  BY <1>1 DEF logVars
<1>5. op[c] \in ArgsType /\ op[c].client = c
  BY <1>1, <1>2, ClerkFacts
<1>6. ASSUME NEW s \in Server, handler'[s] # Nil
      PROVE  /\ handler[s] # Nil
             /\ \/ handler'[s] = handler[s] /\ handler[s].args.client # c
                \/ handler'[s] = [handler[s] EXCEPT !.awaited = FALSE]
  BY <1>1, <1>6
<1>7. ASSUME NEW h \in HandlerType
      PROVE  LET g == [h EXCEPT !.awaited = FALSE] IN
             /\ g \in HandlerType /\ ~g.awaited
             /\ g.args = h.args /\ g.idx = h.idx /\ g.id = h.id /\ g.committedOp = h.committedOp
  BY DEF HandlerType
<1>8. ASSUME NEW s \in Server, handler'[s] # Nil
      PROVE  /\ handler[s] # Nil /\ handler'[s] \in HandlerType
             /\ handler'[s].args = handler[s].args /\ handler'[s].idx = handler[s].idx
             /\ handler'[s].id = handler[s].id
             /\ handler'[s].committedOp = handler[s].committedOp
             /\ handler'[s].awaited => handler'[s] = handler[s] /\ handler[s].args.client # c
  <2>1. handler[s] # Nil /\ handler[s] \in HandlerType
    BY <1>2, <1>6, <1>8, HandlerFacts
  <2>2. CASE handler'[s] = handler[s] /\ handler[s].args.client # c
    BY <2>1, <2>2
  <2>3. CASE handler'[s] = [handler[s] EXCEPT !.awaited = FALSE]
    BY <1>7, <2>1, <2>3
  <2> QED  BY <1>6, <1>8, <2>2, <2>3
<1>9. TypeOK'
  <2>1. peer' \in [Client -> Server]
    <3>1. ASSUME NEW i \in Server PROVE (i + 1) % nums \in Server
      BY ServerAssumption
    <3> QED  BY <1>1, <1>2, <3>1 DEF TypeOK
  <2>2. try' \in [Client -> {"none", "sent", "taken"}]
    BY <1>1, <1>2 DEF TypeOK
  <2>3. handler' \in [Server -> HandlerType \cup {Nil}]
    <3>1. handler' = [s \in Server |-> handler'[s]]
      BY <1>1
    <3> QED  BY <1>8, <3>1
  <2>4. strays' \subseteq ArgsType
    BY <1>1, <1>2, <1>5 DEF TypeOK
  <2> QED  BY <1>1, <1>2, <2>1, <2>2, <2>3, <2>4 DEF TypeOK
<1>10. HandlerInv'
  BY <1>2, <1>3, <1>4, <1>8 DEF HandlerInv
<1>11. AwaitedInv'
  <2> SUFFICES ASSUME NEW s \in Server, handler'[s] # Nil, handler'[s].awaited
               PROVE  LET h == handler'[s]  d == h.args.client IN
                      /\ op'[d] = h.args /\ try'[d] = "taken" /\ peer'[d] = s
                      /\ \/ h.idx > since'[d]
                         \/ h.idx <= Len(chosen') /\ chosen'[h.idx].id # h.id
    BY DEF AwaitedInv
  <2>1. handler'[s] = handler[s] /\ handler[s] # Nil /\ handler[s].args.client # c
    BY <1>8
  <2>2. handler[s].args.client \in Client
    BY <1>2, <2>1, HandlerFacts
  <2>3. /\ try'[handler[s].args.client] = try[handler[s].args.client]
        /\ peer'[handler[s].args.client] = peer[handler[s].args.client]
    BY <1>1, <1>2, <2>1, <2>2 DEF TypeOK
  <2> QED  BY <1>1, <1>2, <1>4, <2>1, <2>3 DEF AwaitedInv
<1>12. ClerkInv'
  <2>1. \A d \in Client : op[d] = Nil <=> try'[d] = "none"
    BY <1>1, <1>2 DEF TypeOK, ClerkInv
  <2> QED  BY <1>1, <1>2, <1>4, <2>1 DEF ClerkInv
<1>13. WritesDone'
  <2>1. Requests' \subseteq Requests \cup {op[c]}
    BY <1>1, <1>4, <1>8 DEF Requests
  <2> QED  BY <1>1, <1>2, <1>3, <1>5, <2>1 DEF WritesDone
<1> QED
  BY <1>3, <1>9, <1>10, <1>11, <1>12, <1>13 DEF IInv

(* A server's handler goes away and nobody is told.                              *)
LEMMA TimeOutStep ==
  ASSUME IInv, NEW s \in Server, TimeOut(s)
  PROVE  IInv'
<1>1. /\ handler' = [handler EXCEPT ![s] = Nil]
      /\ UNCHANGED <<logVars, store, clientSeqMap, clerkVars, strays, crashes>>
  BY DEF TimeOut
<1>2. TypeOK /\ ClerkInv /\ AwaitedInv /\ WritesDone /\ HandlerInv
  BY DEF IInv
<1>3. Proposals' /\ LogInv' /\ StoreIsReplay' /\ Replay' = Replay /\ Latest' = Latest
  BY <1>1, LogFrame
<1>4. /\ UNCHANGED <<proposed, chosen, executed>>
      /\ UNCHANGED <<op, seq, peer, try, returned, since, ops>>
  BY <1>1 DEF logVars, clerkVars
<1>5. \A t \in Server : handler'[t] # Nil => handler'[t] = handler[t] /\ handler[t] # Nil
  BY <1>1, <1>2 DEF TypeOK
<1>6. TypeOK'
  BY <1>1, <1>2, <1>4 DEF TypeOK
<1>7. HandlerInv'
  BY <1>2, <1>3, <1>4, <1>5 DEF HandlerInv
<1>8. AwaitedInv'
  BY <1>2, <1>4, <1>5 DEF AwaitedInv
<1>9. ClerkInv'
  BY <1>2, <1>4 DEF ClerkInv
<1>10. WritesDone'
  <2>1. Requests' \subseteq Requests
    BY <1>1, <1>4, <1>5 DEF Requests
  <2> QED  BY <1>2, <1>3, <1>4, <2>1 DEF WritesDone
<1> QED
  BY <1>3, <1>6, <1>7, <1>8, <1>9, <1>10 DEF IInv

LEMMA CrashStep ==
  ASSUME IInv, NEW s \in Server, Crash(s)
  PROVE  IInv'
<1>1. /\ handler' = [handler EXCEPT ![s] = Nil]
      /\ executed' = [executed EXCEPT ![s] = <<>>]
      /\ store' = [store EXCEPT ![s] = Empty]
      /\ clientSeqMap' = [clientSeqMap EXCEPT ![s] = NoSeq]
      /\ crashes < MaxCrashes /\ crashes' = crashes + 1
      /\ UNCHANGED <<proposed, chosen, strays>>
      /\ UNCHANGED <<op, seq, peer, try, returned, since, ops>>
  BY DEF Crash, Restart, clerkVars
<1>2. TypeOK /\ ClerkInv /\ AwaitedInv /\ WritesDone /\ HandlerInv /\ LogInv /\ Proposals /\ StoreIsReplay
  BY DEF IInv
<1>3. Replay' = Replay /\ Latest' = Latest
  BY <1>1 DEF Replay, Latest
<1>4. /\ executed'[s] = <<>> /\ Len(executed'[s]) = 0
      /\ \A t \in Server \ {s} : executed'[t] = executed[t]
  BY <1>1, <1>2 DEF LogInv
<1>5. \A t \in Server : handler'[t] # Nil => handler'[t] = handler[t] /\ handler[t] # Nil /\ t # s
  BY <1>1, <1>2 DEF TypeOK
<1>6. TypeOK'
  <2>1. store' \in [Server -> [Key -> Seq(Client)]]
    BY <1>1, <1>2 DEF TypeOK, Empty
  <2>2. clientSeqMap' \in [Server -> [Client -> Nat]]
    BY <1>1, <1>2 DEF TypeOK, NoSeq
  <2>3. crashes' \in 0 .. MaxCrashes
    BY <1>1, <1>2, BoundAssumption DEF TypeOK
  <2> QED  BY <1>1, <1>2, <2>1, <2>2, <2>3 DEF TypeOK
<1>7. Proposals'
  BY <1>1, <1>2 DEF Proposals
<1>8. LogInv'
  <2>1. executed' \in [Server -> Seq(EntryType)]
    BY <1>1, <1>2 DEF LogInv
  <2>2. ASSUME NEW t \in Server
        PROVE  /\ Len(executed'[t]) <= Len(chosen)
               /\ \A i \in 1 .. Len(executed'[t]) : executed'[t][i] = chosen[i]
    <3>1. CASE t = s
      BY <1>4, <3>1, StateFacts
    <3>2. CASE t # s
      BY <1>2, <1>4, <3>2 DEF LogInv
    <3> QED  BY <3>1, <3>2
  <2> QED  BY <1>1, <1>2, <2>1, <2>2 DEF LogInv
<1>9. StoreIsReplay'
  <2>1. Replay[0] = Start /\ Start.store = Empty /\ Start.last = NoSeq
    BY StateFacts, ReplayDef DEF Replay, Start
  <2>2. ASSUME NEW t \in Server
        PROVE  /\ store'[t] = Replay[Len(executed'[t])].store
               /\ clientSeqMap'[t] = Replay[Len(executed'[t])].last
    <3>1. CASE t = s
      BY <1>1, <1>2, <1>4, <2>1, <3>1 DEF TypeOK
    <3>2. CASE t # s
      BY <1>1, <1>2, <1>4, <3>2 DEF TypeOK, StoreIsReplay
    <3> QED  BY <3>1, <3>2
  <2> QED  BY <1>3, <2>2 DEF StoreIsReplay
<1>10. HandlerInv'
  BY <1>1, <1>2, <1>3, <1>4, <1>5 DEF HandlerInv
<1>11. AwaitedInv'
  BY <1>1, <1>2, <1>5 DEF AwaitedInv
<1>12. ClerkInv'
  BY <1>1, <1>2 DEF ClerkInv
<1>13. WritesDone'
  <2>1. Requests' \subseteq Requests
    BY <1>1, <1>5 DEF Requests
  <2> QED  BY <1>1, <1>2, <1>3, <2>1 DEF WritesDone
<1> QED
  BY <1>6, <1>7, <1>8, <1>9, <1>10, <1>11, <1>12, <1>13 DEF IInv

(* A clerk's operation returns: for a write, once it is in the log.              *)
LEMMA ReturnToFacts ==
  ASSUME IInv, NEW c \in Client, NEW v \in Seq(Client) \cup {Nil}, ReturnTo(c, v), op[c] # Nil,
         UNCHANGED chosen,
         IsWrite(op[c]) => op[c].seq <= Latest.last[c]
  PROVE  /\ op' \in [Client -> ArgsType \cup {Nil}]
         /\ seq' \in [Client -> 0 .. 2 * MaxOps]
         /\ try' \in [Client -> {"none", "sent", "taken"}]
         /\ returned' \in [Client -> Seq(Client) \cup {Nil}]
         /\ UNCHANGED <<peer, since, ops>>
         /\ \A d \in Client \ {c} : op'[d] = op[d] /\ try'[d] = try[d]
         /\ op'[c] = Nil
         /\ ClerkInv'
         /\ \A a \in ArgsType : IsWrite(a) /\ (a = op[a.client] \/ a.seq <= Latest.last[a.client])
               => a = op'[a.client] \/ a.seq <= Latest.last[a.client]
         /\ \A d \in Client : Latest.last[d] <= seq'[d]
<1>1. /\ returned' = [returned EXCEPT ![c] = v]
      /\ seq' = [seq EXCEPT ![c] = IF op[c].operation = "Get" THEN @ ELSE @ + 1]
      /\ op' = [op EXCEPT ![c] = Nil]
      /\ try' = [try EXCEPT ![c] = "none"]
      /\ UNCHANGED <<peer, since, ops>>
  BY DEF ReturnTo
<1>2. TypeOK /\ ClerkInv /\ WritesDone
  BY DEF IInv
<1>3. op[c] \in ArgsType /\ op[c].client = c
  BY <1>2, ClerkFacts
<1>4. /\ op' \in [Client -> ArgsType \cup {Nil}]
      /\ try' \in [Client -> {"none", "sent", "taken"}]
      /\ returned' \in [Client -> Seq(Client) \cup {Nil}]
      /\ op'[c] = Nil /\ try'[c] = "none"
      /\ \A d \in Client \ {c} : op'[d] = op[d] /\ try'[d] = try[d] /\ seq'[d] = seq[d]
  BY <1>1, <1>2 DEF TypeOK
<1>5. /\ seq[c] \in Nat /\ ops \in 0 .. MaxOps /\ seq'[c] \in Nat /\ MaxOps \in Nat
      /\ seq[c] <= seq'[c] /\ seq'[c] <= 2 * ops
      /\ seq' = [seq EXCEPT ![c] = seq'[c]]
  <2>1. seq[c] \in Nat /\ ops \in 0 .. MaxOps /\ MaxOps \in Nat
    BY <1>2, ClerkFacts DEF TypeOK
  <2>2. seq' = [seq EXCEPT ![c] = seq'[c]]
        /\ seq'[c] = IF op[c].operation = "Get" THEN seq[c] ELSE seq[c] + 1
    BY <1>1, <1>2 DEF TypeOK
  <2>3. seq[c] + (IF op[c].operation # "Get" THEN 1 ELSE 0) <= 2 * ops
    BY <1>2 DEF ClerkInv, IsWrite
  <2> QED  BY <2>1, <2>2, <2>3
<1>6. seq' \in [Client -> 0 .. 2 * MaxOps]
  <2>1. seq'[c] \in 0 .. 2 * MaxOps
    BY <1>5
  <2>2. seq \in [Client -> 0 .. 2 * MaxOps]
    BY <1>2 DEF TypeOK
  <2> QED  BY <1>5, <2>1, <2>2
<1>7. ClerkInv'
  <2> SUFFICES ASSUME NEW d \in Client
               PROVE  /\ since[d] <= Len(chosen)
                      /\ op'[d] = Nil <=> try'[d] = "none"
                      /\ op'[d] # Nil => op'[d].client = d /\ op'[d].seq = seq'[d]
                      /\ seq'[d] + (IF op'[d] # Nil /\ IsWrite(op'[d]) THEN 1 ELSE 0) <= 2 * ops
    BY <1>1 DEF ClerkInv
  <2>1. CASE d = c
    <3>1. seq'[c] + 0 <= 2 * ops
      BY <1>5
    <3> QED  BY <1>2, <1>4, <2>1, <3>1 DEF ClerkInv
  <2>2. CASE d # c
    BY <1>2, <1>4, <2>2 DEF ClerkInv
  <2> QED  BY <2>1, <2>2
<1>8. ASSUME NEW a \in ArgsType, IsWrite(a), a = op[a.client] \/ a.seq <= Latest.last[a.client]
      PROVE  a = op'[a.client] \/ a.seq <= Latest.last[a.client]
  <2>1. a.client \in Client
    BY DEF ArgsType
  <2>2. CASE a.client = c /\ a = op[c]
    BY <1>8, <2>2
  <2>3. CASE a.client # c
    BY <1>4, <1>8, <2>1, <2>3
  <2> QED  BY <1>8, <2>2, <2>3
<1>9. ASSUME NEW d \in Client PROVE Latest.last[d] <= seq'[d]
  <2>1. Latest.last[d] \in Nat /\ seq[d] \in Nat /\ Latest.last[d] <= seq[d]
    BY <1>2, ClerkFacts, StateFacts DEF StateType, WritesDone
  <2>2. seq'[d] \in Nat /\ seq[d] <= seq'[d]
    BY <1>4, <1>5, <2>1
  <2> QED  BY <2>1, <2>2
<1> QED
  BY <1>1, <1>4, <1>6, <1>7, <1>8, <1>9

(* What a handler answers from is in the log.                                    *)
LEMMA AnswerFacts ==
  ASSUME IInv, NEW s \in Server, handler[s] # Nil, handler[s].committedOp # Nil
  PROVE  LET h == handler[s] IN
         /\ h.idx \in 1 .. Len(chosen)
         /\ chosen[h.idx] = [args |-> h.args, id |-> h.id]
         /\ h.args.seq <= Latest.last[h.args.client] \/ h.args.operation = "Get"
         /\ h.args.operation = "Get" =>
               /\ h.committedOp.value = Replay[h.idx].store[h.args.key]
               /\ h.committedOp.value \in Seq(Client)
<1>1. TypeOK /\ HandlerInv /\ LogInv
  BY DEF IInv
<1> DEFINE h == handler[s]
<1>2. h.idx \in 1 .. MaxStarts /\ h.args \in ArgsType
  BY <1>1, HandlerFacts
<1>3. /\ h.idx <= Len(executed[s])
      /\ chosen[h.idx] = [args |-> h.args, id |-> h.id]
      /\ h.committedOp = IF h.args.operation = "Get"
                         THEN [h.args EXCEPT !.value = Replay[h.idx].store[h.args.key]]
                         ELSE h.args
  BY <1>1 DEF HandlerInv
<1> HIDE DEF h
<1>4. h.idx \in 1 .. Len(chosen)
  <2>1. Len(executed[s]) <= Len(chosen) /\ Len(executed[s]) \in Nat /\ Len(chosen) \in Nat
    BY <1>1 DEF LogInv
  <2> QED  BY <1>2, <1>3, <2>1, BoundAssumption
<1>5. Replay[h.idx] \in StateType /\ Replay[h.idx - 1] \in StateType
  BY <1>4, StateFacts
<1>6. h.args.seq <= Latest.last[h.args.client] \/ h.args.operation = "Get"
  <2>1. Replay[h.idx] = After(Replay[h.idx - 1], h.args)
    BY <1>3, <1>4, StateFacts
  <2>2. h.args.client \in Client /\ h.args.seq \in Nat
    BY <1>2 DEF ArgsType
  <2>3. Replay[h.idx].last[h.args.client] <= Latest.last[h.args.client]
    BY <1>4, <2>2, StateFacts
  <2>4. /\ Replay[h.idx].last[h.args.client] \in Nat
        /\ Latest.last[h.args.client] \in Nat
    BY <1>5, <2>2, StateFacts DEF StateType
  <2>5. IsWrite(h.args) => h.args.seq <= Replay[h.idx].last[h.args.client]
    BY <1>2, <1>5, <2>1, AfterFacts
  <2> QED  BY <2>2, <2>3, <2>4, <2>5 DEF IsWrite
<1>7. ASSUME h.args.operation = "Get"
      PROVE  /\ h.committedOp.value = Replay[h.idx].store[h.args.key]
             /\ h.committedOp.value \in Seq(Client)
  <2>1. h.committedOp = [h.args EXCEPT !.value = Replay[h.idx].store[h.args.key]]
    BY <1>3, <1>7
  <2>2. Replay[h.idx].store[h.args.key] \in Seq(Client)
    BY <1>2, <1>5 DEF ArgsType, StateType
  <2>3. h.committedOp.value = Replay[h.idx].store[h.args.key]
    BY <1>2, <2>1 DEF ArgsType
  <2> QED  BY <2>2, <2>3
<1> QED
  BY <1>3, <1>4, <1>6, <1>7 DEF h

(* When Reply ends a clerk's operation, it is that operation's answer.           *)
LEMMA ReplyFacts ==
  ASSUME IInv, NEW s \in Server, Reply(s)
  PROVE  /\ handler[s] # Nil
         /\ handler' = [handler EXCEPT ![s] = Nil]
         /\ UNCHANGED <<logVars, store, clientSeqMap, strays, crashes>>
         /\ \/ UNCHANGED clerkVars /\ (handler[s].awaited => ~Mine(handler[s]))
            \/ LET h == handler[s]  c == h.args.client
                   v == IF h.args.operation = "Get" THEN h.committedOp.value ELSE Nil IN
               /\ h.awaited /\ h.committedOp # Nil
               /\ c \in Client /\ op[c] = h.args /\ op[c] # Nil
               /\ ReturnTo(c, v) /\ v \in Seq(Client) \cup {Nil}
               /\ IsWrite(op[c]) => op[c].seq <= Latest.last[c]
<1>1. TypeOK /\ AwaitedInv
  BY DEF IInv
<1>2. handler[s] # Nil /\ handler[s].committedOp # Nil
  BY DEF Reply
<1>3. handler[s].args.client \in Client /\ handler[s].args # Nil
  BY <1>1, <1>2, HandlerFacts
<1>4. handler[s].awaited => op[handler[s].args.client] = handler[s].args
  BY <1>1, <1>2 DEF AwaitedInv
<1>5. \/ UNCHANGED clerkVars /\ (handler[s].awaited => ~Mine(handler[s]))
      \/ /\ handler[s].awaited
         /\ ReturnTo(handler[s].args.client, IF handler[s].args.operation = "Get"
                                             THEN handler[s].committedOp.value ELSE Nil)
  BY DEF Reply
<1>6. /\ handler' = [handler EXCEPT ![s] = Nil]
      /\ UNCHANGED <<logVars, store, clientSeqMap, strays, crashes>>
  BY DEF Reply
<1> QED
  BY <1>2, <1>3, <1>4, <1>5, <1>6, AnswerFacts DEF IsWrite

LEMMA ReplyStep ==
  ASSUME IInv, NEW s \in Server, Reply(s)
  PROVE  IInv'
<1>1. /\ handler[s] # Nil
      /\ handler' = [handler EXCEPT ![s] = Nil]
      /\ UNCHANGED <<logVars, store, clientSeqMap, strays, crashes>>
  BY ReplyFacts
<1>2. TypeOK /\ ClerkInv /\ AwaitedInv /\ WritesDone /\ HandlerInv /\ Proposals
  BY DEF IInv
<1>3. Proposals' /\ LogInv' /\ StoreIsReplay' /\ Replay' = Replay /\ Latest' = Latest
  BY <1>1, LogFrame
<1>4. UNCHANGED <<proposed, chosen, executed>>
  BY <1>1 DEF logVars
<1>5. \A t \in Server : handler'[t] # Nil => handler'[t] = handler[t] /\ handler[t] # Nil /\ t # s
  BY <1>1, <1>2 DEF TypeOK
<1>6. HandlerInv'
  BY <1>2, <1>3, <1>4, <1>5 DEF HandlerInv
<1>7. Requests' \subseteq Requests /\ Requests \subseteq ArgsType
  BY <1>1, <1>2, <1>4, <1>5, RequestFacts DEF Requests
<1>8. CASE UNCHANGED clerkVars
  <2>1. UNCHANGED <<op, seq, peer, try, returned, since, ops>>
    BY <1>8 DEF clerkVars
  <2>2. TypeOK'
    BY <1>1, <1>2, <2>1 DEF TypeOK
  <2>3. AwaitedInv'
    BY <1>2, <1>4, <1>5, <2>1 DEF AwaitedInv
  <2>4. ClerkInv'
    BY <1>2, <1>4, <2>1 DEF ClerkInv
  <2>5. WritesDone'
    BY <1>2, <1>3, <1>7, <2>1 DEF WritesDone
  <2> QED  BY <1>3, <1>6, <2>2, <2>3, <2>4, <2>5 DEF IInv
<1>9. CASE ~UNCHANGED clerkVars
  <2>1. PICK c \in Client, v \in Seq(Client) \cup {Nil} :
          /\ handler[s].awaited /\ c = handler[s].args.client
          /\ op[c] # Nil /\ ReturnTo(c, v)
          /\ IsWrite(op[c]) => op[c].seq <= Latest.last[c]
    BY <1>9, ReplyFacts
  <2>2. /\ op' \in [Client -> ArgsType \cup {Nil}]
        /\ seq' \in [Client -> 0 .. 2 * MaxOps]
        /\ try' \in [Client -> {"none", "sent", "taken"}]
        /\ returned' \in [Client -> Seq(Client) \cup {Nil}]
        /\ UNCHANGED <<peer, since, ops>>
        /\ \A d \in Client \ {c} : op'[d] = op[d] /\ try'[d] = try[d]
        /\ ClerkInv'
        /\ \A a \in ArgsType : IsWrite(a) /\ (a = op[a.client] \/ a.seq <= Latest.last[a.client])
              => a = op'[a.client] \/ a.seq <= Latest.last[a.client]
        /\ \A d \in Client : Latest.last[d] <= seq'[d]
    BY <1>4, <2>1, ReturnToFacts
  <2>3. TypeOK'
    BY <1>1, <1>2, <2>2 DEF TypeOK
  <2>4. AwaitedInv'
    <3>1. ASSUME NEW t \in Server, handler'[t] # Nil, handler'[t].awaited
          PROVE  /\ handler[t] = handler'[t] /\ handler[t] # Nil
                 /\ handler[t].args.client \in Client \ {c}
      <4>1. handler[t] = handler'[t] /\ handler[t] # Nil /\ t # s
        BY <1>5, <3>1
      <4>2. handler[t].args.client \in Client
        BY <1>2, <4>1, HandlerFacts
      <4>3. peer[handler[t].args.client] = t /\ peer[c] = s
        BY <1>1, <1>2, <2>1, <3>1, <4>1 DEF AwaitedInv
      <4> QED  BY <4>1, <4>2, <4>3
    <3> SUFFICES ASSUME NEW t \in Server, handler'[t] # Nil, handler'[t].awaited
                 PROVE  LET h == handler'[t]  d == h.args.client IN
                        /\ op'[d] = h.args /\ try'[d] = "taken" /\ peer'[d] = t
                        /\ \/ h.idx > since'[d]
                           \/ h.idx <= Len(chosen') /\ chosen'[h.idx].id # h.id
      BY DEF AwaitedInv
    <3>2. handler[t] = handler'[t] /\ handler[t] # Nil /\ handler[t].args.client \in Client \ {c}
      BY <3>1
    <3> QED  BY <1>2, <1>4, <2>2, <3>2 DEF AwaitedInv
  <2>5. WritesDone'
    BY <1>2, <1>3, <1>7, <2>2 DEF WritesDone
  <2> QED  BY <1>3, <1>6, <2>2, <2>3, <2>4, <2>5 DEF IInv
<1> QED
  BY <1>8, <1>9

(* The request a handler takes is a clerk's present one, or an old one.          *)
LEMMA HandleFacts ==
  ASSUME IInv, NEW s \in Server, NEW args, NEW awaited \in BOOLEAN, Handle(s, args, awaited)
  PROVE  LET c == args.client
             e == Entry(args) IN
         \E i \in 1 .. MaxStarts :
            /\ handler[s] = Nil
            /\ args \in ArgsType /\ c \in Client
            /\ Cardinality(proposed) \in Nat /\ Cardinality(proposed) < MaxStarts
            /\ proposed' = proposed \cup {[index |-> i, entry |-> e]}
            /\ e = [args |-> args, id |-> Cardinality(proposed) + 1]
            /\ UNCHANGED <<chosen, executed, store, clientSeqMap, strays, crashes>>
            /\ awaited => op[c] = args /\ op[c] # Nil /\ peer[c] = s /\ try[c] = "sent"
            /\ ~awaited => args \in strays
            /\ \/ /\ Applied(s, args) /\ UNCHANGED handler
                  /\ IF awaited THEN ReturnTo(c, Nil) ELSE UNCHANGED clerkVars
               \/ /\ ~Applied(s, args)
                  /\ handler' = [handler EXCEPT ![s] =
                        [args |-> args, idx |-> i, id |-> e.id,
                         awaited |-> awaited, committedOp |-> Nil]]
                  /\ try' = IF awaited THEN [try EXCEPT ![c] = "taken"] ELSE try
                  /\ UNCHANGED <<op, seq, peer, returned, since, ops>>
<1>1. TypeOK /\ ClerkInv /\ Proposals /\ LogInv
  BY DEF IInv
<1>2. handler[s] = Nil /\ UNCHANGED <<store, clientSeqMap, strays, crashes>>
  BY DEF Handle
<1>3. Cardinality(proposed) \in Nat
  BY <1>1, FS_CardinalityType DEF Proposals
<1>4. ASSUME awaited
      PROVE  /\ args \in ArgsType /\ args.client \in Client
             /\ op[args.client] = args /\ op[args.client] # Nil
             /\ peer[args.client] = s /\ try[args.client] = "sent"
  <2>1. args \in Awaited(s)
    BY <1>4 DEF Handle
  <2>2. PICK d \in Client : peer[d] = s /\ try[d] = "sent" /\ args = op[d]
    BY <2>1 DEF Awaited
  <2>3. op[d] # Nil
    BY <1>1, <2>2 DEF ClerkInv
  <2> QED  BY <1>1, <2>2, <2>3, ClerkFacts
<1>5. ASSUME ~awaited
      PROVE  args \in ArgsType /\ args.client \in Client /\ args \in strays
  BY <1>1, <1>5 DEF Handle, TypeOK, ArgsType
<1>6. PICK i \in Len(executed[s]) + 1 .. MaxStarts :
          /\ Accept(s, args, i)
          /\ IF Applied(s, args)
             THEN /\ IF awaited THEN ReturnTo(args.client, Nil) ELSE UNCHANGED clerkVars
                  /\ UNCHANGED handler
             ELSE /\ handler' = [handler EXCEPT ![s] =
                        [args |-> args, idx |-> i, id |-> Entry(args).id,
                         awaited |-> awaited, committedOp |-> Nil]]
                  /\ try' = IF awaited THEN [try EXCEPT ![args.client] = "taken"] ELSE try
                  /\ UNCHANGED <<op, seq, peer, returned, since, ops>>
  BY DEF Handle
<1>7. i \in 1 .. MaxStarts
  BY <1>1, BoundAssumption DEF LogInv
<1>8. /\ Cardinality(proposed) < MaxStarts
      /\ proposed' = proposed \cup {[index |-> i, entry |-> Entry(args)]}
      /\ UNCHANGED <<chosen, executed>>
  BY <1>6 DEF Accept, Propose
<1>9. Entry(args) = [args |-> args, id |-> Cardinality(proposed) + 1]
  BY DEF Entry
<1> QED
  BY <1>2, <1>3, <1>4, <1>5, <1>6, <1>7, <1>8, <1>9

LEMMA HandleStep ==
  ASSUME IInv, NEW s \in Server, NEW args, NEW awaited \in BOOLEAN, Handle(s, args, awaited)
  PROVE  IInv'
<1> DEFINE c == args.client
           e == [args |-> args, id |-> Cardinality(proposed) + 1]
           h == [args |-> args, idx |-> 0, id |-> e.id, awaited |-> awaited, committedOp |-> Nil]
<1>1. TypeOK /\ ClerkInv /\ AwaitedInv /\ WritesDone /\ HandlerInv /\ Proposals /\ LogInv /\ StoreIsReplay
  BY DEF IInv
<1>2. PICK i \in 1 .. MaxStarts :
            /\ handler[s] = Nil
            /\ args \in ArgsType /\ c \in Client
            /\ Cardinality(proposed) \in Nat /\ Cardinality(proposed) < MaxStarts
            /\ proposed' = proposed \cup {[index |-> i, entry |-> e]}
            /\ UNCHANGED <<chosen, executed, store, clientSeqMap, strays, crashes>>
            /\ awaited => op[c] = args /\ op[c] # Nil /\ peer[c] = s /\ try[c] = "sent"
            /\ ~awaited => args \in strays
            /\ \/ /\ Applied(s, args) /\ UNCHANGED handler
                  /\ IF awaited THEN ReturnTo(c, Nil) ELSE UNCHANGED clerkVars
               \/ /\ ~Applied(s, args)
                  /\ handler' = [handler EXCEPT ![s] = [h EXCEPT !.idx = i]]
                  /\ try' = IF awaited THEN [try EXCEPT ![c] = "taken"] ELSE try
                  /\ UNCHANGED <<op, seq, peer, returned, since, ops>>
  BY HandleFacts
<1>3. Replay' = Replay /\ Latest' = Latest
  BY <1>2 DEF Replay, Latest
<1>4. Proposals'
  <2>1. [index |-> i, entry |-> e] \notin proposed
    <3>1. e.id \notin 1 .. Cardinality(proposed)
      BY <1>2
    <3> QED  BY <1>1, <3>1 DEF Proposals
  <2>2. IsFiniteSet(proposed') /\ Cardinality(proposed') = Cardinality(proposed) + 1
    BY <1>1, <1>2, <2>1, FS_AddElement DEF Proposals
  <2>3. [index |-> i, entry |-> e] \in [index : 1 .. MaxStarts, entry : EntryType]
    BY <1>2 DEF EntryType
  <2>4. \A p \in proposed' : p.entry.id \in 1 .. Cardinality(proposed')
    <3> SUFFICES ASSUME NEW p \in proposed' PROVE p.entry.id \in 1 .. Cardinality(proposed) + 1
      BY <2>2
    <3>1. CASE p \in proposed
      <4>1. p.entry.id \in 1 .. Cardinality(proposed)
        BY <1>1, <3>1 DEF Proposals
      <4> QED  BY <1>2, <4>1
    <3>2. CASE p = [index |-> i, entry |-> e]
      BY <1>2, <3>2
    <3> QED  BY <1>2, <3>1, <3>2
  <2>5. \A p, q \in proposed' : p.entry.id = q.entry.id => p = q
    <3>1. \A p \in proposed : p.entry.id # e.id
      <4> SUFFICES ASSUME NEW p \in proposed PROVE p.entry.id # e.id
        OBVIOUS
      <4>1. p.entry.id \in 1 .. Cardinality(proposed)
        BY <1>1 DEF Proposals
      <4> QED  BY <1>2, <4>1
    <3>2. [index |-> i, entry |-> e].entry.id = e.id
      OBVIOUS
    <3> HIDE DEF e
    <3> QED  BY <1>1, <1>2, <3>1, <3>2 DEF Proposals
  <2> QED  BY <1>1, <1>2, <2>2, <2>3, <2>4, <2>5 DEF Proposals
<1>5. LogInv'
  BY <1>1, <1>2 DEF LogInv
<1>6. StoreIsReplay'
  BY <1>1, <1>2, <1>3 DEF StoreIsReplay
<1> DEFINE g == [h EXCEPT !.idx = i]
<1>7. /\ g = [args |-> args, idx |-> i, id |-> e.id, awaited |-> awaited, committedOp |-> Nil]
      /\ g \in HandlerType /\ g # Nil /\ g.args = args /\ g.idx = i /\ g.id = e.id
      /\ g.awaited = awaited /\ g.committedOp = Nil
  <2>1. e.id \in 1 .. MaxStarts
    BY <1>2, BoundAssumption
  <2>2. g = [args |-> args, idx |-> i, id |-> e.id, awaited |-> awaited, committedOp |-> Nil]
    OBVIOUS
  <2> HIDE DEF e
  <2> QED  BY <1>2, <2>1, <2>2, NilAssumption DEF HandlerType
<1>8. e.args = args /\ e.id = Cardinality(proposed) + 1
  OBVIOUS
<1>9. /\ [index |-> g.idx, entry |-> [args |-> g.args, id |-> g.id]] \in proposed'
      /\ proposed \subseteq proposed'
  BY <1>2, <1>7
<1> HIDE DEF g, h
<1>10. ASSUME NEW t \in Server, handler'[t] # Nil
       PROVE  \/ handler'[t] = handler[t] /\ handler[t] # Nil
              \/ t = s /\ handler'[t] = g
  BY <1>1, <1>2, <1>10 DEF TypeOK, g
<1>11. HandlerInv'
  <2> SUFFICES ASSUME NEW t \in Server, handler'[t] # Nil
               PROVE  LET k == handler'[t] IN
                      /\ [index |-> k.idx, entry |-> [args |-> k.args, id |-> k.id]] \in proposed'
                      /\ k.committedOp # Nil =>
                            /\ k.idx <= Len(executed[t])
                            /\ chosen[k.idx] = [args |-> k.args, id |-> k.id]
                            /\ k.committedOp = IF k.args.operation = "Get"
                                   THEN [k.args EXCEPT !.value = Replay[k.idx].store[k.args.key]]
                                   ELSE k.args
    BY <1>2, <1>3 DEF HandlerInv
  <2>1. CASE handler'[t] = handler[t] /\ handler[t] # Nil
    BY <1>1, <1>9, <2>1 DEF HandlerInv
  <2>2. CASE handler'[t] = g
    BY <1>7, <1>9, <2>2
  <2> QED  BY <1>10, <2>1, <2>2
<1>12. Requests' \subseteq Requests \cup {args} /\ Requests' \subseteq ArgsType
  <2>1. strays' = strays /\ \A p \in proposed' : p \in proposed \/ p.entry.args = args
    BY <1>2, <1>8
  <2>2. ASSUME NEW t \in Server, handler'[t] # Nil
        PROVE  \/ handler'[t].args = args
               \/ handler[t] # Nil /\ handler'[t].args = handler[t].args
    BY <1>7, <1>10, <2>2
  <2>3. Requests' \subseteq Requests \cup {args}
    BY <2>1, <2>2 DEF Requests
  <2>4. Requests \subseteq ArgsType
    BY <1>1, RequestFacts
  <2> QED  BY <1>2, <2>3, <2>4
<1>13. ASSUME NEW b \in Requests \cup {args}, IsWrite(b)
       PROVE  b = op[b.client] \/ b.seq <= Latest.last[b.client]
  <2>1. args \in strays \/ args = op[args.client]
    BY <1>2
  <2> QED  BY <1>1, <1>13, <2>1 DEF WritesDone, Requests
<1>14. awaited => \A t \in Server : handler[t] # Nil /\ handler[t].awaited => handler[t].args.client # c
  BY <1>1, <1>2 DEF AwaitedInv
<1>15. CASE Applied(s, args) /\ awaited
  <2>1. /\ ReturnTo(c, Nil) /\ op[c] # Nil /\ UNCHANGED handler /\ Nil \in Seq(Client) \cup {Nil}
    BY <1>2, <1>15
  <2>2. IsWrite(op[c]) => op[c].seq <= Latest.last[c]
    <3>1. args.seq <= clientSeqMap[s][c] /\ clientSeqMap[s][c] = Replay[Len(executed[s])].last[c]
      BY <1>1, <1>15 DEF Applied, StoreIsReplay
    <3>2. Len(executed[s]) \in 0 .. Len(chosen)
      BY <1>1 DEF LogInv
    <3>3. Replay[Len(executed[s])].last[c] <= Latest.last[c]
      BY <1>2, <3>2, StateFacts
    <3>4. /\ Replay[Len(executed[s])].last[c] \in Nat /\ Latest.last[c] \in Nat /\ args.seq \in Nat
      BY <1>2, <3>2, StateFacts DEF StateType, ArgsType
    <3> QED  BY <1>2, <1>15, <3>1, <3>3, <3>4
  <2>3. /\ op' \in [Client -> ArgsType \cup {Nil}]
        /\ seq' \in [Client -> 0 .. 2 * MaxOps]
        /\ try' \in [Client -> {"none", "sent", "taken"}]
        /\ returned' \in [Client -> Seq(Client) \cup {Nil}]
        /\ UNCHANGED <<peer, since, ops>>
        /\ \A d \in Client \ {c} : op'[d] = op[d] /\ try'[d] = try[d]
        /\ ClerkInv'
        /\ \A a \in ArgsType : IsWrite(a) /\ (a = op[a.client] \/ a.seq <= Latest.last[a.client])
              => a = op'[a.client] \/ a.seq <= Latest.last[a.client]
        /\ \A d \in Client : Latest.last[d] <= seq'[d]
    BY <1>2, <2>1, <2>2, ReturnToFacts
  <2>4. TypeOK'
    BY <1>1, <1>2, <2>1, <2>3 DEF TypeOK
  <2>5. AwaitedInv'
    <3> SUFFICES ASSUME NEW t \in Server, handler[t] # Nil, handler[t].awaited
                 PROVE  LET k == handler[t]  d == k.args.client IN
                        /\ op'[d] = k.args /\ try'[d] = "taken" /\ peer'[d] = t
                        /\ \/ k.idx > since'[d]
                           \/ k.idx <= Len(chosen) /\ chosen[k.idx].id # k.id
      BY <1>2, <2>1 DEF AwaitedInv
    <3>1. handler[t].args.client \in Client \ {c}
      BY <1>1, <1>14, <1>15, HandlerFacts
    <3> QED  BY <1>1, <2>3, <3>1 DEF AwaitedInv
  <2>6. WritesDone'
    BY <1>3, <1>12, <1>13, <2>3 DEF WritesDone
  <2> QED  BY <1>4, <1>5, <1>6, <1>11, <2>3, <2>4, <2>5, <2>6 DEF IInv
<1>16. CASE Applied(s, args) /\ ~awaited
  <2>1. UNCHANGED handler /\ UNCHANGED <<op, seq, peer, try, returned, since, ops>>
    BY <1>2, <1>16 DEF clerkVars
  <2>2. TypeOK'
    BY <1>1, <1>2, <2>1 DEF TypeOK
  <2>3. AwaitedInv'
    BY <1>1, <1>2, <2>1 DEF AwaitedInv
  <2>4. ClerkInv'
    BY <1>1, <1>2, <2>1 DEF ClerkInv
  <2>5. WritesDone'
    BY <1>1, <1>3, <1>12, <1>13, <2>1 DEF WritesDone
  <2> QED  BY <1>4, <1>5, <1>6, <1>11, <2>2, <2>3, <2>4, <2>5 DEF IInv
<1>17. CASE ~Applied(s, args)
  <2>1. /\ handler' = [handler EXCEPT ![s] = g]
        /\ try' = IF awaited THEN [try EXCEPT ![c] = "taken"] ELSE try
        /\ UNCHANGED <<op, seq, peer, returned, since, ops>>
    BY <1>2, <1>17 DEF g
  <2>2. TypeOK'
    <3>1. handler' \in [Server -> HandlerType \cup {Nil}]
      BY <1>1, <1>7, <2>1 DEF TypeOK
    <3>2. try' \in [Client -> {"none", "sent", "taken"}]
      BY <1>1, <2>1 DEF TypeOK
    <3> QED  BY <1>1, <1>2, <2>1, <3>1, <3>2 DEF TypeOK
  <2>3. AwaitedInv'
    <3> SUFFICES ASSUME NEW t \in Server, handler'[t] # Nil, handler'[t].awaited
                 PROVE  LET k == handler'[t]  d == k.args.client IN
                        /\ op[d] = k.args /\ try'[d] = "taken" /\ peer[d] = t
                        /\ \/ k.idx > since[d]
                           \/ k.idx <= Len(chosen) /\ chosen[k.idx].id # k.id
      BY <1>2, <2>1 DEF AwaitedInv
    <3>1. CASE handler'[t] = handler[t] /\ handler[t] # Nil
      <4>1. handler[t].args.client \in Client /\ handler[t].awaited
        BY <1>1, <3>1, HandlerFacts
      <4>2. try'[handler[t].args.client] = "taken"
        BY <1>1, <1>14, <2>1, <3>1, <4>1 DEF AwaitedInv, TypeOK
      <4> QED  BY <1>1, <3>1, <4>1, <4>2 DEF AwaitedInv
    <3>2. CASE t = s /\ handler'[t] = g
      <4>1. /\ awaited /\ g.args = args /\ g.idx = i /\ g.id = Cardinality(proposed) + 1
        BY <1>7, <1>8, <3>2
      <4>2. op[c] = args /\ try'[c] = "taken" /\ peer[c] = s
        BY <1>1, <1>2, <2>1, <4>1 DEF TypeOK
      <4>3. \/ i > since[c]
            \/ i <= Len(chosen) /\ chosen[i].id # g.id
        <5>1. since[c] <= Len(chosen) /\ since[c] \in Nat /\ Len(chosen) \in Nat
          BY <1>1, <1>2, StateFacts DEF ClerkInv, TypeOK
        <5>2. ASSUME i \in 1 .. Len(chosen) PROVE chosen[i].id \in 1 .. Cardinality(proposed)
          <6>1. [index |-> i, entry |-> chosen[i]] \in proposed
            BY <1>1, <5>2 DEF LogInv
          <6> QED  BY <1>1, <6>1 DEF Proposals
        <5>3. i \in 1 .. Len(chosen) => chosen[i].id # g.id
          BY <1>2, <4>1, <5>2
        <5> QED  BY <1>2, <5>1, <5>3
      <4> QED  BY <3>2, <4>1, <4>2, <4>3
    <3> QED  BY <1>10, <3>1, <3>2
  <2>4. ClerkInv'
    <3>1. \A d \in Client : op[d] = Nil <=> try'[d] = "none"
      BY <1>1, <1>2, <2>1 DEF ClerkInv, TypeOK
    <3> QED  BY <1>1, <1>2, <2>1, <3>1 DEF ClerkInv
  <2>5. WritesDone'
    BY <1>1, <1>3, <1>12, <1>13, <2>1 DEF WritesDone
  <2> QED  BY <1>4, <1>5, <1>6, <1>11, <2>2, <2>3, <2>4, <2>5 DEF IInv
<1> QED
  BY <1>15, <1>16, <1>17

(* What is executed next was proposed for its index, and is the handler's own    *)
(* command if a handler waits there; the log grows by it or has it already.      *)
LEMMA ApplyFacts ==
  ASSUME IInv, NEW s \in Server, Apply(s)
  PROVE  LET n == Len(executed[s]) + 1 IN
         \E e \in EntryType :
            LET st == Updated([store |-> store[s], map |-> clientSeqMap[s]], e.args) IN
            /\ n \in 1 .. Len(chosen') /\ n <= MaxStarts
            /\ chosen' \in Seq(EntryType)
            /\ chosen'[n] = e
            /\ [index |-> n, entry |-> e] \in proposed
            /\ \A i \in 1 .. Len(chosen) : chosen'[i] = chosen[i]
            /\ \/ chosen' = chosen
               \/ n = Len(chosen) + 1 /\ Len(chosen') = n
            /\ executed' = [executed EXCEPT ![s] = Append(executed[s], e)]
            /\ handler[s] # Nil /\ handler[s].idx = n =>
                  e = [args |-> handler[s].args, id |-> handler[s].id]
            /\ store' = [store EXCEPT ![s] = st.store]
            /\ clientSeqMap' = [clientSeqMap EXCEPT ![s] = st.map]
            /\ handler' = IF handler[s] # Nil /\ handler[s].idx = n
                          THEN [handler EXCEPT ![s].committedOp =
                                   IF e.args.operation = "Get"
                                   THEN [e.args EXCEPT !.value = st.store[e.args.key]] ELSE e.args]
                          ELSE handler
            /\ UNCHANGED <<proposed, clerkVars, strays, crashes>>
<1>1. Proposals /\ LogInv /\ HandlerInv
  BY DEF IInv
<1> DEFINE n == Len(executed[s]) + 1
           St(e) == Updated([store |-> store[s], map |-> clientSeqMap[s]], e.args)
<1>2. PICK e \in IF n <= Len(chosen) THEN {chosen[n]} ELSE {p.entry : p \in ProposedAt(n)} :
         /\ Executable(s, n, e)
         /\ Execute(s, Append(executed[s], e))
         /\ store' = [store EXCEPT ![s] = St(e).store]
         /\ clientSeqMap' = [clientSeqMap EXCEPT ![s] = St(e).map]
         /\ handler' = IF handler[s] # Nil /\ handler[s].idx = n
                       THEN [handler EXCEPT ![s].committedOp =
                                IF e.args.operation = "Get"
                                THEN [e.args EXCEPT !.value = St(e).store[e.args.key]] ELSE e.args]
                       ELSE handler
         /\ UNCHANGED <<clerkVars, strays, crashes>>
  BY DEF Apply
<1>3. /\ chosen \in Seq(EntryType) /\ Len(chosen) \in Nat
      /\ executed[s] \in Seq(EntryType) /\ Len(executed[s]) \in Nat
      /\ Len(executed[s]) <= Len(chosen)
      /\ \A i \in 1 .. Len(executed[s]) : executed[s][i] = chosen[i]
  BY <1>1 DEF LogInv
<1>4. [index |-> n, entry |-> e] \in proposed
  <2>1. CASE n <= Len(chosen)
    <3>1. n \in 1 .. Len(chosen) /\ e = chosen[n]
      BY <1>2, <1>3, <2>1
    <3> QED  BY <1>1, <3>1 DEF LogInv
  <2>2. CASE ~(n <= Len(chosen))
    <3>1. PICK p \in ProposedAt(n) : e = p.entry
      BY <1>2, <2>2
    <3>2. p \in proposed /\ p.index = n
      BY <3>1 DEF ProposedAt
    <3>3. p = [index |-> p.index, entry |-> p.entry]
      BY <1>1, <3>2 DEF Proposals
    <3> QED  BY <3>1, <3>2, <3>3
  <2> QED  BY <2>1, <2>2
<1>5. e \in EntryType /\ n \in 1 .. MaxStarts
  <2>1. [index |-> n, entry |-> e] \in [index : 1 .. MaxStarts, entry : EntryType]
    BY <1>1, <1>4 DEF Proposals
  <2> QED  BY <2>1
<1> DEFINE q == Append(executed[s], e)
<1>6. /\ q \in Seq(EntryType) /\ Len(q) = n /\ q[n] = e
      /\ \A i \in 1 .. Len(executed[s]) : q[i] = executed[s][i]
  BY <1>3, <1>5
<1>7. /\ executed' = [executed EXCEPT ![s] = q]
      /\ chosen' = IF Len(q) > Len(chosen) THEN q ELSE chosen
      /\ UNCHANGED proposed
  BY <1>2 DEF Execute
<1> HIDE DEF q
<1>8. /\ n \in 1 .. Len(chosen') /\ n <= MaxStarts
      /\ chosen' \in Seq(EntryType)
      /\ chosen'[n] = e
      /\ \A i \in 1 .. Len(chosen) : chosen'[i] = chosen[i]
      /\ \/ chosen' = chosen
         \/ n = Len(chosen) + 1 /\ Len(chosen') = n
  <2>1. CASE Len(q) > Len(chosen)
    <3>1. chosen' = q /\ n = Len(chosen) + 1 /\ Len(executed[s]) = Len(chosen)
      BY <1>3, <1>6, <1>7, <2>1
    <3> QED  BY <1>3, <1>5, <1>6, <3>1
  <2>2. CASE ~(Len(q) > Len(chosen))
    <3>1. chosen' = chosen /\ n <= Len(chosen)
      BY <1>3, <1>6, <1>7, <2>2
    <3>2. e = chosen[n]
      BY <1>2, <3>1
    <3> QED  BY <1>3, <1>5, <3>1, <3>2
  <2> QED  BY <2>1, <2>2
<1>9. ASSUME handler[s] # Nil, handler[s].idx = n
      PROVE  e = [args |-> handler[s].args, id |-> handler[s].id]
  <2> DEFINE own == [args |-> handler[s].args, id |-> handler[s].id]
  <2>1. [index |-> n, entry |-> own] \in proposed /\ own.id = handler[s].id
    BY <1>1, <1>9 DEF HandlerInv
  <2>2. e.id = handler[s].id
    BY <1>2, <1>9 DEF Executable
  <2> HIDE DEF own
  <2>3. [index |-> n, entry |-> e] = [index |-> n, entry |-> own]
    <3>1. [index |-> n, entry |-> e].entry.id = [index |-> n, entry |-> own].entry.id
      BY <2>1, <2>2
    <3> QED  BY <1>1, <1>4, <2>1, <3>1 DEF Proposals
  <2>4. e = own
    <3>1. [index |-> n, entry |-> e].entry = [index |-> n, entry |-> own].entry
      BY <2>3
    <3> QED  BY <3>1
  <2> QED  BY <2>4 DEF own
<1> QED
  BY <1>2, <1>4, <1>5, <1>7, <1>8, <1>9 DEF q

(* The code's state machine is After.                                            *)
LEMMA UpdatedIsAfter ==
  ASSUME NEW r \in StateType, NEW a \in ArgsType
  PROVE  LET st == Updated([store |-> r.store, map |-> r.last], a) IN
         st.store = After(r, a).store /\ st.map = After(r, a).last
<1>1. a.client \in Client /\ a.seq \in Nat /\ r.last[a.client] \in Nat
  BY DEF ArgsType, StateType
<1>2. r.last[a.client] >= a.seq <=> a.seq <= r.last[a.client]
  BY <1>1
<1> QED
  BY <1>2 DEF Updated, Duplicate, After

(* The log after an entry was executed, and its replay.                          *)
LEMMA GrowFacts ==
  ASSUME IInv, NEW n \in 1 .. Len(chosen'), NEW e \in EntryType, n <= Len(chosen) + 1,
         chosen' \in Seq(EntryType), chosen'[n] = e,
         \A i \in 1 .. Len(chosen) : chosen'[i] = chosen[i],
         chosen' = chosen \/ (n = Len(chosen) + 1 /\ Len(chosen') = n)
  PROVE  /\ \A k \in 0 .. Len(chosen) : Replay'[k] = Replay[k]
         /\ \A k \in 0 .. Len(chosen') : Replay'[k] \in StateType
         /\ n - 1 \in 0 .. Len(chosen)
         /\ Replay'[n] = After(Replay[n - 1], e.args)
         /\ \/ Latest' = Latest /\ Len(chosen') = Len(chosen) /\ Replay' = Replay
            \/ /\ Latest' = After(Latest, e.args) /\ Latest' = Replay'[Len(chosen) + 1]
               /\ n = Len(chosen) + 1 /\ Len(chosen') = Len(chosen) + 1
<1>1. chosen \in Seq(EntryType) /\ Len(chosen) \in Nat /\ Len(chosen') \in Nat
  BY StateFacts
<1>2. Len(chosen) <= Len(chosen')
  BY <1>1
<1>3. \A k \in 0 .. Len(chosen) : Replay'[k] = Replay[k]
  BY <1>2, <1>1, ReplayPrefix DEF Replay
<1>4. \A k \in 0 .. Len(chosen') : Replay'[k] \in StateType
  BY <1>1, ReplayType DEF Replay
<1>5. n - 1 \in 0 .. Len(chosen)
  BY <1>1
<1>6. Replay'[n] = After(Replay'[n - 1], chosen'[n].args)
  BY <1>1, ReplayDef DEF Replay
<1>7. Replay'[n] = After(Replay[n - 1], e.args)
  BY <1>3, <1>5, <1>6
<1>8. CASE chosen' = chosen
  BY <1>3, <1>4, <1>5, <1>7, <1>8 DEF Replay, Latest
<1>9. CASE n = Len(chosen) + 1 /\ Len(chosen') = n
  <2>1. Latest' = Replay'[n] /\ Latest = Replay[n - 1]
    BY <1>1, <1>9 DEF Latest
  <2> QED  BY <1>3, <1>4, <1>5, <1>7, <1>9, <2>1
<1> QED
  BY <1>8, <1>9

(* Execution leaves of a handler everything but its answer.                      *)
LEMMA AnsweredHandler ==
  ASSUME NEW h \in HandlerType, NEW v \in ArgsType
  PROVE  LET g == [h EXCEPT !.committedOp = v] IN
         /\ g \in HandlerType /\ g # Nil
         /\ g.args = h.args /\ g.idx = h.idx /\ g.id = h.id /\ g.awaited = h.awaited
         /\ g.committedOp = v
  BY NilAssumption DEF HandlerType

LEMMA ApplyStep ==
  ASSUME IInv, NEW s \in Server, Apply(s)
  PROVE  IInv'
<1> DEFINE n == Len(executed[s]) + 1
           St(e) == Updated([store |-> store[s], map |-> clientSeqMap[s]], e.args)
           Answer(e) == IF e.args.operation = "Get"
                        THEN [e.args EXCEPT !.value = St(e).store[e.args.key]] ELSE e.args
           InHandler == handler[s] # Nil /\ handler[s].idx = n
<1>1. TypeOK /\ ClerkInv /\ AwaitedInv /\ WritesDone /\ HandlerInv /\ Proposals /\ LogInv /\ StoreIsReplay
  BY DEF IInv
<1>2. PICK e \in EntryType :
         /\ n \in 1 .. Len(chosen') /\ n <= MaxStarts
         /\ chosen' \in Seq(EntryType)
         /\ chosen'[n] = e
         /\ [index |-> n, entry |-> e] \in proposed
         /\ \A i \in 1 .. Len(chosen) : chosen'[i] = chosen[i]
         /\ \/ chosen' = chosen
            \/ n = Len(chosen) + 1 /\ Len(chosen') = n
         /\ executed' = [executed EXCEPT ![s] = Append(executed[s], e)]
         /\ InHandler => e = [args |-> handler[s].args, id |-> handler[s].id]
         /\ store' = [store EXCEPT ![s] = St(e).store]
         /\ clientSeqMap' = [clientSeqMap EXCEPT ![s] = St(e).map]
         /\ handler' = IF InHandler THEN [handler EXCEPT ![s].committedOp = Answer(e)] ELSE handler
         /\ UNCHANGED <<proposed, clerkVars, strays, crashes>>
  BY ApplyFacts
<1>3. UNCHANGED <<op, seq, peer, try, returned, since, ops>>
  BY <1>2 DEF clerkVars
<1>4. /\ Len(chosen) \in Nat /\ Len(chosen') \in Nat
      /\ executed[s] \in Seq(EntryType) /\ Len(executed[s]) \in Nat
      /\ Len(executed[s]) <= Len(chosen) /\ n <= Len(chosen) + 1
  BY <1>1, <1>2, StateFacts DEF LogInv
<1>5. /\ \A k \in 0 .. Len(chosen) : Replay'[k] = Replay[k]
      /\ \A k \in 0 .. Len(chosen') : Replay'[k] \in StateType
      /\ n - 1 \in 0 .. Len(chosen)
      /\ Replay'[n] = After(Replay[n - 1], e.args)
      /\ \/ Latest' = Latest /\ Len(chosen') = Len(chosen) /\ Replay' = Replay
         \/ /\ Latest' = After(Latest, e.args) /\ Latest' = Replay'[Len(chosen) + 1]
            /\ n = Len(chosen) + 1 /\ Len(chosen') = Len(chosen) + 1
  BY <1>2, <1>4, GrowFacts
<1>6. e.args \in ArgsType
  BY DEF EntryType
<1>7. St(e).store = Replay'[n].store /\ St(e).map = Replay'[n].last
  <2>1. store[s] = Replay[n - 1].store /\ clientSeqMap[s] = Replay[n - 1].last
    BY <1>1, <1>4 DEF StoreIsReplay
  <2>2. Replay[n - 1] \in StateType
    BY <1>5, StateFacts
  <2> QED  BY <1>5, <1>6, <2>1, <2>2, UpdatedIsAfter
<1>8. St(e).store \in [Key -> Seq(Client)] /\ St(e).map \in [Client -> Nat]
  BY <1>2, <1>5, <1>7, <1>4 DEF StateType
<1>9. Answer(e) \in ArgsType
  BY <1>6, <1>8 DEF ArgsType
<1>10. /\ executed'[s] = Append(executed[s], e) /\ Len(executed'[s]) = n
       /\ executed'[s][n] = e
       /\ \A i \in 1 .. Len(executed[s]) : executed'[s][i] = executed[s][i]
       /\ executed' \in [Server -> Seq(EntryType)]
       /\ \A t \in Server \ {s} : executed'[t] = executed[t]
  BY <1>1, <1>2, <1>4 DEF LogInv
<1>11. Answer(e) = IF e.args.operation = "Get"
                   THEN [e.args EXCEPT !.value = Replay'[n].store[e.args.key]] ELSE e.args
  BY <1>7
<1> HIDE DEF St, Answer
<1>12. Len(chosen) <= Len(chosen')
  BY <1>4, <1>5
<1>13. ASSUME NEW t \in Server, handler'[t] # Nil
       PROVE  /\ handler[t] # Nil /\ handler'[t] \in HandlerType
              /\ handler'[t].args = handler[t].args /\ handler'[t].idx = handler[t].idx
              /\ handler'[t].id = handler[t].id /\ handler'[t].awaited = handler[t].awaited
              /\ \/ handler'[t].committedOp = handler[t].committedOp
                 \/ t = s /\ InHandler /\ handler'[t].committedOp = Answer(e)
  <2>1. CASE t = s /\ InHandler
    <3>1. handler'[t] = [handler[t] EXCEPT !.committedOp = Answer(e)]
      BY <1>1, <1>2, <2>1 DEF TypeOK
    <3>2. handler[t] # Nil /\ handler[t] \in HandlerType
      BY <1>1, <2>1, HandlerFacts
    <3> QED  BY <1>9, <2>1, <3>1, <3>2, AnsweredHandler
  <2>2. CASE ~(t = s /\ InHandler)
    <3>1. handler'[t] = handler[t]
      BY <1>1, <1>2, <2>2 DEF TypeOK
    <3> QED  BY <1>1, <1>13, <3>1, HandlerFacts
  <2> QED  BY <2>1, <2>2
<1>14. TypeOK'
  <2>1. store' \in [Server -> [Key -> Seq(Client)]]
    BY <1>1, <1>2, <1>8 DEF TypeOK
  <2>2. clientSeqMap' \in [Server -> [Client -> Nat]]
    BY <1>1, <1>2, <1>8 DEF TypeOK
  <2>3. handler' \in [Server -> HandlerType \cup {Nil}]
    <3>1. handler' = [t \in Server |-> handler'[t]]
      BY <1>1, <1>2 DEF TypeOK
    <3> QED  BY <1>13, <3>1
  <2> QED  BY <1>1, <1>2, <1>3, <2>1, <2>2, <2>3 DEF TypeOK
<1>15. Proposals'
  BY <1>1, <1>2 DEF Proposals
<1>16. LogInv'
  <2>1. Len(chosen') <= MaxStarts
    BY <1>1, <1>2, <1>5 DEF LogInv
  <2>2. \A i \in 1 .. Len(chosen') : [index |-> i, entry |-> chosen'[i]] \in proposed
    <3> SUFFICES ASSUME NEW i \in 1 .. Len(chosen')
                 PROVE  [index |-> i, entry |-> chosen'[i]] \in proposed
      OBVIOUS
    <3>1. i \in 1 .. Len(chosen) \/ i = n
      BY <1>4, <1>5
    <3> QED  BY <1>1, <1>2, <3>1 DEF LogInv
  <2>3. ASSUME NEW t \in Server
        PROVE  /\ Len(executed'[t]) <= Len(chosen')
               /\ \A i \in 1 .. Len(executed'[t]) : executed'[t][i] = chosen'[i]
    <3>1. CASE t = s
      <4>1. \A i \in 1 .. n : executed'[s][i] = chosen'[i]
        <5> SUFFICES ASSUME NEW i \in 1 .. n PROVE executed'[s][i] = chosen'[i]
          OBVIOUS
        <5>1. i = n \/ (i \in 1 .. Len(executed[s]) /\ i \in 1 .. Len(chosen))
          BY <1>4
        <5> QED  BY <1>1, <1>2, <1>10, <5>1 DEF LogInv
      <4> QED  BY <1>2, <1>10, <3>1, <4>1
    <3>2. CASE t # s
      <4>1. executed'[t] = executed[t] /\ Len(executed[t]) <= Len(chosen) /\ Len(executed[t]) \in Nat
        BY <1>1, <1>10, <3>2 DEF LogInv
      <4>2. \A i \in 1 .. Len(executed[t]) : i \in 1 .. Len(chosen)
        BY <1>4, <4>1
      <4> QED  BY <1>1, <1>2, <1>4, <1>12, <4>1, <4>2 DEF LogInv
    <3> QED  BY <3>1, <3>2
  <2> QED  BY <1>2, <1>10, <2>1, <2>2, <2>3 DEF LogInv
<1>17. StoreIsReplay'
  <2>1. ASSUME NEW t \in Server
        PROVE  /\ store'[t] = Replay'[Len(executed'[t])].store
               /\ clientSeqMap'[t] = Replay'[Len(executed'[t])].last
    <3>1. CASE t = s
      BY <1>1, <1>2, <1>7, <1>10, <3>1 DEF TypeOK
    <3>2. CASE t # s
      <4>1. Len(executed[t]) \in 0 .. Len(chosen)
        BY <1>1, <1>4 DEF LogInv
      <4> QED  BY <1>1, <1>2, <1>5, <1>10, <3>2, <4>1 DEF TypeOK, StoreIsReplay
    <3> QED  BY <3>1, <3>2
  <2> QED  BY <2>1 DEF StoreIsReplay
<1>18. HandlerInv'
  <2> SUFFICES ASSUME NEW t \in Server, handler'[t] # Nil
               PROVE  LET k == handler'[t] IN
                      /\ [index |-> k.idx, entry |-> [args |-> k.args, id |-> k.id]] \in proposed
                      /\ k.committedOp # Nil =>
                            /\ k.idx <= Len(executed'[t])
                            /\ chosen'[k.idx] = [args |-> k.args, id |-> k.id]
                            /\ k.committedOp = IF k.args.operation = "Get"
                                   THEN [k.args EXCEPT !.value = Replay'[k.idx].store[k.args.key]]
                                   ELSE k.args
    BY <1>2 DEF HandlerInv
  <2>1. [index |-> handler'[t].idx, entry |-> [args |-> handler'[t].args, id |-> handler'[t].id]]
           \in proposed
    BY <1>1, <1>13 DEF HandlerInv
  <2>2. CASE t = s /\ InHandler /\ handler'[t].committedOp = Answer(e)
    <3>1. e = [args |-> handler'[t].args, id |-> handler'[t].id] /\ handler'[t].idx = n
      BY <1>2, <1>13, <2>2
    <3>2. e.args = handler'[t].args
      BY <3>1
    <3>3. n <= Len(executed'[t])
      BY <1>4, <1>10, <2>2
    <3>4. chosen'[n] = e
      BY <1>2
    <3>5. Answer(e) = IF handler'[t].args.operation = "Get"
                      THEN [handler'[t].args EXCEPT !.value = Replay'[n].store[handler'[t].args.key]]
                      ELSE handler'[t].args
      BY <1>11, <3>2
    <3> QED  BY <2>1, <2>2, <3>1, <3>3, <3>4, <3>5
  <2>3. CASE handler'[t].committedOp = handler[t].committedOp
    <3>1. SUFFICES ASSUME handler[t].committedOp # Nil
                   PROVE  LET k == handler'[t] IN
                          /\ k.idx <= Len(executed'[t])
                          /\ chosen'[k.idx] = [args |-> k.args, id |-> k.id]
                          /\ k.committedOp = IF k.args.operation = "Get"
                                 THEN [k.args EXCEPT !.value = Replay'[k.idx].store[k.args.key]]
                                 ELSE k.args
      BY <2>1, <2>3
    <3>2. handler[t].idx \in 1 .. Len(chosen) /\ handler[t] # Nil
      BY <1>13, <3>1, AnswerFacts
    <3>3. chosen'[handler[t].idx] = chosen[handler[t].idx] /\ Replay'[handler[t].idx] = Replay[handler[t].idx]
      <4>1. handler[t].idx \in 0 .. Len(chosen)
        BY <1>4, <3>2
      <4>2. \A i \in 1 .. Len(chosen) : chosen'[i] = chosen[i]
        BY <1>2
      <4> QED  BY <1>5, <3>2, <4>1, <4>2
    <3>4. /\ handler[t].idx <= Len(executed[t])
          /\ chosen[handler[t].idx] = [args |-> handler[t].args, id |-> handler[t].id]
          /\ handler[t].committedOp = IF handler[t].args.operation = "Get"
                 THEN [handler[t].args EXCEPT !.value = Replay[handler[t].idx].store[handler[t].args.key]]
                 ELSE handler[t].args
      BY <1>1, <3>1, <3>2 DEF HandlerInv
    <3>5. handler[t].idx <= Len(executed'[t])
      <4>1. Len(executed[t]) \in Nat /\ (Len(executed'[t]) = Len(executed[t]) + 1 \/ executed'[t] = executed[t])
        BY <1>1, <1>10 DEF LogInv
      <4> QED  BY <3>2, <3>4, <4>1
    <3> QED  BY <1>13, <2>3, <3>3, <3>4, <3>5
  <2> QED  BY <1>13, <2>2, <2>3
<1>19. AwaitedInv'
  <2> SUFFICES ASSUME NEW t \in Server, handler'[t] # Nil, handler'[t].awaited
               PROVE  LET k == handler'[t]  d == k.args.client IN
                      /\ op[d] = k.args /\ try[d] = "taken" /\ peer[d] = t
                      /\ \/ k.idx > since[d]
                         \/ k.idx <= Len(chosen') /\ chosen'[k.idx].id # k.id
    BY <1>3 DEF AwaitedInv
  <2>1. /\ handler[t] # Nil /\ handler'[t].args = handler[t].args /\ handler'[t].idx = handler[t].idx
        /\ handler'[t].id = handler[t].id /\ handler[t].awaited
    BY <1>13
  <2>2. handler[t].idx \in Nat /\ handler[t].idx # 0
    BY <1>1, <2>1, HandlerFacts, BoundAssumption
  <2>3. handler[t].idx <= Len(chosen) =>
           handler[t].idx <= Len(chosen') /\ chosen'[handler[t].idx] = chosen[handler[t].idx]
    <3>1. \A i \in 1 .. Len(chosen) : chosen'[i] = chosen[i]
      BY <1>2
    <3>2. ASSUME handler[t].idx <= Len(chosen)
          PROVE  handler[t].idx \in 1 .. Len(chosen) /\ handler[t].idx <= Len(chosen')
      BY <1>4, <1>12, <2>2, <3>2
    <3> QED  BY <3>1, <3>2
  <2> QED  BY <1>1, <2>1, <2>3 DEF AwaitedInv
<1>20. ClerkInv'
  <2>1. \A d \in Client : since[d] <= Len(chosen')
    <3> SUFFICES ASSUME NEW d \in Client PROVE since[d] <= Len(chosen')
      OBVIOUS
    <3>1. since[d] <= Len(chosen) /\ since[d] \in Nat
      BY <1>1, BoundAssumption DEF ClerkInv, TypeOK
    <3> QED  BY <1>4, <1>12, <3>1
  <2> QED  BY <1>1, <1>3, <2>1 DEF ClerkInv
<1>21. WritesDone'
  <2>1. Requests' \subseteq Requests
    BY <1>2, <1>13 DEF Requests
  <2>2. Requests \subseteq ArgsType /\ e.args \in Requests
    BY <1>1, <1>2, RequestFacts DEF Requests
  <2>3. Latest \in StateType /\ Latest' \in StateType
    BY <1>4, <1>5, StateFacts DEF Latest
  <2>4. \A d \in Client : Latest.last[d] <= Latest'.last[d]
    <3>1. \A d \in Client : Latest.last[d] \in Nat
      BY <2>3 DEF StateType
    <3>2. CASE Latest' = Latest
      BY <3>1, <3>2
    <3>3. CASE Latest' = After(Latest, e.args)
      BY <1>6, <2>3, <3>3, AfterFacts
    <3> QED  BY <1>5, <3>2, <3>3
  <2>5. ASSUME NEW a \in Requests', IsWrite(a)
        PROVE  a = op[a.client] \/ a.seq <= Latest'.last[a.client]
    <3>1. a \in Requests /\ a.client \in Client /\ a.seq \in Nat
      BY <2>1, <2>2, <2>5 DEF ArgsType
    <3>2. Latest.last[a.client] \in Nat /\ Latest'.last[a.client] \in Nat
      BY <2>3, <3>1 DEF StateType
    <3>3. a = op[a.client] \/ a.seq <= Latest.last[a.client]
      BY <1>1, <2>5, <3>1 DEF WritesDone
    <3> QED  BY <2>4, <3>1, <3>2, <3>3
  <2>6. ASSUME NEW d \in Client PROVE Latest'.last[d] <= seq[d]
    <3>1. Latest.last[d] <= seq[d] /\ seq[d] \in Nat
      BY <1>1, ClerkFacts DEF WritesDone
    <3>2. CASE Latest'.last[d] = Latest.last[d]
      BY <3>1, <3>2
    <3>3. CASE Latest'.last[d] # Latest.last[d]
      <4>1. Latest' = After(Latest, e.args)
        BY <1>5, <3>3
      <4>2. d = e.args.client /\ IsWrite(e.args) /\ ~(e.args.seq <= Latest.last[d])
        BY <1>6, <2>3, <3>3, <4>1, AfterFacts DEF IsWrite
      <4>3. op[d] = e.args
        BY <1>1, <2>2, <4>2 DEF WritesDone
      <4>4. e.args # Nil /\ e.args.seq = seq[d]
        BY <1>1, <1>6, <4>3, NilAssumption DEF ClerkInv
      <4>5. Latest'.last[d] = e.args.seq
        BY <1>6, <2>3, <4>1, <4>2 DEF After, IsWrite, StateType
      <4> QED  BY <3>1, <4>4, <4>5
    <3> QED  BY <3>2, <3>3
  <2> QED  BY <1>3, <2>5, <2>6 DEF WritesDone
<1> QED
  BY <1>14, <1>15, <1>16, <1>17, <1>18, <1>19, <1>20, <1>21 DEF IInv

----------------------------------------------------------------------------------
(* The invariants.                                                               *)

LEMMA NextHolds == IInv /\ [Next]_vars => IInv'
<1> SUFFICES ASSUME IInv, [Next]_vars PROVE IInv'
  OBVIOUS
<1>1. ASSUME NEW c \in Client, Call(c) PROVE IInv'
  BY <1>1, CallStep
<1>2. ASSUME NEW c \in Client, TryNext(c) PROVE IInv'
  BY <1>2, TryNextStep
<1>3. ASSUME NEW s \in Server, NEW args \in Awaited(s), Handle(s, args, TRUE) PROVE IInv'
  BY <1>3, HandleStep
<1>4. ASSUME NEW s \in Server, NEW args \in strays, Handle(s, args, FALSE) PROVE IInv'
  BY <1>4, HandleStep
<1>5. ASSUME NEW s \in Server, Apply(s) PROVE IInv'
  BY <1>5, ApplyStep
<1>6. ASSUME NEW s \in Server, Reply(s) PROVE IInv'
  BY <1>6, ReplyStep
<1>7. ASSUME NEW s \in Server, TimeOut(s) PROVE IInv'
  BY <1>7, TimeOutStep
<1>8. ASSUME NEW s \in Server, Crash(s) PROVE IInv'
  BY <1>8, CrashStep
<1>9. CASE UNCHANGED vars
  <2>1. /\ UNCHANGED <<logVars, store, clientSeqMap, handler, strays, crashes>>
        /\ UNCHANGED <<op, seq, peer, try, returned, since, ops>>
        /\ UNCHANGED <<proposed, chosen, executed>>
    BY <1>9 DEF vars, serverVars, clerkVars, logVars
  <2>2. Proposals' /\ LogInv' /\ StoreIsReplay' /\ Replay' = Replay /\ Latest' = Latest
    BY <2>1, LogFrame
  <2>3. TypeOK'
    BY <2>1 DEF IInv, TypeOK
  <2>4. HandlerInv'
    BY <2>1, <2>2 DEF IInv, HandlerInv
  <2>5. AwaitedInv'
    BY <2>1 DEF IInv, AwaitedInv
  <2>6. ClerkInv'
    BY <2>1 DEF IInv, ClerkInv
  <2>7. WritesDone'
    <3>1. Requests' = Requests
      BY <2>1 DEF Requests
    <3> QED  BY <2>1, <2>2, <3>1 DEF IInv, WritesDone
  <2> QED  BY <2>2, <2>3, <2>4, <2>5, <2>6, <2>7 DEF IInv
<1> QED
  BY <1>1, <1>2, <1>3, <1>4, <1>5, <1>6, <1>7, <1>8, <1>9 DEF Next

(* The inductive invariant: what is in the logs, in the handlers and on the way  *)
(* to the servers agrees with what the clerks wait for.                          *)
THEOREM AlwaysIInv == Spec => []IInv
<1> QED
  BY InitHolds, NextHolds, PTL DEF Spec

(* Every variable of the key/value service keeps its type (kvserver.hpp,         *)
(* client.hpp), however many servers, clerks, keys and crashes there are.        *)
THEOREM AlwaysTypeOK == Spec => []TypeOK
<1>1. IInv => TypeOK
  BY DEF IInv
<1> QED
  BY <1>1, AlwaysIInv, PTL

(* applierLoop computes the same store and the same table of numbers from the    *)
(* same entries on every server and after every restart: each write counts once, *)
(* whatever requests were retried or started twice.                              *)
THEOREM AlwaysStoreIsReplay == Spec => []StoreIsReplay
<1>1. IInv => StoreIsReplay
  BY DEF IInv
<1> QED
  BY <1>1, AlwaysIInv, PTL

----------------------------------------------------------------------------------
(* The clerks see a linearizable store.                                          *)

Done == {c \in Client : /\ op[c] # Nil /\ op[c].operation # "Get"
                        /\ Latest.last[c] >= op[c].seq}
Values(f, m, n, k) == {f[i].store[k] : i \in m .. n}
SeenBy(c) == IF op[c] # Nil /\ op[c].operation = "Get"
             THEN Values(Replay, since[c], Len(chosen), op[c].key) ELSE {}
Seen == [c \in Client |-> SeenBy(c)]

LEMMA ServiceInit == Init => Service!Init
<1> SUFFICES ASSUME Init PROVE Service!Init
  OBVIOUS
<1>1. Latest.store = Empty
  <2>1. chosen = <<>> /\ chosen \in Seq(EntryType) /\ Len(chosen) = 0
    BY DEF Init, LogInit
  <2>2. Replay[0] = Start
    BY <2>1, ReplayDef DEF Replay
  <2> QED  BY <2>1, <2>2 DEF Latest, Start
<1>2. op = [c \in Client |-> Nil] /\ returned = [c \in Client |-> Nil]
  BY DEF Init
<1>3. Done = {} /\ Seen = [c \in Client |-> {}]
  BY <1>2 DEF Done, Seen, SeenBy
<1> QED
  BY <1>1, <1>2, <1>3 DEF Service!Init, Done, Seen, SeenBy, Values, Empty

(* A step that ends no operation and lets none take effect is a stutter.         *)
LEMMA ServiceStutter ==
  ASSUME UNCHANGED <<op, returned, since, chosen>>
  PROVE  UNCHANGED Service!vars
<1>1. Replay' = Replay /\ Latest' = Latest
  BY DEF Replay, Latest
<1>2. Done' = Done /\ Seen' = Seen
  BY <1>1 DEF Done, Seen, SeenBy
<1> QED
  BY <1>1, <1>2 DEF Service!vars, Done, Seen, SeenBy, Values

LEMMA ServiceCall ==
  ASSUME IInv, NEW c \in Client, Call(c)
  PROVE  Service!Call(c, op'[c])
<1>1. PICK operation \in Operation, key \in Key :
         /\ seq' = [seq EXCEPT ![c] = NewSeq(c, operation)]
         /\ op' = [op EXCEPT ![c] = Args(c, operation, key, seq'[c])]
  BY DEF Call
<1> DEFINE a == Args(c, operation, key, seq'[c])
<1>2. /\ op[c] = Nil
      /\ since' = [since EXCEPT ![c] = Len(chosen)]
      /\ UNCHANGED <<chosen, returned>>
  BY DEF Call, logVars
<1>3. TypeOK /\ ClerkInv /\ WritesDone
  BY DEF IInv
<1>4. IInv'
  BY CallStep
<1>5. Replay' = Replay /\ Latest' = Latest /\ Latest \in StateType /\ Len(chosen) \in Nat
  BY <1>2, StateFacts DEF Replay, Latest
<1>6. op' = [op EXCEPT ![c] = a] /\ op'[c] = a
  BY <1>1, <1>3 DEF TypeOK
<1>7. a.operation = operation /\ a.key = key /\ a.seq = seq'[c]
  BY DEF Args
<1>8. a # Nil
  <2>1. op'[c] \in ArgsType \cup {Nil} /\ (op'[c] = Nil <=> try'[c] = "none") /\ try'[c] = "sent"
    BY <1>3, <1>4 DEF IInv, TypeOK, ClerkInv, Call
  <2> QED  BY <1>6, <2>1
<1> HIDE DEF a
<1>9. Done' = Done
  <2>1. c \notin Done
    BY <1>2 DEF Done
  <2>2. c \notin Done'
    <3> SUFFICES ASSUME operation # "Get" PROVE ~(Latest.last[c] >= seq'[c])
      BY <1>5, <1>6, <1>7 DEF Done
    <3>1. seq'[c] = seq[c] + 1
      BY <1>1, <1>3 DEF NewSeq, TypeOK
    <3>2. Latest.last[c] <= seq[c] /\ Latest.last[c] \in Nat /\ seq[c] \in Nat
      BY <1>3, <1>5, ClerkFacts DEF WritesDone, StateType
    <3> QED  BY <3>1, <3>2
  <2>3. \A d \in Client \ {c} : op'[d] = op[d]
    BY <1>3, <1>6 DEF TypeOK
  <2> QED  BY <1>5, <2>1, <2>2, <2>3 DEF Done
<1>10. Seen' = [Seen EXCEPT ![c] = IF a.operation = "Get" THEN {Latest.store[a.key]} ELSE {}]
  <2>1. \A d \in Client \ {c} : op'[d] = op[d] /\ since'[d] = since[d]
    BY <1>2, <1>3, <1>6 DEF TypeOK
  <2>2. since'[c] = Len(chosen)
    BY <1>2, <1>3 DEF TypeOK
  <2>3. since'[c] .. Len(chosen) = {Len(chosen)}
    BY <1>5, <2>2
  <2>4. Values(Replay, since'[c], Len(chosen), a.key) = {Latest.store[a.key]}
    BY <2>3 DEF Latest, Values
  <2>5. SeenBy(c)' = IF a.operation = "Get" THEN {Latest.store[a.key]} ELSE {}
    BY <1>2, <1>5, <1>6, <1>8, <2>4 DEF SeenBy
  <2>6. \A d \in Client \ {c} : SeenBy(d)' = SeenBy(d)
    BY <1>2, <1>5, <2>1 DEF SeenBy
  <2> QED  BY <2>5, <2>6 DEF Seen
<1> QED
  BY <1>2, <1>5, <1>6, <1>8, <1>9, <1>10 DEF Service!Call, Done, Seen, SeenBy, Values

(* A clerk's operation returns: a write that has taken effect, or a value its    *)
(* key had since the call.                                                       *)
LEMMA ServiceReturn ==
  ASSUME IInv, NEW c \in Client, NEW v, ReturnTo(c, v), op[c] # Nil, UNCHANGED chosen,
         op[c].operation = "Get" =>
            \E n \in since[c] .. Len(chosen) : v = Replay[n].store[op[c].key],
         op[c].operation # "Get" => v = Nil /\ op[c].seq <= Latest.last[c]
  PROVE  Service!Return(c)
<1>1. /\ returned' = [returned EXCEPT ![c] = v]
      /\ op' = [op EXCEPT ![c] = Nil]
      /\ since' = since
  BY DEF ReturnTo
<1>2. TypeOK /\ ClerkInv
  BY DEF IInv
<1>3. Replay' = Replay /\ Latest' = Latest
  BY DEF Replay, Latest
<1>4. op'[c] = Nil /\ \A d \in Client \ {c} : op'[d] = op[d]
  BY <1>1, <1>2 DEF TypeOK
<1>5. op[c].operation = "Get" => v \in Seen[c]
  BY DEF Seen, SeenBy, Values
<1>6. op[c].operation # "Get" => c \in Done
  <2>1. op[c].seq \in Nat /\ Latest.last[c] \in Nat
    BY <1>2, ClerkFacts, StateFacts DEF ArgsType, StateType
  <2> QED  BY <2>1 DEF Done
<1>7. Done' = Done \ {c}
  BY <1>3, <1>4 DEF Done
<1>8. Seen' = [Seen EXCEPT ![c] = {}]
  <2>1. SeenBy(c)' = {}
    BY <1>4 DEF SeenBy
  <2>2. \A d \in Client \ {c} : SeenBy(d)' = SeenBy(d)
    BY <1>1, <1>3, <1>4 DEF SeenBy
  <2> QED  BY <2>1, <2>2 DEF Seen
<1> QED
  BY <1>1, <1>3, <1>5, <1>6, <1>7, <1>8 DEF Service!Return, Done, Seen, SeenBy, Values

LEMMA ServiceReply ==
  ASSUME IInv, NEW s \in Server, Reply(s)
  PROVE  UNCHANGED Service!vars \/ \E c \in Client : Service!Return(c)
<1>1. UNCHANGED chosen
  BY ReplyFacts DEF logVars
<1>2. CASE UNCHANGED clerkVars
  BY <1>1, <1>2, ServiceStutter DEF clerkVars
<1>3. CASE ~UNCHANGED clerkVars
  <2> DEFINE h == handler[s]
             c == h.args.client
             v == IF h.args.operation = "Get" THEN h.committedOp.value ELSE Nil
  <2>1. /\ handler[s] # Nil /\ h.awaited /\ h.committedOp # Nil
        /\ c \in Client /\ op[c] = h.args /\ op[c] # Nil
        /\ ReturnTo(c, v)
        /\ IsWrite(op[c]) => op[c].seq <= Latest.last[c]
    BY <1>3, ReplyFacts
  <2>2. ASSUME op[c].operation = "Get"
        PROVE  \E n \in since[c] .. Len(chosen) : v = Replay[n].store[op[c].key]
    <3>1. /\ h.idx \in 1 .. Len(chosen)
          /\ chosen[h.idx] = [args |-> h.args, id |-> h.id]
          /\ v = Replay[h.idx].store[op[c].key]
      BY <2>1, <2>2, AnswerFacts
    <3>2. chosen[h.idx].id = h.id
      BY <3>1
    <3>3. h.idx > since[c]
      BY <2>1, <3>2 DEF IInv, AwaitedInv
    <3>4. since[c] \in Nat /\ Len(chosen) \in Nat
      BY <2>1, StateFacts, BoundAssumption DEF IInv, TypeOK
    <3>5. h.idx \in since[c] .. Len(chosen)
      BY <3>1, <3>3, <3>4
    <3> QED  BY <3>1, <3>5
  <2>3. op[c].operation # "Get" => v = Nil /\ op[c].seq <= Latest.last[c]
    BY <2>1 DEF IsWrite
  <2> HIDE DEF c, v, h
  <2> QED  BY <1>1, <2>1, <2>2, <2>3, ServiceReturn
<1> QED
  BY <1>2, <1>3

LEMMA ServiceHandle ==
  ASSUME IInv, NEW s \in Server, NEW args, NEW awaited \in BOOLEAN, Handle(s, args, awaited)
  PROVE  UNCHANGED Service!vars \/ \E c \in Client : Service!Return(c)
<1> DEFINE c == args.client
<1>1. /\ args \in ArgsType /\ c \in Client /\ UNCHANGED chosen
      /\ awaited => op[c] = args /\ op[c] # Nil
      /\ \/ Applied(s, args) /\ awaited /\ ReturnTo(c, Nil)
         \/ UNCHANGED clerkVars
         \/ UNCHANGED <<op, seq, peer, returned, since, ops>>
  BY HandleFacts
<1>2. CASE UNCHANGED <<op, returned, since>>
  BY <1>1, <1>2, ServiceStutter
<1>3. CASE Applied(s, args) /\ awaited /\ ReturnTo(c, Nil)
  <2>1. Len(executed[s]) \in 0 .. Len(chosen)
    BY DEF IInv, LogInv
  <2>2. args.operation # "Get" /\ args.seq <= clientSeqMap[s][c]
        /\ clientSeqMap[s][c] = Replay[Len(executed[s])].last[c]
    <3>1. clientSeqMap[s][c] >= args.seq /\ args.seq \in Nat /\ clientSeqMap[s][c] \in Nat
      BY <1>1, <1>3 DEF Applied, ArgsType, IInv, TypeOK
    <3> QED  BY <1>3, <3>1 DEF Applied, IInv, StoreIsReplay
  <2>3. Replay[Len(executed[s])].last[c] <= Latest.last[c]
    BY <1>1, <2>1, StateFacts
  <2>4. Replay[Len(executed[s])].last[c] \in Nat /\ Latest.last[c] \in Nat /\ args.seq \in Nat
    BY <1>1, <2>1, StateFacts DEF StateType, ArgsType
  <2>5. args.seq <= Latest.last[c]
    BY <2>2, <2>3, <2>4
  <2>6. op[c].operation # "Get" /\ op[c].seq <= Latest.last[c] /\ op[c] # Nil
    BY <1>1, <1>3, <2>2, <2>5
  <2> HIDE DEF c
  <2> QED  BY <1>1, <1>3, <2>6, ServiceReturn
<1> QED
  BY <1>1, <1>2, <1>3 DEF clerkVars

(* Execution of an entry lets a pending write take effect, or changes nothing a  *)
(* clerk can tell.                                                               *)
LEMMA ServiceApply ==
  ASSUME IInv, NEW s \in Server, Apply(s)
  PROVE  UNCHANGED Service!vars \/ \E c \in Client : Service!TakeEffect(c)
<1> DEFINE n == Len(executed[s]) + 1
<1>1. TypeOK /\ ClerkInv /\ WritesDone /\ Proposals /\ LogInv
  BY DEF IInv
<1>2. PICK e \in EntryType :
         /\ n \in 1 .. Len(chosen') /\ chosen' \in Seq(EntryType) /\ chosen'[n] = e
         /\ [index |-> n, entry |-> e] \in proposed
         /\ \A i \in 1 .. Len(chosen) : chosen'[i] = chosen[i]
         /\ chosen' = chosen \/ (n = Len(chosen) + 1 /\ Len(chosen') = n)
         /\ UNCHANGED <<op, returned, since>>
  BY ApplyFacts DEF clerkVars
<1>3. /\ Len(chosen) \in Nat /\ n <= Len(chosen) + 1 /\ Latest \in StateType
  BY <1>1, StateFacts DEF LogInv
<1>4. /\ \A k \in 0 .. Len(chosen) : Replay'[k] = Replay[k]
      /\ \/ Latest' = Latest /\ Len(chosen') = Len(chosen) /\ Replay' = Replay
         \/ /\ Latest' = After(Latest, e.args) /\ Latest' = Replay'[Len(chosen) + 1]
            /\ n = Len(chosen) + 1 /\ Len(chosen') = Len(chosen) + 1
  BY <1>2, <1>3, GrowFacts
<1> DEFINE a == e.args
           c == a.client
<1>5. a \in ArgsType /\ a # Nil
  BY NilAssumption DEF EntryType
<1>6. c \in Client /\ a.key \in Key /\ a.seq \in Nat
  BY <1>5 DEF ArgsType
<1>7. a \in Requests
  BY <1>2 DEF Requests
<1> HIDE DEF n, a
<1>8. CASE Latest' = Latest /\ Len(chosen') = Len(chosen) /\ Replay' = Replay
  <2>1. Done' = Done /\ Seen' = Seen
    BY <1>2, <1>8 DEF Done, Seen, SeenBy
  <2> QED  BY <1>2, <1>8, <2>1 DEF Service!vars, Done, Seen, SeenBy, Values
<1>9. CASE /\ Latest' = After(Latest, a) /\ Latest' = Replay'[Len(chosen) + 1]
           /\ Len(chosen') = Len(chosen) + 1
  <2>1. ASSUME NEW d \in Client, NEW k
        PROVE  Values(Replay', since[d], Len(chosen'), k)
                  = Values(Replay, since[d], Len(chosen), k) \cup {Latest'.store[k]}
    <3>1. since[d] \in 0 .. Len(chosen)
      BY <1>1, <1>3, BoundAssumption DEF ClerkInv, TypeOK
    <3>2. since[d] .. Len(chosen') = (since[d] .. Len(chosen)) \cup {Len(chosen) + 1}
      BY <1>3, <1>9, <3>1
    <3>3. since[d] .. Len(chosen) \subseteq 0 .. Len(chosen)
      BY <1>3, <3>1
    <3>4. \A i \in since[d] .. Len(chosen) : Replay'[i] = Replay[i]
      BY <1>4, <3>3
    <3> QED  BY <1>9, <3>2, <3>4 DEF Values
  <2>2. ASSUME NEW d \in Client, NEW k PROVE Latest.store[k] \in Values(Replay, since[d], Len(chosen), k)
    <3>1. Len(chosen) \in since[d] .. Len(chosen)
      BY <1>1, <1>3, BoundAssumption DEF ClerkInv, TypeOK
    <3> QED  BY <3>1 DEF Values, Latest
  <2>3. CASE a.operation = "Get" \/ a.seq <= Latest.last[c]
    <3>1. Latest' = Latest
      BY <1>3, <1>5, <1>9, <2>3, AfterFacts
    <3>2. Done' = Done
      BY <1>2, <3>1 DEF Done
    <3>3. \A d \in Client : SeenBy(d)' = SeenBy(d)
      <4> SUFFICES ASSUME NEW d \in Client PROVE SeenBy(d)' = SeenBy(d)
        OBVIOUS
      <4>1. ASSUME NEW k
            PROVE  Values(Replay', since[d], Len(chosen'), k) = Values(Replay, since[d], Len(chosen), k)
        <5>1. Values(Replay', since[d], Len(chosen'), k)
                 = Values(Replay, since[d], Len(chosen), k) \cup {Latest.store[k]}
          BY <2>1, <3>1
        <5>2. Latest.store[k] \in Values(Replay, since[d], Len(chosen), k)
          BY <2>2
        <5> QED  BY <5>1, <5>2
      <4> QED  BY <1>2, <4>1 DEF SeenBy
    <3>4. Seen' = Seen
      BY <3>3 DEF Seen
    <3> QED  BY <1>2, <3>1, <3>2, <3>4 DEF Service!vars, Done, Seen, SeenBy, Values
  <2>4. CASE a.operation # "Get" /\ ~(a.seq <= Latest.last[c])
    <3>1. op[c] = a /\ op[c] # Nil
      BY <1>1, <1>5, <1>7, <2>4 DEF WritesDone, IsWrite
    <3> DEFINE w == IF a.operation = "Put" THEN a.value ELSE Latest.store[a.key] \o a.value
    <3>2. Latest' = [store |-> [Latest.store EXCEPT ![a.key] = w],
                     last |-> [Latest.last EXCEPT ![c] = a.seq]]
      BY <1>9, <2>4 DEF After
    <3>3. Latest.store \in [Key -> Seq(Client)] /\ Latest.last \in [Client -> Nat]
      BY <1>3 DEF StateType
    <3>4. /\ Latest'.store = [Latest.store EXCEPT ![a.key] = w] /\ Latest'.store[a.key] = w
          /\ \A k \in Key : k # a.key => Latest'.store[k] = Latest.store[k]
          /\ Latest'.last[c] = a.seq
          /\ \A d \in Client : d # c => Latest'.last[d] = Latest.last[d]
      BY <1>6, <3>2, <3>3
    <3> HIDE DEF w
    <3>5. c \notin Done
      BY <1>6, <2>4, <3>1, <3>3 DEF Done
    <3>6. Done' = Done \cup {c}
      <4>1. c \in Done'
        BY <1>2, <1>6, <2>4, <3>1, <3>4 DEF Done
      <4>2. \A d \in Client : d # c => (d \in Done' <=> d \in Done)
        BY <1>2, <3>4 DEF Done
      <4> QED  BY <4>1, <4>2 DEF Done
    <3>7. Seen' = [d \in Client |-> IF op[d] # Nil /\ op[d].operation = "Get" /\ op[d].key = a.key
                                    THEN Seen[d] \cup {Latest'.store[a.key]} ELSE Seen[d]]
      <4> SUFFICES ASSUME NEW d \in Client
                   PROVE  SeenBy(d)' = IF op[d] # Nil /\ op[d].operation = "Get" /\ op[d].key = a.key
                                       THEN SeenBy(d) \cup {Latest'.store[a.key]} ELSE SeenBy(d)
        BY DEF Seen
      <4>1. CASE op[d] # Nil /\ op[d].operation = "Get"
        <5>1. op[d].key \in Key
          BY <1>1, <4>1 DEF TypeOK, ArgsType
        <5>2. SeenBy(d) = Values(Replay, since[d], Len(chosen), op[d].key)
          BY <4>1 DEF SeenBy
        <5>3. SeenBy(d)' = Values(Replay', since[d], Len(chosen'), op[d].key)
          BY <1>2, <4>1 DEF SeenBy
        <5>4. SeenBy(d)' = SeenBy(d) \cup {Latest'.store[op[d].key]}
          BY <2>1, <5>2, <5>3
        <5>5. op[d].key # a.key => SeenBy(d)' = SeenBy(d)
          BY <2>2, <3>4, <5>1, <5>2, <5>4
        <5> QED  BY <4>1, <5>4, <5>5
      <4>2. CASE ~(op[d] # Nil /\ op[d].operation = "Get")
        BY <1>2, <4>2 DEF SeenBy
      <4> QED  BY <4>1, <4>2
    <3>8. /\ op[c] # Nil /\ op[c].operation # "Get"
          /\ Latest'.store = [Latest.store EXCEPT ![op[c].key] =
                                 IF op[c].operation = "Put" THEN op[c].value ELSE @ \o op[c].value]
      BY <2>4, <3>1, <3>4 DEF w
    <3>9. Seen' = [d \in Client |-> IF op[d] # Nil /\ op[d].operation = "Get" /\ op[d].key = op[c].key
                                    THEN Seen[d] \cup {Latest'.store[op[c].key]} ELSE Seen[d]]
      BY <3>1, <3>7
    <3>10. Service!TakeEffect(c)
      BY <1>2, <3>5, <3>6, <3>8, <3>9
      DEF Service!TakeEffect, Service!IsRead, Done, Seen, SeenBy, Values
    <3> QED  BY <1>6, <3>10
  <2> QED  BY <2>3, <2>4
<1> QED
  BY <1>4, <1>8, <1>9 DEF a

(* The clerks see a linearizable store (the promise of Lab 4), whatever was lost, *)
(* answered late, retried at other servers, started twice or replayed after a     *)
(* crash: every step of the service is a step of KVService or a stutter.          *)
THEOREM ServiceLinearizable == Spec => Linearizable
<1>1. ASSUME IInv, [Next]_vars PROVE [Service!Next]_(Service!vars)
  <2>1. ASSUME NEW c \in Client, Call(c) PROVE Service!Next
    BY <1>1, <2>1, ServiceCall DEF Service!Next
  <2>2. ASSUME NEW c \in Client, TryNext(c) PROVE UNCHANGED Service!vars
    <3>1. UNCHANGED <<op, returned, since, chosen>>
      BY <2>2 DEF TryNext, logVars
    <3> QED  BY <3>1, ServiceStutter
  <2>3. ASSUME NEW s \in Server, NEW args, NEW awaited \in BOOLEAN, Handle(s, args, awaited)
        PROVE  Service!Next \/ UNCHANGED Service!vars
    BY <1>1, <2>3, ServiceHandle DEF Service!Next
  <2>4. ASSUME NEW s \in Server, Apply(s) PROVE Service!Next \/ UNCHANGED Service!vars
    BY <1>1, <2>4, ServiceApply DEF Service!Next
  <2>5. ASSUME NEW s \in Server, Reply(s) PROVE Service!Next \/ UNCHANGED Service!vars
    BY <1>1, <2>5, ServiceReply DEF Service!Next
  <2>6. ASSUME NEW s \in Server, TimeOut(s) PROVE UNCHANGED Service!vars
    <3>1. UNCHANGED <<op, returned, since, chosen>>
      BY <2>6 DEF TimeOut, logVars, clerkVars
    <3> QED  BY <3>1, ServiceStutter
  <2>7. ASSUME NEW s \in Server, Crash(s) PROVE UNCHANGED Service!vars
    <3>1. UNCHANGED <<op, returned, since, chosen>>
      BY <2>7 DEF Crash, Restart, clerkVars
    <3> QED  BY <3>1, ServiceStutter
  <2>8. CASE UNCHANGED vars
    <3>1. UNCHANGED <<op, returned, since, chosen>>
      BY <2>8 DEF vars, logVars, clerkVars
    <3> QED  BY <3>1, ServiceStutter
  <2> QED  BY <1>1, <2>1, <2>2, <2>3, <2>4, <2>5, <2>6, <2>7, <2>8 DEF Next
<1> QED
  BY <1>1, ServiceInit, AlwaysIInv, PTL DEF Spec, Linearizable, Service!Spec

==================================================================================
