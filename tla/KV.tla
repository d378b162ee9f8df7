---------------------------------- MODULE KV ----------------------------------
(***************************************************************************)
(* The key/value service of Lab4_KvRaft: clerks, and one KVServer on top   *)
(* of each Raft instance.  Raft is what ReplicatedLog promises of it (that *)
(* it keeps the promise is checked of the module Raft).                    *)
(*                                                                         *)
(* Server::dispatch holds its mutex until the handler returns, and a KV    *)
(* handler returns after its command was executed or 500 ms.  So a server  *)
(* runs one handler at a time, and while one waits its Raft instance gets  *)
(* no AppendEntries: the entry it started stays in its log.                *)
(*                                                                         *)
(* Nobody is obliged to answer or to be leader: a request that is lost,    *)
(* late or answered with ErrWrongLeader has the same effect, TryNext.      *)
(***************************************************************************)
EXTENDS ReplicatedLog, FiniteSets

CONSTANTS
    nums,           \* the number of servers
    Client,         \* the clerks
    Key,
    Nil,
    Operation,      \* bound: what the clerks call, of Get, Put and Append
    MaxOps,         \* bound: operations of all clerks together
    MaxStarts,      \* bound: commands that start() accepts
    MaxCrashes      \* bound: crashes of servers

ASSUME ServerAssumption == nums \in Nat \ {0} /\ Server = 0 .. nums - 1
ASSUME OperationAssumption == Operation \subseteq {"Get", "Put", "Append"}
ASSUME BoundAssumption == MaxOps \in Nat /\ MaxStarts \in Nat /\ MaxCrashes \in Nat

(* GetArgs and PutAppendArgs as Raft's Command holds them.  A value is a     *)
(* sequence of written texts, and a clerk writes its own mark.             *)
ArgsType == [operation : {"Get", "Put", "Append"}, key : Key, value : Seq(Client),
             client : Client, seq : Nat]

(* What a handler knows that waits for its command.                        *)
HandlerType == [args : ArgsType, idx : 1 .. MaxStarts, id : 1 .. MaxStarts,
                awaited : BOOLEAN, committedOp : ArgsType \cup {Nil}]

ASSUME NilAssumption == Nil \notin ArgsType /\ Nil \notin HandlerType

VARIABLES
    store,          \* m_kvStore
    clientSeqMap,   \* m_clientSeqMap; 0: no entry
    handler,        \* the get or putAppend a server is in, with its promise, or Nil
    op,             \* the operation each clerk is in, as the arguments it sends, or Nil
    seq,            \* m_seq
    peer,           \* the server the clerk asks, m_leaderHint between operations
    try,            \* its request to that server: "none", "sent" or "taken"
    returned,       \* what the clerk's last operation returned; Nil for a write
    strays,         \* requests that were sent and that no clerk waits for
    ops, crashes,   \* counted for the bounds
    since           \* history: Len(chosen) when a clerk's operation was called

serverVars == <<store, clientSeqMap, handler>>
clerkVars  == <<op, seq, peer, try, returned, since, ops>>
vars == <<logVars, serverVars, clerkVars, strays, crashes>>

-----------------------------------------------------------------------------

Empty == [k \in Key |-> <<>>]
NoSeq == [c \in Client |-> 0]

Init ==
    /\ LogInit
    /\ store = [s \in Server |-> Empty]
    /\ clientSeqMap = [s \in Server |-> NoSeq]
    /\ handler = [s \in Server |-> Nil]
    /\ op = [c \in Client |-> Nil]
    /\ seq = [c \in Client |-> 0]
    /\ peer = [c \in Client |-> 0]
    /\ try = [c \in Client |-> "none"]
    /\ returned = [c \in Client |-> Nil]
    /\ strays = {}
    /\ ops = 0
    /\ crashes = 0
    /\ since = [c \in Client |-> 0]

-----------------------------------------------------------------------------
(* The clerk.                                                              *)

(* The arguments of an operation.                                          *)
Args(c, operation, key, n) ==
    [operation |-> operation, key |-> key, value |-> IF operation = "Get" THEN <<>> ELSE <<c>>,
     client |-> c, seq |-> n]

(* PutAppend gives its operation a new number, Get does not.               *)
NewSeq(c, operation) == IF operation = "Get" THEN seq[c] ELSE seq[c] + 1

(* Get, Put, Append: the first request goes to the last known leader.      *)
Call(c) ==
    /\ op[c] = Nil /\ ops < MaxOps
    /\ ops' = ops + 1
    /\ \E operation \in Operation, key \in Key :
          /\ seq' = [seq EXCEPT ![c] = NewSeq(c, operation)]
          /\ op' = [op EXCEPT ![c] = Args(c, operation, key, seq'[c])]
    /\ try' = [try EXCEPT ![c] = "sent"]
    /\ since' = [since EXCEPT ![c] = Len(chosen)]
    /\ UNCHANGED <<logVars, serverVars, peer, returned, strays, crashes>>

TryNextAnew(c) ==                                               \* mutant
    /\ op[c] # Nil
    /\ peer' = [peer EXCEPT ![c] = (@ + 1) % nums]
    /\ seq' = [seq EXCEPT ![c] = @ + 1]
    /\ op' = [op EXCEPT ![c].seq = @ + 1]
    /\ try' = [try EXCEPT ![c] = "sent"]
    /\ strays' = strays \cup {op[c]}
    /\ handler' = [s \in Server |->
                      IF handler[s] # Nil /\ handler[s].args.client = c
                      THEN [handler[s] EXCEPT !.awaited = FALSE] ELSE handler[s]]
    /\ UNCHANGED <<logVars, store, clientSeqMap, returned, since, ops, crashes>>

(* 150 ms are over, or the answer is an error: the clerk asks the next     *)
(* server.  The old request may still be in a handler, and as the clerk    *)
(* may go round any number of times, any number of them may be on the way  *)
(* to any server.                                                          *)
TryNext(c) ==
    /\ op[c] # Nil
    /\ peer' = [peer EXCEPT ![c] = (@ + 1) % nums]
    /\ try' = [try EXCEPT ![c] = "sent"]
    /\ strays' = strays \cup {op[c]}
    /\ handler' = [s \in Server |->
                      IF handler[s] # Nil /\ handler[s].args.client = c
                      THEN [handler[s] EXCEPT !.awaited = FALSE] ELSE handler[s]]
    /\ UNCHANGED <<logVars, store, clientSeqMap, op, seq, returned, since, ops, crashes>>

(* OK or ErrNoKey: the clerk's operation returns v.                        *)
ReturnTo(c, v) ==
    /\ returned' = [returned EXCEPT ![c] = v]
    /\ seq' = [seq EXCEPT ![c] = IF op[c].operation = "Get" THEN @ ELSE @ + 1]
    /\ op' = [op EXCEPT ![c] = Nil]
    /\ try' = [try EXCEPT ![c] = "none"]
    /\ UNCHANGED <<peer, since, ops>>

-----------------------------------------------------------------------------
(* The server.                                                             *)

(* The requests of the clerks' present tries; each is taken once.          *)
Awaited(s) == {op[c] : c \in {d \in Client : peer[d] = s /\ try[d] = "sent"}}

(* start() accepts a command as an entry of its own, and returns an index. *)
Entry(args) == [args |-> args, id |-> Cardinality(proposed) + 1]

Accept(s, args, i) ==
    /\ Cardinality(proposed) < MaxStarts
    /\ Propose(s, i, Entry(args))

(* putAppend's test for a write this server has applied already.           *)
Applied(s, args) == args.operation # "Get" /\ clientSeqMap[s][args.client] >= args.seq

(* get, putAppend up to the wait: start() first, then the test, then the   *)
(* promise.  Where start() says "not leader" nothing changes (TryNext).    *)
Handle(s, args, awaited) ==
    /\ handler[s] = Nil
    /\ args \in IF awaited THEN Awaited(s) ELSE strays
    /\ \E i \in Len(executed[s]) + 1 .. MaxStarts :
          /\ Accept(s, args, i)
          /\ IF Applied(s, args)
             THEN /\ IF awaited THEN ReturnTo(args.client, Nil) ELSE UNCHANGED clerkVars
                  /\ UNCHANGED handler
             ELSE /\ handler' = [handler EXCEPT ![s] =
                        [args |-> args, idx |-> i, id |-> Entry(args).id,
                         awaited |-> awaited, committedOp |-> Nil]]
                  /\ try' = IF awaited THEN [try EXCEPT ![args.client] = "taken"] ELSE try
                  /\ UNCHANGED <<op, seq, peer, returned, since, ops>>
    /\ UNCHANGED <<store, clientSeqMap, strays, crashes>>

AnyExecutable(s, n, e) == TRUE                                  \* mutant

(* Which entry may be executed at index n while a handler waits: none but  *)
(* its own at its own index (see the head of this module).                 *)
Executable(s, n, e) == handler[s] # Nil /\ handler[s].idx = n => e.id = handler[s].id

(* The state machine: m_kvStore and m_clientSeqMap after an operation.     *)
DuplicateIfLast(map, args) == map[args.client] = args.seq       \* mutant
Duplicate(map, args) == map[args.client] >= args.seq

Updated(st, args) ==
    IF args.operation = "Get" \/ Duplicate(st.map, args) THEN st
    ELSE [store |-> [st.store EXCEPT ![args.key] =
                        IF args.operation = "Put" THEN args.value ELSE @ \o args.value],
          map   |-> [st.map EXCEPT ![args.client] = args.seq]]

(* applierLoop takes the next entry off the channel, and fulfils the       *)
(* promise made for its index, for a Get with the value found.             *)
Apply(s) ==
    LET n == Len(executed[s]) + 1 IN
    \E e \in IF n <= Len(chosen) THEN {chosen[n]} ELSE {p.entry : p \in ProposedAt(n)} :
       LET st == Updated([store |-> store[s], map |-> clientSeqMap[s]], e.args) IN
       /\ Executable(s, n, e)
       /\ Execute(s, Append(executed[s], e))
       /\ store' = [store EXCEPT ![s] = st.store]
       /\ clientSeqMap' = [clientSeqMap EXCEPT ![s] = st.map]
       /\ handler' = IF handler[s] # Nil /\ handler[s].idx = n
                     THEN [handler EXCEPT ![s].committedOp =
                              IF e.args.operation = "Get"
                              THEN [e.args EXCEPT !.value = st.store[e.args.key]] ELSE e.args]
                     ELSE handler
       /\ UNCHANGED <<clerkVars, strays, crashes>>

(* The wrong command test.                                                 *)
Mine(h) == h.committedOp.client = h.args.client /\ h.committedOp.seq = h.args.seq

(* The handler returns with its promise fulfilled: OK or ErrNoKey.         *)
Reply(s) ==
    /\ handler[s] # Nil /\ handler[s].committedOp # Nil
    /\ LET h == handler[s] IN
       IF h.awaited /\ Mine(h)
       THEN ReturnTo(h.args.client, IF h.args.operation = "Get" THEN h.committedOp.value ELSE Nil)
       ELSE UNCHANGED clerkVars
    /\ handler' = [handler EXCEPT ![s] = Nil]
    /\ UNCHANGED <<logVars, store, clientSeqMap, strays, crashes>>

(* The handler returns ErrWrongLeader after 500 ms, even if its promise    *)
(* was fulfilled just then.                                                *)
TimeOut(s) ==
    /\ handler[s] # Nil
    /\ handler' = [handler EXCEPT ![s] = Nil]
    /\ UNCHANGED <<logVars, store, clientSeqMap, clerkVars, strays, crashes>>

CrashButSeqMap(s) ==                                            \* mutant
    /\ crashes < MaxCrashes
    /\ crashes' = crashes + 1
    /\ Restart(s, <<>>)
    /\ store' = [store EXCEPT ![s] = Empty]
    /\ handler' = [handler EXCEPT ![s] = Nil]
    /\ UNCHANGED <<clientSeqMap, clerkVars, strays>>

(* shutdownServer, startServer: Raft keeps its log, KVServer nothing; all  *)
(* that was chosen is executed again.  (Nothing to lose, nothing to show.) *)
Crash(s) ==
    /\ crashes < MaxCrashes
    /\ executed[s] # <<>> \/ handler[s] # Nil
    /\ crashes' = crashes + 1
    /\ Restart(s, <<>>)
    /\ store' = [store EXCEPT ![s] = Empty]
    /\ clientSeqMap' = [clientSeqMap EXCEPT ![s] = NoSeq]
    /\ handler' = [handler EXCEPT ![s] = Nil]
    /\ UNCHANGED <<clerkVars, strays>>

-----------------------------------------------------------------------------

Next == \/ \E c \in Client : Call(c) \/ TryNext(c)
        \/ \E s \in Server : \/ \E args \in Awaited(s) : Handle(s, args, TRUE)
                             \/ \E args \in strays : Handle(s, args, FALSE)
                             \/ Apply(s) \/ Reply(s) \/ TimeOut(s) \/ Crash(s)

Spec == Init /\ [][Next]_vars

=============================================================================
