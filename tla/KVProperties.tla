----------------------------- MODULE KVProperties -----------------------------
(* What the key/value service of Lab 4 must satisfy.                          *)
EXTENDS KV

(* Types of all variables but those of ReplicatedLog.                         *)
TypeOK ==
    /\ store \in [Server -> [Key -> Seq(Client)]]
    /\ clientSeqMap \in [Server -> [Client -> Nat]]
    /\ handler \in [Server -> HandlerType \cup {Nil}]
    /\ op \in [Client -> ArgsType \cup {Nil}]
    /\ seq \in [Client -> 0 .. 2 * MaxOps]
    /\ peer \in [Client -> Server]
    /\ try \in [Client -> {"none", "sent", "taken"}]
    /\ returned \in [Client -> Seq(Client) \cup {Nil}]
    /\ strays \subseteq ArgsType
    /\ ops \in 0 .. MaxOps
    /\ crashes \in 0 .. MaxCrashes
    /\ since \in [Client -> 0 .. MaxStarts]

(* The state machine after the first n entries of a log, each write taken     *)
(* once: what the code must compute whatever restarts there are.              *)
After(r, a) ==
    IF a.operation = "Get" \/ a.seq <= r.last[a.client] THEN r
    ELSE [store |-> [r.store EXCEPT ![a.key] =
                        IF a.operation = "Put" THEN a.value ELSE @ \o a.value],
          last  |-> [r.last EXCEPT ![a.client] = a.seq]]
ReplayOf(log) ==
    LET after[n \in 0 .. Len(log)] ==
            IF n = 0 THEN [store |-> Empty, last |-> NoSeq]
            ELSE After(after[n - 1], log[n].args)
    IN after
Replay == ReplayOf(chosen)

(* A server's store and its table of numbers are those of the entries it has  *)
(* executed, also after a restart that executes them all again.               *)
StoreIsReplay ==
    \A s \in Server : /\ store[s] = Replay[Len(executed[s])].store
                      /\ clientSeqMap[s] = Replay[Len(executed[s])].last

Latest == Replay[Len(chosen)]

(* The clerks see a linearizable store: writes that were retried, started     *)
(* twice, answered late or replayed after a crash take effect once, and every *)
(* read returns a value its key had between the call and the return.          *)
Service == INSTANCE KVService WITH
    value   <- Latest.store,
    pending <- op,
    done    <- {c \in Client : /\ op[c] # Nil /\ op[c].operation # "Get"
                               /\ Latest.last[c] >= op[c].seq},
    seen    <- [c \in Client |-> IF op[c] # Nil /\ op[c].operation = "Get"
                                 THEN {Replay[n].store[op[c].key] : n \in since[c] .. Len(chosen)}
                                 ELSE {}],
    answer  <- returned
Linearizable == Service!Spec

=============================================================================
