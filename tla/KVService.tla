------------------------------- MODULE KVService -------------------------------
(***************************************************************************)
(* A linearizable key/value store: the promise of Lab 4 to its clients.    *)
(* Each write takes effect once, between its call and its return; a read   *)
(* returns a value that its key had at some moment between the two.        *)
(* Reads change nothing, so this is what a single atomic point per         *)
(* operation amounts to.                                                   *)
(***************************************************************************)
EXTENDS Sequences

CONSTANTS Client, Key, Nil

VARIABLES
    value,          \* the value of each key
    pending,        \* the operation each client waits for, or Nil
    done,           \* the clients whose pending write has taken effect
    seen,           \* for a pending read, the values its key has had so far
    answer          \* what a client's last operation returned

vars == <<value, pending, done, seen, answer>>

Init ==
    /\ value = [k \in Key |-> <<>>]
    /\ pending = [c \in Client |-> Nil]
    /\ done = {}
    /\ seen = [c \in Client |-> {}]
    /\ answer = [c \in Client |-> Nil]

IsRead(c, k) == pending[c] # Nil /\ pending[c].operation = "Get" /\ pending[c].key = k

Call(c, op) ==
    /\ pending[c] = Nil /\ op # Nil
    /\ pending' = [pending EXCEPT ![c] = op]
    /\ seen' = [seen EXCEPT ![c] = IF op.operation = "Get" THEN {value[op.key]} ELSE {}]
    /\ UNCHANGED <<value, done, answer>>

(* The pending Put or Append of c takes effect.                            *)
TakeEffect(c) ==
    /\ pending[c] # Nil /\ pending[c].operation # "Get" /\ c \notin done
    /\ LET op == pending[c] IN
       /\ value' = [value EXCEPT ![op.key] =
                        IF op.operation = "Put" THEN op.value ELSE @ \o op.value]
       /\ seen' = [d \in Client |-> IF IsRead(d, op.key) THEN seen[d] \cup {value'[op.key]}
                                    ELSE seen[d]]
    /\ done' = done \cup {c}
    /\ UNCHANGED <<pending, answer>>

Return(c) ==
    /\ pending[c] # Nil
    /\ IF pending[c].operation = "Get"
       THEN \E v \in seen[c] : answer' = [answer EXCEPT ![c] = v]
       ELSE c \in done /\ answer' = [answer EXCEPT ![c] = Nil]
    /\ pending' = [pending EXCEPT ![c] = Nil]
    /\ seen' = [seen EXCEPT ![c] = {}]
    /\ done' = done \ {c}
    /\ UNCHANGED value

Next == \E c \in Client : Call(c, pending'[c]) \/ TakeEffect(c) \/ Return(c)

Spec == Init /\ [][Next]_vars

=============================================================================
