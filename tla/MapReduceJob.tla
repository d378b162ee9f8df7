----------------------------- MODULE MapReduceJob -----------------------------
(***************************************************************************)
(* What Lab 1 promises the user of the master: every input is mapped once, *)
(* then every output is made once, from all of them, then the job is over. *)
(* Workers, deadlines, crashes and repeated work do not show.              *)
(***************************************************************************)
CONSTANTS
    Map,            \* the map tasks
    Reduce,         \* the reduce tasks
    Input           \* the map tasks whose input is there

VARIABLES
    mapped,         \* map tasks done
    output,         \* for each reduce task the inputs its output accounts for
    reduced,        \* reduce tasks done
    finished        \* the master has ended

vars == <<mapped, output, reduced, finished>>

Init ==
    /\ mapped = {}
    /\ output = [r \in Reduce |-> {}]
    /\ reduced = {}
    /\ finished = FALSE

(* A map task is done, once.                                               *)
DoMap(m) ==
    /\ m \notin mapped
    /\ mapped' = mapped \cup {m}
    /\ UNCHANGED <<output, reduced, finished>>

(* A reduce task is done, once, after all maps and from all their inputs.  *)
DoReduce(r) ==
    /\ mapped = Map
    /\ r \notin reduced
    /\ output' = [output EXCEPT ![r] = Input]
    /\ reduced' = reduced \cup {r}
    /\ UNCHANGED <<mapped, finished>>

Finish ==
    /\ mapped = Map /\ reduced = Reduce
    /\ finished' = TRUE
    /\ UNCHANGED <<mapped, output, reduced>>

Next == \/ \E m \in Map : DoMap(m)
        \/ \E r \in Reduce : DoReduce(r)
        \/ Finish

Spec == Init /\ [][Next]_vars

=============================================================================
