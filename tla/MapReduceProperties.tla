-------------------------- MODULE MapReduceProperties --------------------------
(* What the MapReduce of Lab 1 must satisfy.                                  *)
EXTENDS MapReduce

(* Types of all variables.                                                    *)
TypeOK ==
    /\ taskState \in [Task -> {"UNASSIGNED", "ASSIGNED", "COMPLETED"}]
    /\ overdue \subseteq Task
    /\ remaining \in [{"map", "reduce"} -> Int]
    /\ resetThread \in {"map remaining?", "reduce remaining?",
                        "refresh maps", "refresh reduces", "done"}
    /\ monitorThread \in {"map remaining?", "reduce remaining?", "shut down", "done"}
    /\ pc \in [Worker -> {"ask", "counts", "open", "write", "read", "create", "emit",
                          "report", "exited"}]
    /\ task \in [Worker -> Task \cup {NoTask}]
    /\ file \in [Worker -> 0 .. mapCount]
    /\ \A w \in Worker : pc[w] = "read" => file[w] \in Map
    /\ data \in [Worker -> SUBSET Map]
    /\ intermediate \in [Map -> File]
    /\ output \in [Reduce -> File]
    /\ crashes \in 0 .. MaxCrashes

Unfinished(kind) == {t \in Task : t[1] = kind /\ taskState[t] # "COMPLETED"}

(* The counters, which are decremented by every report whatever the task's    *)
(* state is, count the tasks that are not completed: no task is reported      *)
(* twice, however often it is handed out.                                     *)
CountersExact == \A kind \in {"map", "reduce"} : remaining[kind] = Cardinality(Unfinished(kind))

(* Outputs are made of complete inputs only: while a reduce task reads, no    *)
(* map task is assigned or unassigned, and no intermediate file is truncated  *)
(* or being written.                                                          *)
ReduceAfterMaps ==
    \A w \in Worker : task[w] \in ReduceTask =>
        \A m \in Map : /\ taskState[<<"map", m>>] = "COMPLETED"
                       /\ intermediate[m].data = MapData(m)

(* When the master process has ended, every mr-out file accounts for every    *)
(* input that could be read (the comparison with mr-correct in test-mr.sh).   *)
OutputComplete == Exited => \A r \in Reduce : output[r].data = Input

(* The master is a MapReduce job that is done once: tasks that are completed  *)
(* at the master, the outputs of completed reduce tasks, and the process's    *)
(* end step as MapReduceJob does.                                             *)
Job == INSTANCE MapReduceJob WITH
    mapped   <- {m \in Map : taskState[<<"map", m>>] = "COMPLETED"},
    reduced  <- {r \in Reduce : taskState[<<"reduce", r>>] = "COMPLETED"},
    output   <- [r \in Reduce |-> IF taskState[<<"reduce", r>>] = "COMPLETED"
                                  THEN output[r].data ELSE {}],
    finished <- Exited
RefinesJob == Job!Spec

(* The job ends: the reset thread, the monitor and all workers return, in     *)
(* spite of crashes.                                                          *)
Terminates == <>(Exited /\ \A w \in Worker : pc[w] = "exited")

=============================================================================
