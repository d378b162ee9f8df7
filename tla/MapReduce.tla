------------------------------- MODULE MapReduce -------------------------------
(***************************************************************************)
(* The MapReduce of Lab1_MapReduce: the master of master.cpp behind its    *)
(* gRPC service, the two threads server.cpp starts beside it, and the      *)
(* worker processes of worker.cpp with the files they share.               *)
(*                                                                         *)
(* A call to the master is one step: its methods hold m_Mutex from start   *)
(* to end and a worker waits for the answer.  The threads read the two     *)
(* counters without it, one after the other.  A worker is preempted        *)
(* between any two accesses to the master or to a file of another task.    *)
(*                                                                         *)
(* Text is abstracted to where it comes from: a file holds the ids of the  *)
(* map tasks whose data is in it.                                          *)
(***************************************************************************)
EXTENDS Integers, FiniteSets

CONSTANTS
    Worker,         \* worker processes; a crashed one is started again
    mapCount,       \* m_mapCount, the number of input files
    reduceCount,    \* m_reduceCount
    Unreadable,     \* map tasks whose input file cannot be opened
    SlowWorkers,    \* may a live worker outlive its deadline of 10 s?
    MaxCrashes      \* bound: crashes of workers

ASSUME WorkerAssumption == IsFiniteSet(Worker)
ASSUME CountAssumption  == mapCount \in Nat /\ reduceCount \in Nat
ASSUME InputAssumption  == Unreadable \subseteq 0 .. mapCount - 1
ASSUME SlowAssumption   == SlowWorkers \in BOOLEAN
ASSUME CrashAssumption  == MaxCrashes \in Nat

VARIABLES
    taskState,      \* m_taskState of every task
    overdue,        \* the assigned tasks whose deadline has passed
    remaining,      \* m_mapRemaining and m_reduceRemaining
    resetThread, monitorThread,     \* where the threads of server.cpp stand
    pc, task,       \* where each worker stands, and the task it was given
    file, data,     \* a reduce task's next file, and what it has read so far
    intermediate,   \* the files mr-m-0, mr-m-1, ... of each map task
    output,         \* mr-out-r of each reduce task
    crashes         \* crashes so far

masterVars == <<taskState, overdue, remaining>>
threadVars == <<resetThread, monitorThread>>
workerVars == <<pc, task, file, data>>
fileVars   == <<intermediate, output>>
vars == <<masterVars, threadVars, workerVars, fileVars, crashes>>

-----------------------------------------------------------------------------

Map    == 0 .. mapCount - 1
Reduce == 0 .. reduceCount - 1
MapTask    == {"map"} \X Map
ReduceTask == {"reduce"} \X Reduce
Task   == MapTask \cup ReduceTask
NoTask == <<"empty", 0>>

(* The inputs that can be read: what every output should be made of.       *)
Input == Map \ Unreadable

(* What map task m writes to its files.                                    *)
MapData(m) == {m} \ Unreadable

(* A file, by the worker that truncated it last and its contents.          *)
File == [by : Worker \cup {NoTask}, data : SUBSET Map]
NoFile == [by |-> NoTask, data |-> {}]
Truncated(w) == [by |-> w, data |-> {}]

(* What a file f may hold once w, which opened it, has written d.  If      *)
(* another worker truncated it or wrote other data to it in between, the   *)
(* texts overlap: the longer one, the later one, or neither is whole.      *)
Written(f, w, d) ==
    IF f.data = d \/ (f.by = w /\ f.data = {})
    THEN {[f EXCEPT !.data = d]}
    ELSE {[f EXCEPT !.data = e] : e \in {d, f.data, {}}}

Counts == [kind \in {"map", "reduce"} |-> IF kind = "map" THEN mapCount ELSE reduceCount]

Init ==
    /\ taskState = [t \in Task |-> "UNASSIGNED"]
    /\ overdue = {}
    /\ remaining = Counts
    /\ resetThread = "map remaining?"
    /\ monitorThread = "map remaining?"
    /\ pc = [w \in Worker |-> "ask"]
    /\ task = [w \in Worker |-> NoTask]
    /\ file = [w \in Worker |-> 0]
    /\ data = [w \in Worker |-> {}]
    /\ intermediate = [m \in Map |-> NoFile]
    /\ output = [r \in Reduce |-> NoFile]
    /\ crashes = 0

(* The gRPC server answers until the monitor has shut it down.             *)
Serving == monitorThread # "done"

(* main() returns when it has joined both threads.                         *)
Exited == resetThread = "done" /\ monitorThread = "done"

-----------------------------------------------------------------------------
(* The master.                                                             *)

(* selectMapTask, selectReduceTask: the first unassigned one of its kind.  *)
Selectable(kind) == {t \in Task : t[1] = kind /\ taskState[t] = "UNASSIGNED"}
First(tasks) == CHOOSE t \in tasks : \A u \in tasks : t[2] <= u[2]

PhaseOnce ==                                                \* mutant
    IF Selectable("map") # {} THEN "map"
    ELSE IF remaining["reduce"] > 0 THEN "reduce" ELSE "complete"

(* getTaskForWorker: maps as long as the counter says so, then reduces.    *)
Phase == IF remaining["map"] > 0 THEN "map"
         ELSE IF remaining["reduce"] > 0 THEN "reduce" ELSE "complete"

(* reportMapComplete, reportReduceComplete.                                *)
Complete(t) ==
    /\ taskState' = [taskState EXCEPT ![t] = "COMPLETED"]
    /\ remaining' = [remaining EXCEPT ![t[1]] = @ - 1]
    /\ overdue' = overdue \ {t}

ExpiredOrNot(kind) ==                                       \* mutant
    {t \in Task : t[1] = kind /\ taskState[t] = "ASSIGNED"}
ExpiredOrDone(kind) ==                                      \* mutant
    {t \in Task : t[1] = kind /\ (t \in overdue \/ taskState[t] = "COMPLETED")}

(* The tasks that a refresh resets: assigned, and past their deadline.     *)
Expired(kind) == {t \in overdue : t[1] = kind /\ taskState[t] = "ASSIGNED"}

RefreshMaps(kind) ==                                        \* mutant
    /\ taskState' = [t \in Task |-> IF t \in Expired("map") THEN "UNASSIGNED" ELSE taskState[t]]
    /\ overdue' = overdue \ Expired("map")
    /\ UNCHANGED remaining

(* refreshMapTaskState, refreshReduceTaskState.                            *)
Refresh(kind) ==
    /\ taskState' = [t \in Task |-> IF t \in Expired(kind) THEN "UNASSIGNED" ELSE taskState[t]]
    /\ overdue' = overdue \ Expired(kind)
    /\ UNCHANGED remaining

-----------------------------------------------------------------------------
(* The workers.                                                            *)

Holds(w, t) == task[w] = t

(* The worker asks for a task.  It ends if there is none left or nobody    *)
(* answers; an EMPTYTASK lets it sleep and ask again.                      *)
GetTask(w) ==
    /\ pc[w] = "ask"
    /\ IF ~Serving \/ Phase = "complete"
       THEN /\ pc' = [pc EXCEPT ![w] = "exited"]
            /\ UNCHANGED <<masterVars, task, file, data>>
       ELSE IF Selectable(Phase) = {}
       THEN UNCHANGED <<masterVars, workerVars>>
       ELSE LET t == First(Selectable(Phase)) IN
            /\ taskState' = [taskState EXCEPT ![t] = "ASSIGNED"]
            /\ overdue' = overdue \ {t}
            /\ pc' = [pc EXCEPT ![w] = "counts"]
            /\ task' = [task EXCEPT ![w] = t]
            /\ UNCHANGED <<remaining, file, data>>
    /\ UNCHANGED <<threadVars, fileVars, crashes>>

(* getReduceCount, getMapCount: -1 when the master no longer answers.  A   *)
(* map task then dies of reserve(-1), a reduce task reads no file.         *)
GetCounts(w) ==
    /\ pc[w] = "counts"
    /\ LET isMap == task[w][1] = "map" IN
       /\ pc' = [pc EXCEPT ![w] = IF isMap THEN IF Serving THEN "open" ELSE "exited"
                                  ELSE IF Serving /\ mapCount > 0 THEN "read" ELSE "create"]
       /\ task' = [task EXCEPT ![w] = IF isMap /\ ~Serving THEN NoTask ELSE @]
    /\ UNCHANGED <<masterVars, threadVars, file, data, fileVars, crashes>>

(* doMapTask opens its input, or gives up without output and reports all   *)
(* the same; writeMapOutput truncates the files.                           *)
OpenMapFiles(w) ==
    /\ pc[w] = "open"
    /\ LET m == task[w][2] IN
       IF m \in Unreadable
       THEN /\ pc' = [pc EXCEPT ![w] = "report"]
            /\ UNCHANGED intermediate
       ELSE /\ pc' = [pc EXCEPT ![w] = "write"]
            /\ intermediate' = [intermediate EXCEPT ![m] = Truncated(w)]
    /\ UNCHANGED <<masterVars, threadVars, task, file, data, output, crashes>>

(* writeMapOutput fills and closes them.                                   *)
WriteMapFiles(w) ==
    /\ pc[w] = "write"
    /\ LET m == task[w][2] IN
       \E f \in Written(intermediate[m], w, MapData(m)) :
          intermediate' = [intermediate EXCEPT ![m] = f]
    /\ pc' = [pc EXCEPT ![w] = "report"]
    /\ UNCHANGED <<masterVars, threadVars, task, file, data, output, crashes>>

ReadFilesButLast(w) ==                                      \* mutant
    /\ pc[w] = "read"
    /\ data' = [data EXCEPT ![w] = @ \cup intermediate[file[w]].data]
    /\ file' = [file EXCEPT ![w] = @ + 1]
    /\ pc' = [pc EXCEPT ![w] = IF file[w] + 2 >= mapCount THEN "create" ELSE "read"]
    /\ UNCHANGED <<masterVars, threadVars, task, fileVars, crashes>>

ReadFilesAndOne(w) ==                                       \* mutant
    /\ pc[w] = "read"
    /\ data' = [data EXCEPT ![w] = @ \cup intermediate[file[w]].data]
    /\ file' = [file EXCEPT ![w] = @ + 1]
    /\ pc' = [pc EXCEPT ![w] = IF file[w] = mapCount THEN "create" ELSE "read"]
    /\ UNCHANGED <<masterVars, threadVars, task, fileVars, crashes>>

(* doReduceTask reads one file after the other; a missing one is skipped.  *)
ReadFile(w) ==
    /\ pc[w] = "read"
    /\ data' = [data EXCEPT ![w] = @ \cup intermediate[file[w]].data]
    /\ file' = [file EXCEPT ![w] = @ + 1]
    /\ pc' = [pc EXCEPT ![w] = IF file[w] + 1 = mapCount THEN "create" ELSE "read"]
    /\ UNCHANGED <<masterVars, threadVars, task, fileVars, crashes>>

(* doReduceTask truncates its output ...                                   *)
CreateOutput(w) ==
    /\ pc[w] = "create"
    /\ output' = [output EXCEPT ![task[w][2]] = Truncated(w)]
    /\ pc' = [pc EXCEPT ![w] = "emit"]
    /\ UNCHANGED <<masterVars, threadVars, task, file, data, intermediate, crashes>>

(* ... and fills it with a line per key.                                   *)
EmitOutput(w) ==
    /\ pc[w] = "emit"
    /\ LET r == task[w][2] IN
       \E f \in Written(output[r], w, data[w]) : output' = [output EXCEPT ![r] = f]
    /\ pc' = [pc EXCEPT ![w] = "report"]
    /\ UNCHANGED <<masterVars, threadVars, task, file, data, intermediate, crashes>>

(* reportMapComplete or reportReduceComplete; a failed call is ignored.    *)
Report(w) ==
    /\ pc[w] = "report"
    /\ IF Serving THEN Complete(task[w]) ELSE UNCHANGED masterVars
    /\ pc' = [pc EXCEPT ![w] = "ask"]
    /\ task' = [task EXCEPT ![w] = NoTask]
    /\ file' = [file EXCEPT ![w] = 0]
    /\ data' = [data EXCEPT ![w] = {}]
    /\ UNCHANGED <<threadVars, fileVars, crashes>>

(* A worker with a task dies and is started again (test-mr.sh); files it   *)
(* had opened stay truncated.                                              *)
Crash(w) ==
    /\ crashes < MaxCrashes
    /\ task[w] # NoTask
    /\ crashes' = crashes + 1
    /\ pc' = [pc EXCEPT ![w] = "ask"]
    /\ task' = [task EXCEPT ![w] = NoTask]
    /\ file' = [file EXCEPT ![w] = 0]
    /\ data' = [data EXCEPT ![w] = {}]
    /\ UNCHANGED <<masterVars, threadVars, fileVars>>

-----------------------------------------------------------------------------
(* Time and the threads of server.cpp.                                     *)

(* The 10 s of an assigned task pass.  Unless workers are slow, one that   *)
(* lives has reported by then.                                             *)
DeadlinePasses(t) ==
    /\ taskState[t] = "ASSIGNED" /\ t \notin overdue
    /\ SlowWorkers \/ \A w \in Worker : ~Holds(w, t)
    /\ overdue' = overdue \cup {t}
    /\ UNCHANGED <<taskState, remaining, threadVars, workerVars, fileVars, crashes>>

(* The reset thread's condition, read in two steps, and its two calls.     *)
ResetReads ==
    /\ \/ /\ resetThread = "map remaining?"
          /\ resetThread' = IF remaining["map"] # 0 THEN "refresh maps" ELSE "reduce remaining?"
       \/ /\ resetThread = "reduce remaining?"
          /\ resetThread' = IF remaining["reduce"] # 0 THEN "refresh maps" ELSE "done"
    /\ UNCHANGED <<masterVars, monitorThread, workerVars, fileVars, crashes>>

ResetRefreshes ==
    /\ \/ /\ resetThread = "refresh maps"
          /\ Refresh("map")
          /\ resetThread' = "refresh reduces"
       \/ /\ resetThread = "refresh reduces"
          /\ Refresh("reduce")
          /\ resetThread' = "map remaining?"
    /\ UNCHANGED <<monitorThread, workerVars, fileVars, crashes>>

(* The monitor's condition, read in two steps; it sleeps if either fails.  *)
MonitorReads ==
    /\ \/ /\ monitorThread = "map remaining?"
          /\ monitorThread' = IF remaining["map"] = 0 THEN "reduce remaining?" ELSE "map remaining?"
       \/ /\ monitorThread = "reduce remaining?"
          /\ monitorThread' = IF remaining["reduce"] = 0 THEN "shut down" ELSE "map remaining?"
    /\ UNCHANGED <<masterVars, resetThread, workerVars, fileVars, crashes>>

(* server->Shutdown()                                                      *)
MonitorShutsDown ==
    /\ monitorThread = "shut down"
    /\ monitorThread' = "done"
    /\ UNCHANGED <<masterVars, resetThread, workerVars, fileVars, crashes>>

-----------------------------------------------------------------------------

WorkerStep(w) == \/ GetTask(w) \/ GetCounts(w)
                 \/ OpenMapFiles(w) \/ WriteMapFiles(w)
                 \/ ReadFile(w) \/ CreateOutput(w) \/ EmitOutput(w)
                 \/ Report(w)

ResetStep   == ResetReads \/ ResetRefreshes
MonitorStep == MonitorReads \/ MonitorShutsDown

Next == \/ \E w \in Worker : WorkerStep(w) \/ Crash(w)
        \/ \E t \in Task : DeadlinePasses(t)
        \/ ResetStep \/ MonitorStep

Spec == Init /\ [][Next]_vars

(* Every process and thread runs on, and time passes.                      *)
FairSpec == /\ Spec
            /\ \A w \in Worker : WF_vars(WorkerStep(w))
            /\ \A t \in Task : WF_vars(DeadlinePasses(t))
            /\ WF_vars(ResetStep) /\ WF_vars(MonitorStep)

=============================================================================
