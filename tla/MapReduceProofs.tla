----------------------------- MODULE MapReduceProofs -----------------------------
(* The MapReduce of Lab 1 for every number of workers, tasks and crashes, as long *)
(* as a live worker reports within its 10 s.  Without that (SlowWorkers) only the *)
(* types hold: SlowWorker.cfg shows the rest fail.                                *)
EXTENDS MapReduceProperties, FiniteSetTheorems, NaturalMinimum, TLAPS

(* What a worker does goes with the task it holds.                                *)
PcTask ==
    \A w \in Worker :
        /\ task[w] = NoTask <=> pc[w] \in {"ask", "exited"}
        /\ pc[w] \in {"open", "write"} => task[w] \in MapTask
        /\ pc[w] \in {"read", "create", "emit"} => task[w] \in ReduceTask
        /\ pc[w] \in {"ask", "counts", "exited"} => data[w] = {} /\ file[w] = 0

(* A task is held by one worker at a time, and not reset while it is held.        *)
HeldOnce ==
    /\ \A w \in Worker : task[w] # NoTask =>
          taskState[task[w]] = "ASSIGNED" /\ task[w] \notin overdue
    /\ \A v, w \in Worker : task[v] = task[w] /\ task[v] # NoTask => v = w

(* The monitor shuts the server down after the last task.                         *)
MonitorSaw ==
    /\ monitorThread \in {"reduce remaining?", "shut down", "done"} => Unfinished("map") = {}
    /\ monitorThread \in {"shut down", "done"} => Unfinished("reduce") = {}

MapsBeforeReduces ==
    \A w \in Worker : task[w] \in ReduceTask => Unfinished("map") = {}

(* The files of a map task are whole when it is reported.                         *)
MapsWritten ==
    /\ \A m \in Map : taskState[<<"map", m>>] = "COMPLETED" => intermediate[m].data = MapData(m)
    /\ \A m \in Unreadable : intermediate[m].data = {}
    /\ \A w \in Worker : pc[w] = "write" =>
          intermediate[task[w][2]] = Truncated(w) /\ task[w][2] \notin Unreadable
    /\ \A w \in Worker : pc[w] = "report" /\ task[w] \in MapTask =>
          intermediate[task[w][2]].data = MapData(task[w][2])

(* What a reduce task has read.                                                   *)
ReadSoFar ==
    \A w \in Worker :
        /\ pc[w] = "read" => data[w] = {m \in Input : m < file[w]}
        /\ pc[w] \in {"create", "emit"} => data[w] = Input

(* The output of a reduce task is whole when it is reported.                      *)
OutputsWritten ==
    /\ \A r \in Reduce : taskState[<<"reduce", r>>] = "COMPLETED" => output[r].data = Input
    /\ \A w \in Worker : pc[w] = "emit" => output[task[w][2]] = Truncated(w)
    /\ \A w \in Worker : pc[w] = "report" /\ task[w] \in ReduceTask =>
          output[task[w][2]].data = Input

IInv ==
    /\ TypeOK /\ PcTask /\ HeldOnce /\ CountersExact /\ MonitorSaw
    /\ MapsBeforeReduces /\ MapsWritten /\ ReadSoFar /\ OutputsWritten

----------------------------------------------------------------------------------
(* Tasks.                                                                         *)

LEMMA TaskFacts ==
  /\ NoTask \notin Task
  /\ \A t \in Task : t[1] \in {"map", "reduce"} /\ t[2] \in Nat
  /\ \A t \in Task : t \in MapTask <=> t[1] = "map"
  /\ \A t \in Task : t \in ReduceTask <=> t[1] = "reduce"
  /\ \A t \in MapTask : t[2] \in Map /\ t = <<"map", t[2]>>
  /\ \A t \in ReduceTask : t[2] \in Reduce /\ t = <<"reduce", t[2]>>
  /\ \A m \in Map : <<"map", m>> \in MapTask
  /\ \A r \in Reduce : <<"reduce", r>> \in ReduceTask
  /\ MapTask \subseteq Task /\ ReduceTask \subseteq Task
  /\ MapTask \cap ReduceTask = {}
BY CountAssumption DEF NoTask, Task, MapTask, ReduceTask, Map, Reduce

LEMMA TasksFinite == IsFiniteSet(Task)
<1>1. IsFiniteSet(Map) /\ IsFiniteSet(Reduce)
  BY CountAssumption, FS_Interval DEF Map, Reduce
<1>2. IsFiniteSet({"map"}) /\ IsFiniteSet({"reduce"})
  BY FS_Singleton
<1>3. IsFiniteSet(MapTask) /\ IsFiniteSet(ReduceTask)
  BY <1>1, <1>2, FS_Product DEF MapTask, ReduceTask
<1> QED
  BY <1>3, FS_Union DEF Task

LEMMA UnfinishedFinite == \A kind : IsFiniteSet(Unfinished(kind))
<1>1. \A kind : Unfinished(kind) \subseteq Task
  BY DEF Unfinished
<1> QED
  BY <1>1, TasksFinite, FS_Subset

(* The master finds a task when there is one.                                     *)
LEMMA FirstFacts ==
  ASSUME NEW kind, Selectable(kind) # {}
  PROVE  /\ First(Selectable(kind)) \in Task
         /\ First(Selectable(kind))[1] = kind
         /\ taskState[First(Selectable(kind))] = "UNASSIGNED"
<1> DEFINE tasks == Selectable(kind)
           T == {t[2] : t \in tasks}
<1>1. tasks \subseteq Task
  BY DEF Selectable
<1>2. T \in SUBSET Nat /\ T # {}
  BY <1>1, TaskFacts
<1>3. PICK x \in T : \A y \in T : x <= y
  BY <1>2, Minimum
<1>4. PICK t \in tasks : t[2] = x
  BY <1>3
<1>5. \A u \in tasks : t[2] <= u[2]
  BY <1>3, <1>4
<1>6. First(tasks) \in tasks
  <2> HIDE DEF tasks
  <2> QED  BY <1>5 DEF First
<1> QED
  BY <1>1, <1>6 DEF Selectable

(* The three outcomes of getTaskForWorker.                                        *)
LEMMA GetTaskFacts ==
  ASSUME NEW w \in Worker, GetTask(w)
  PROVE  /\ pc[w] = "ask"
         /\ UNCHANGED <<remaining, file, data, resetThread, monitorThread, intermediate, output, crashes>>
         /\ \/ /\ pc' = [pc EXCEPT ![w] = "exited"]
               /\ UNCHANGED <<taskState, overdue, task>>
            \/ UNCHANGED <<taskState, overdue, task, pc>>
            \/ /\ Serving
               /\ Phase # "complete"
               /\ \E t \in Task : /\ t[1] = Phase
                                  /\ taskState[t] = "UNASSIGNED"
                                  /\ taskState' = [taskState EXCEPT ![t] = "ASSIGNED"]
                                  /\ overdue' = overdue \ {t}
                                  /\ pc' = [pc EXCEPT ![w] = "counts"]
                                  /\ task' = [task EXCEPT ![w] = t]
<1>1. CASE ~Serving \/ Phase = "complete"
  BY <1>1 DEF GetTask, masterVars, threadVars, fileVars
<1>2. CASE Serving /\ Phase # "complete" /\ Selectable(Phase) = {}
  BY <1>2 DEF GetTask, masterVars, threadVars, workerVars, fileVars
<1>3. CASE Serving /\ Phase # "complete" /\ Selectable(Phase) # {}
  <2> DEFINE t == First(Selectable(Phase))
  <2>1. t \in Task /\ t[1] = Phase /\ taskState[t] = "UNASSIGNED"
    BY <1>3, FirstFacts
  <2>2. /\ taskState' = [taskState EXCEPT ![t] = "ASSIGNED"]
        /\ overdue' = overdue \ {t}
        /\ pc' = [pc EXCEPT ![w] = "counts"]
        /\ task' = [task EXCEPT ![w] = t]
        /\ UNCHANGED <<remaining, file, data>>
    BY <1>3 DEF GetTask
  <2>3. pc[w] = "ask" /\ UNCHANGED <<threadVars, fileVars, crashes>>
    BY DEF GetTask
  <2> HIDE DEF t
  <2> QED  BY <1>3, <2>1, <2>2, <2>3 DEF threadVars, fileVars
<1> QED
  BY <1>1, <1>2, <1>3

(* A file of worker w stays of its data, or gets them.                            *)
LEMMA WrittenFacts ==
  ASSUME NEW w \in Worker, NEW d \in SUBSET Map, NEW f \in File, NEW g \in Written(f, w, d)
  PROVE  /\ g \in File
         /\ f = Truncated(w) => g.data = d
BY DEF Written, File, Truncated

----------------------------------------------------------------------------------
(* Types.                                                                         *)

MasterType ==
    /\ taskState \in [Task -> {"UNASSIGNED", "ASSIGNED", "COMPLETED"}]
    /\ overdue \subseteq Task
    /\ remaining \in [{"map", "reduce"} -> Int]

ThreadType ==
    /\ resetThread \in {"map remaining?", "reduce remaining?",
                        "refresh maps", "refresh reduces", "done"}
    /\ monitorThread \in {"map remaining?", "reduce remaining?", "shut down", "done"}
    /\ crashes \in 0 .. MaxCrashes

WorkerType ==
    /\ pc \in [Worker -> {"ask", "counts", "open", "write", "read", "create", "emit",
                          "report", "exited"}]
    /\ task \in [Worker -> Task \cup {NoTask}]
    /\ file \in [Worker -> 0 .. mapCount]
    /\ \A w \in Worker : pc[w] = "read" => file[w] \in Map
    /\ data \in [Worker -> SUBSET Map]

FileType ==
    /\ intermediate \in [Map -> File]
    /\ output \in [Reduce -> File]

LEMMA TypeParts == TypeOK <=> MasterType /\ ThreadType /\ WorkerType /\ FileType
BY DEF TypeOK, MasterType, ThreadType, WorkerType, FileType

(* What a worker that does something holds.                                       *)
LEMMA Holder ==
  ASSUME WorkerType, PcTask, NEW w \in Worker
  PROVE  /\ pc[w] \notin {"ask", "exited"} => task[w] \in Task /\ task[w] # NoTask
         /\ pc[w] \in {"open", "write"} => task[w] \in MapTask /\ task[w][2] \in Map
         /\ pc[w] \in {"read", "create", "emit"} => task[w] \in ReduceTask /\ task[w][2] \in Reduce
<1>1. task[w] \in Task \cup {NoTask}
  BY DEF WorkerType
<1> QED
  BY <1>1, TaskFacts DEF PcTask

(* Every step preserves the types.                                                *)
LEMMA MasterTypeStep == MasterType /\ WorkerType /\ PcTask /\ [Next]_vars => MasterType'
<1> SUFFICES ASSUME MasterType, WorkerType, PcTask, [Next]_vars
             PROVE  MasterType'
  OBVIOUS
<1>1. ASSUME NEW w \in Worker, GetTask(w) PROVE MasterType'
  <2>1. CASE UNCHANGED <<taskState, overdue>>
    BY <1>1, <2>1, GetTaskFacts DEF MasterType
  <2>2. CASE \E t \in Task : /\ taskState' = [taskState EXCEPT ![t] = "ASSIGNED"]
                             /\ overdue' = overdue \ {t}
    BY <1>1, <2>2, GetTaskFacts DEF MasterType
  <2> QED  BY <1>1, <2>1, <2>2, GetTaskFacts
<1>2. ASSUME NEW w \in Worker, Report(w) PROVE MasterType'
  <2>1. task[w] \in Task /\ task[w][1] \in {"map", "reduce"}
    BY <1>2, Holder, TaskFacts DEF Report
  <2>2. CASE Complete(task[w])
    BY <2>1, <2>2 DEF Complete, MasterType
  <2>3. CASE UNCHANGED masterVars
    BY <2>3 DEF MasterType, masterVars
  <2> QED  BY <1>2, <2>2, <2>3 DEF Report
<1>3. ASSUME NEW t \in Task, DeadlinePasses(t) PROVE MasterType'
  BY <1>3 DEF DeadlinePasses, Holds, MasterType, masterVars
<1>4. CASE ResetRefreshes
  <2>1. ASSUME NEW kind, Refresh(kind) PROVE MasterType'
    BY <2>1 DEF Refresh, MasterType
  <2> QED  BY <1>4, <2>1 DEF ResetRefreshes
<1>5. CASE UNCHANGED <<taskState, overdue, remaining>>
  BY <1>5 DEF MasterType, masterVars
<1> QED
  BY <1>1, <1>2, <1>3, <1>4, <1>5
  DEF Next, WorkerStep, ResetStep, MonitorStep, vars, masterVars, threadVars,
      workerVars, fileVars, GetCounts, OpenMapFiles, WriteMapFiles, ReadFile,
      CreateOutput, EmitOutput, Crash, ResetReads, MonitorReads, MonitorShutsDown

(* The threads of server.cpp, and the bound on crashes.                           *)
LEMMA ThreadTypeStep == ThreadType /\ [Next]_vars => ThreadType'
<1> SUFFICES ASSUME ThreadType, [Next]_vars
             PROVE  ThreadType'
  OBVIOUS
<1> USE CrashAssumption
<1>1. ASSUME NEW w \in Worker, Crash(w) PROVE ThreadType'
  <2>1. crashes' = crashes + 1 /\ crashes < MaxCrashes /\ UNCHANGED <<resetThread, monitorThread>>
    BY <1>1 DEF Crash, threadVars
  <2>2. crashes \in 0 .. MaxCrashes
    BY DEF ThreadType
  <2>3. crashes' \in 0 .. MaxCrashes
    BY <2>1, <2>2
  <2> QED  BY <2>1, <2>3 DEF ThreadType
<1>2. CASE ResetReads
  BY <1>2 DEF ResetReads, ThreadType, threadVars
<1>3. CASE ResetRefreshes
  BY <1>3 DEF ResetRefreshes, Refresh, Expired, ThreadType, threadVars
<1>4. CASE MonitorReads
  BY <1>4 DEF MonitorReads, ThreadType, threadVars
<1>5. CASE MonitorShutsDown
  BY <1>5 DEF MonitorShutsDown, ThreadType, threadVars
<1>6. CASE UNCHANGED <<resetThread, monitorThread, crashes>>
  BY <1>6 DEF ThreadType, threadVars
<1> QED
  BY <1>1, <1>2, <1>3, <1>4, <1>5, <1>6
  DEF Next, WorkerStep, ResetStep, MonitorStep, vars, masterVars, threadVars,
      workerVars, fileVars, GetTask, GetCounts, OpenMapFiles, WriteMapFiles,
      ReadFile, CreateOutput, EmitOutput, Report, DeadlinePasses

(* A worker goes on with the task it was given.                                   *)
LEMMA WorkerTypeStep ==
  WorkerType /\ FileType /\ PcTask /\ [Next]_vars
  => (WorkerType' /\ PcTask')
<1> SUFFICES ASSUME WorkerType, FileType, PcTask, [Next]_vars
             PROVE  (WorkerType' /\ PcTask')
  OBVIOUS
<1>1. ASSUME NEW w \in Worker, GetTask(w) PROVE (WorkerType' /\ PcTask')
  <2>1. CASE UNCHANGED <<task, pc>>
    BY <1>1, <2>1, GetTaskFacts DEF WorkerType, PcTask
  <2>2. CASE pc' = [pc EXCEPT ![w] = "exited"] /\ task' = task
    BY <1>1, <2>2, GetTaskFacts DEF WorkerType, PcTask
  <2>3. CASE \E t \in Task : /\ pc' = [pc EXCEPT ![w] = "counts"]
                             /\ task' = [task EXCEPT ![w] = t]
    <3>1. PICK t \in Task : /\ pc' = [pc EXCEPT ![w] = "counts"]
                            /\ task' = [task EXCEPT ![w] = t]
      BY <2>3
    <3>2. t # NoTask
      BY TaskFacts
    <3>3. UNCHANGED <<file, data>>
      BY <1>1, GetTaskFacts
    <3>4. WorkerType'
      BY <3>1, <3>3 DEF WorkerType
    <3>5. pc[w] = "ask" /\ data[w] = {} /\ file[w] = 0
      BY <1>1, GetTaskFacts DEF PcTask
    <3>6. PcTask'
      BY <3>1, <3>2, <3>3, <3>5 DEF WorkerType, PcTask
    <3> QED  BY <3>4, <3>6
  <2> QED  BY <1>1, <2>1, <2>2, <2>3, GetTaskFacts
<1>2. ASSUME NEW w \in Worker, GetCounts(w) PROVE (WorkerType' /\ PcTask')
  <2>1. task[w] \in Task /\ task[w] # NoTask /\ pc[w] = "counts"
    BY <1>2, Holder DEF GetCounts
  <2>2. (task[w] \in MapTask <=> task[w][1] = "map") /\ (task[w] \in ReduceTask <=> task[w][1] # "map")
    BY <2>1, TaskFacts
  <2>3. UNCHANGED <<file, data>>
    BY <1>2 DEF GetCounts
  <2>4. file[w] \in Nat /\ (file[w] = 0 /\ mapCount > 0 => file[w] \in Map)
    BY CountAssumption DEF WorkerType, Map
  <2>5. file[w] = 0
    BY <2>1 DEF PcTask
  <2>6. WorkerType'
    BY <1>2, <2>1, <2>3, <2>4, <2>5 DEF GetCounts, WorkerType
  <2>7. PcTask'
    BY <1>2, <2>1, <2>2 DEF GetCounts, WorkerType, PcTask
  <2> QED  BY <2>6, <2>7
<1>3. ASSUME NEW w \in Worker, OpenMapFiles(w) PROVE (WorkerType' /\ PcTask')
  <2>1. task[w] # NoTask /\ task' = task
    BY <1>3, Holder DEF OpenMapFiles
  <2>2. WorkerType'
    BY <1>3, <2>1 DEF OpenMapFiles, WorkerType
  <2>3. PcTask'
    BY <1>3, <2>1, Holder DEF OpenMapFiles, WorkerType, PcTask
  <2> QED  BY <2>2, <2>3
<1>4. ASSUME NEW w \in Worker, WriteMapFiles(w) PROVE (WorkerType' /\ PcTask')
  <2>1. task[w] # NoTask /\ task' = task
    BY <1>4, Holder DEF WriteMapFiles
  <2>2. WorkerType'
    BY <1>4, <2>1 DEF WriteMapFiles, WorkerType
  <2>3. PcTask'
    BY <1>4, <2>1, Holder DEF WriteMapFiles, WorkerType, PcTask
  <2> QED  BY <2>2, <2>3
<1>5. ASSUME NEW w \in Worker, ReadFile(w) PROVE (WorkerType' /\ PcTask')
  <2>1. file[w] \in Map /\ task[w] # NoTask /\ task[w] \in ReduceTask
    BY <1>5, Holder DEF ReadFile, WorkerType
  <2>2. intermediate[file[w]].data \subseteq Map
    BY <2>1 DEF FileType, File
  <2>3. file[w] + 1 \in 0 .. mapCount /\ (file[w] + 1 # mapCount => file[w] + 1 \in Map)
    BY <2>1, CountAssumption DEF Map
  <2>4. UNCHANGED task
    BY <1>5 DEF ReadFile
  <2>5. WorkerType'
    BY <1>5, <2>1, <2>2, <2>3, <2>4 DEF ReadFile, WorkerType
  <2>6. PcTask'
    BY <1>5, <2>1, <2>4 DEF ReadFile, WorkerType, PcTask
  <2> QED  BY <2>5, <2>6
<1>6. ASSUME NEW w \in Worker, CreateOutput(w) PROVE (WorkerType' /\ PcTask')
  <2>1. task[w] # NoTask /\ task' = task
    BY <1>6, Holder DEF CreateOutput
  <2>2. WorkerType'
    BY <1>6, <2>1 DEF CreateOutput, WorkerType
  <2>3. PcTask'
    BY <1>6, <2>1, Holder DEF CreateOutput, WorkerType, PcTask
  <2> QED  BY <2>2, <2>3
<1>7. ASSUME NEW w \in Worker, EmitOutput(w) PROVE (WorkerType' /\ PcTask')
  <2>1. task[w] # NoTask /\ task' = task
    BY <1>7, Holder DEF EmitOutput
  <2>2. WorkerType'
    BY <1>7, <2>1 DEF EmitOutput, WorkerType
  <2>3. PcTask'
    BY <1>7, <2>1, Holder DEF EmitOutput, WorkerType, PcTask
  <2> QED  BY <2>2, <2>3
<1>8. ASSUME NEW w \in Worker, Report(w) PROVE (WorkerType' /\ PcTask')
  <2>1. 0 \in 0 .. mapCount /\ {} \in SUBSET Map
    BY CountAssumption
  <2>2. WorkerType'
    BY <1>8, <2>1 DEF Report, WorkerType
  <2>3. PcTask'
    BY <1>8 DEF Report, WorkerType, PcTask
  <2> QED  BY <2>2, <2>3
<1>9. ASSUME NEW w \in Worker, Crash(w) PROVE (WorkerType' /\ PcTask')
  <2>1. 0 \in 0 .. mapCount /\ {} \in SUBSET Map
    BY CountAssumption
  <2>2. WorkerType'
    BY <1>9, <2>1 DEF Crash, WorkerType
  <2>3. PcTask'
    BY <1>9 DEF Crash, WorkerType, PcTask
  <2> QED  BY <2>2, <2>3
<1>10. CASE UNCHANGED <<pc, task, file, data>>
  BY <1>10 DEF WorkerType, PcTask
<1> QED
  BY <1>1, <1>2, <1>3, <1>4, <1>5, <1>6, <1>7, <1>8, <1>9, <1>10
  DEF Next, WorkerStep, ResetStep, MonitorStep, vars, masterVars, threadVars,
      workerVars, fileVars, DeadlinePasses, ResetReads, ResetRefreshes,
      MonitorReads, MonitorShutsDown

(* Files hold data of map tasks.                                                  *)
LEMMA FileTypeStep == WorkerType /\ FileType /\ PcTask /\ [Next]_vars => FileType'
<1> SUFFICES ASSUME WorkerType, FileType, PcTask, [Next]_vars
             PROVE  FileType'
  OBVIOUS
<1>1. ASSUME NEW w \in Worker, OpenMapFiles(w) PROVE FileType'
  <2>1. task[w][2] \in Map /\ Truncated(w) \in File
    BY <1>1, Holder DEF OpenMapFiles, Truncated, File
  <2> QED  BY <1>1, <2>1 DEF OpenMapFiles, FileType
<1>2. ASSUME NEW w \in Worker, WriteMapFiles(w) PROVE FileType'
  <2>1. task[w][2] \in Map
    BY <1>2, Holder DEF WriteMapFiles
  <2>2. MapData(task[w][2]) \in SUBSET Map /\ intermediate[task[w][2]] \in File
    BY <2>1 DEF MapData, FileType
  <2>3. \A f \in Written(intermediate[task[w][2]], w, MapData(task[w][2])) : f \in File
    BY <2>2, WrittenFacts
  <2> QED  BY <1>2, <2>1, <2>3 DEF WriteMapFiles, FileType
<1>3. ASSUME NEW w \in Worker, CreateOutput(w) PROVE FileType'
  <2>1. task[w][2] \in Reduce /\ Truncated(w) \in File
    BY <1>3, Holder DEF CreateOutput, Truncated, File
  <2> QED  BY <1>3, <2>1 DEF CreateOutput, FileType
<1>4. ASSUME NEW w \in Worker, EmitOutput(w) PROVE FileType'
  <2>1. task[w][2] \in Reduce
    BY <1>4, Holder DEF EmitOutput
  <2>2. data[w] \in SUBSET Map /\ output[task[w][2]] \in File
    BY <2>1 DEF WorkerType, FileType
  <2>3. \A f \in Written(output[task[w][2]], w, data[w]) : f \in File
    BY <2>2, WrittenFacts
  <2> QED  BY <1>4, <2>1, <2>3 DEF EmitOutput, FileType
<1>5. CASE UNCHANGED <<intermediate, output>>
  BY <1>5 DEF FileType
<1> QED
  BY <1>1, <1>2, <1>3, <1>4, <1>5
  DEF Next, WorkerStep, ResetStep, MonitorStep, vars, masterVars, threadVars,
      workerVars, fileVars, GetTask, GetCounts, ReadFile, Report, Crash,
      DeadlinePasses, ResetReads, ResetRefreshes, MonitorReads, MonitorShutsDown

----------------------------------------------------------------------------------
(* The counters.                                                                  *)

LEMMA CounterZero ==
  ASSUME CountersExact, NEW kind \in {"map", "reduce"}
  PROVE  /\ remaining[kind] \in Nat
         /\ remaining[kind] = 0 <=> Unfinished(kind) = {}
         /\ ~(remaining[kind] > 0) <=> Unfinished(kind) = {}
<1>1. remaining[kind] = Cardinality(Unfinished(kind))
  BY DEF CountersExact
<1>2. Cardinality(Unfinished(kind)) \in Nat
  BY UnfinishedFinite, FS_CardinalityType
<1>3. Cardinality(Unfinished(kind)) = 0 <=> Unfinished(kind) = {}
  BY UnfinishedFinite, FS_EmptySet
<1> QED
  BY <1>1, <1>2, <1>3

(* Only tasks that nobody holds become overdue, and only those are reset.         *)
LEMMA HeldOnceStep ==
  ~SlowWorkers /\ MasterType /\ WorkerType /\ PcTask /\ HeldOnce /\ [Next]_vars
  => HeldOnce'
<1> SUFFICES ASSUME ~SlowWorkers, MasterType, WorkerType, PcTask, HeldOnce, [Next]_vars
             PROVE  HeldOnce'
  OBVIOUS
<1>1. ASSUME NEW w \in Worker, GetTask(w) PROVE HeldOnce'
  <2>1. CASE UNCHANGED <<taskState, overdue, task>>
    BY <1>1, <2>1, GetTaskFacts DEF HeldOnce
  <2>2. CASE \E t \in Task : /\ t[1] = Phase
                             /\ taskState[t] = "UNASSIGNED"
                             /\ taskState' = [taskState EXCEPT ![t] = "ASSIGNED"]
                             /\ overdue' = overdue \ {t}
                             /\ pc' = [pc EXCEPT ![w] = "counts"]
                             /\ task' = [task EXCEPT ![w] = t]
    <3>1. PICK t \in Task : /\ t[1] = Phase
                            /\ taskState[t] = "UNASSIGNED"
                            /\ taskState' = [taskState EXCEPT ![t] = "ASSIGNED"]
                            /\ overdue' = overdue \ {t}
                            /\ pc' = [pc EXCEPT ![w] = "counts"]
                            /\ task' = [task EXCEPT ![w] = t]
      BY <2>2
    <3>2. \A v \in Worker : task[v] # t
      BY <3>1, TaskFacts DEF HeldOnce
    <3>3. \A v \in Worker : task'[v] = IF v = w THEN t ELSE task[v]
      BY <3>1 DEF WorkerType
    <3>4. \A u \in Task : taskState'[u] = IF u = t THEN "ASSIGNED" ELSE taskState[u]
      BY <3>1 DEF MasterType
    <3>5. \A v \in Worker : task[v] \in Task \cup {NoTask}
      BY DEF WorkerType
    <3> QED  BY <3>1, <3>2, <3>3, <3>4, <3>5 DEF HeldOnce
  <2> QED  BY <1>1, <2>1, <2>2, GetTaskFacts
<1>2. ASSUME NEW w \in Worker, GetCounts(w) PROVE HeldOnce'
  <2>1. \A v \in Worker : task'[v] \in {task[v], NoTask}
    BY <1>2 DEF GetCounts, WorkerType
  <2>2. UNCHANGED <<taskState, overdue>>
    BY <1>2 DEF GetCounts, masterVars
  <2> QED  BY <2>1, <2>2 DEF HeldOnce
<1>3. ASSUME NEW w \in Worker, Report(w) PROVE HeldOnce'
  <2>1. task[w] \in Task /\ task[w] # NoTask
    BY <1>3, Holder DEF Report
  <2>2. \A v \in Worker : task'[v] = IF v = w THEN NoTask ELSE task[v]
    BY <1>3 DEF Report, WorkerType
  <2>3. \A v \in Worker : v # w /\ task[v] # NoTask => task[v] # task[w]
    BY <2>1 DEF HeldOnce
  <2>4. \A v \in Worker : task[v] \in Task \cup {NoTask}
    BY DEF WorkerType
  <2>5. CASE Complete(task[w])
    <3>1. \A u \in Task : u # task[w] => taskState'[u] = taskState[u]
      BY <2>1, <2>5 DEF Complete, MasterType
    <3>2. overdue' \subseteq overdue
      BY <2>5 DEF Complete
    <3> QED  BY <2>2, <2>3, <2>4, <3>1, <3>2 DEF HeldOnce
  <2>6. CASE UNCHANGED masterVars
    BY <2>2, <2>6 DEF HeldOnce, masterVars
  <2> QED  BY <1>3, <2>5, <2>6 DEF Report
<1>4. ASSUME NEW w \in Worker, Crash(w) PROVE HeldOnce'
  <2>1. \A v \in Worker : task'[v] \in {task[v], NoTask}
    BY <1>4 DEF Crash, WorkerType
  <2>2. UNCHANGED <<taskState, overdue>>
    BY <1>4 DEF Crash, masterVars
  <2> QED  BY <2>1, <2>2 DEF HeldOnce
<1>5. ASSUME NEW t \in Task, DeadlinePasses(t) PROVE HeldOnce'
  <2>1. \A v \in Worker : task[v] # t
    BY <1>5 DEF DeadlinePasses, Holds
  <2>2. overdue' = overdue \cup {t} /\ UNCHANGED <<taskState, task>>
    BY <1>5 DEF DeadlinePasses, workerVars
  <2> QED  BY <2>1, <2>2 DEF HeldOnce
<1>6. CASE ResetRefreshes
  <2>1. ASSUME NEW kind, Refresh(kind), UNCHANGED task PROVE HeldOnce'
    <3>1. \A v \in Worker : task[v] # NoTask => task[v] \in Task /\ task[v] \notin Expired(kind)
      BY DEF HeldOnce, Expired, WorkerType
    <3>2. \A u \in Task : u \notin Expired(kind) => taskState'[u] = taskState[u]
      BY <2>1 DEF Refresh
    <3>3. overdue' \subseteq overdue
      BY <2>1 DEF Refresh
    <3> QED  BY <2>1, <3>1, <3>2, <3>3 DEF HeldOnce
  <2> QED  BY <1>6, <2>1 DEF ResetRefreshes, workerVars
<1>7. CASE UNCHANGED <<taskState, overdue, task>>
  BY <1>7 DEF HeldOnce
<1> QED
  BY <1>1, <1>2, <1>3, <1>4, <1>5, <1>6, <1>7
  DEF Next, WorkerStep, ResetStep, MonitorStep, vars, masterVars, threadVars,
      workerVars, fileVars, OpenMapFiles, WriteMapFiles, ReadFile, CreateOutput,
      EmitOutput, ResetReads, MonitorReads, MonitorShutsDown

(* What a step does to the unfinished tasks and their counters: nothing, or one   *)
(* of them is reported.                                                           *)
ReportsOne(w) ==
    /\ pc[w] = "report" /\ Serving
    /\ task[w] \in Task
    /\ taskState[task[w]] = "ASSIGNED"
    /\ taskState' = [taskState EXCEPT ![task[w]] = "COMPLETED"]
    /\ remaining' = [remaining EXCEPT ![task[w][1]] = @ - 1]
    /\ UNCHANGED <<intermediate, output, resetThread, monitorThread>>

FinishesNone ==
    /\ UNCHANGED remaining
    /\ \A t \in Task : taskState'[t] = "COMPLETED" <=> taskState[t] = "COMPLETED"

LEMMA GetTaskFinishesNone ==
  ASSUME MasterType, NEW w \in Worker, GetTask(w)
  PROVE  FinishesNone
<1>1. CASE UNCHANGED taskState
  BY <1>1, GetTaskFacts DEF FinishesNone
<1>2. CASE \E t \in Task : /\ taskState[t] = "UNASSIGNED"
                           /\ taskState' = [taskState EXCEPT ![t] = "ASSIGNED"]
  <2>1. UNCHANGED remaining
    BY GetTaskFacts
  <2> QED  BY <1>2, <2>1 DEF MasterType, FinishesNone
<1> QED
  BY <1>1, <1>2, GetTaskFacts

LEMMA RefreshFinishesNone == ResetRefreshes => FinishesNone
<1>1. ASSUME NEW kind, Refresh(kind) PROVE FinishesNone
  BY <1>1 DEF Refresh, Expired, FinishesNone
<1> QED
  BY <1>1 DEF ResetRefreshes

(* No task is reported twice.                                                     *)
LEMMA FinishStep ==
  MasterType /\ WorkerType /\ PcTask /\ HeldOnce /\ [Next]_vars
  => (FinishesNone \/ \E w \in Worker : ReportsOne(w))
<1> SUFFICES ASSUME MasterType, WorkerType, PcTask, HeldOnce, [Next]_vars
             PROVE  (FinishesNone \/ \E w \in Worker : ReportsOne(w))
  OBVIOUS
<1>1. ASSUME NEW w \in Worker, GetTask(w) PROVE (FinishesNone \/ \E v \in Worker : ReportsOne(v))
  BY <1>1, GetTaskFinishesNone
<1>2. ASSUME NEW w \in Worker, Report(w) PROVE (FinishesNone \/ \E v \in Worker : ReportsOne(v))
  <2>1. task[w] \in Task /\ task[w] # NoTask /\ pc[w] = "report"
    BY <1>2, Holder DEF Report
  <2>2. CASE Serving
    <3>1. Complete(task[w]) /\ UNCHANGED <<threadVars, fileVars>>
      BY <1>2, <2>2 DEF Report
    <3>2. taskState[task[w]] = "ASSIGNED"
      BY <2>1 DEF HeldOnce
    <3>3. ReportsOne(w)
      BY <2>1, <2>2, <3>1, <3>2 DEF ReportsOne, Complete, threadVars, fileVars
    <3> QED  BY <3>3
  <2>3. CASE ~Serving
    BY <1>2, <2>3 DEF Report, masterVars, FinishesNone
  <2> QED  BY <2>2, <2>3
<1>3. CASE ResetRefreshes
  BY <1>3, RefreshFinishesNone
<1>4. CASE UNCHANGED <<taskState, remaining>>
  BY <1>4 DEF FinishesNone
<1> QED
  BY <1>1, <1>2, <1>3, <1>4
  DEF Next, WorkerStep, ResetStep, MonitorStep, vars, masterVars, threadVars,
      workerVars, fileVars, GetCounts, OpenMapFiles, WriteMapFiles, ReadFile,
      CreateOutput, EmitOutput, Crash, DeadlinePasses, ResetReads, MonitorReads,
      MonitorShutsDown

LEMMA CountersStep ==
  ASSUME MasterType, CountersExact, FinishesNone \/ \E w \in Worker : ReportsOne(w)
  PROVE  /\ CountersExact'
         /\ \A kind : Unfinished(kind)' \subseteq Unfinished(kind)
<1>1. CASE FinishesNone
  <2>1. \A kind : Unfinished(kind)' = Unfinished(kind)
    BY <1>1 DEF FinishesNone, Unfinished
  <2> QED  BY <1>1, <2>1 DEF CountersExact, FinishesNone
<1>2. ASSUME NEW w \in Worker, ReportsOne(w)
      PROVE  /\ CountersExact'
             /\ \A kind : Unfinished(kind)' \subseteq Unfinished(kind)
  <2> DEFINE t == task[w]
  <2>1. /\ t \in Task /\ t[1] \in {"map", "reduce"}
        /\ taskState[t] # "COMPLETED"
        /\ remaining' = [remaining EXCEPT ![t[1]] = @ - 1]
    BY <1>2, TaskFacts DEF ReportsOne
  <2>2. \A u \in Task : taskState'[u] = IF u = t THEN "COMPLETED" ELSE taskState[u]
    BY <1>2 DEF ReportsOne, MasterType
  <2> HIDE DEF t
  <2>3. \A kind : Unfinished(kind)' = Unfinished(kind) \ {t}
    BY <2>1, <2>2 DEF Unfinished
  <2>4. \A kind : t \in Unfinished(kind) <=> kind = t[1]
    BY <2>1 DEF Unfinished
  <2>5. ASSUME NEW kind \in {"map", "reduce"}
        PROVE  remaining'[kind] = Cardinality(Unfinished(kind)')
    <3>1. remaining[kind] = Cardinality(Unfinished(kind))
      BY DEF CountersExact
    <3>2. Cardinality(Unfinished(kind)')
            = IF t \in Unfinished(kind) THEN Cardinality(Unfinished(kind)) - 1
              ELSE Cardinality(Unfinished(kind))
      BY <2>3, UnfinishedFinite, FS_RemoveElement
    <3>3. remaining'[kind] = IF kind = t[1] THEN remaining[kind] - 1 ELSE remaining[kind]
      BY <2>1 DEF MasterType
    <3> QED  BY <2>4, <3>1, <3>2, <3>3
  <2> QED  BY <2>3, <2>5 DEF CountersExact
<1> QED
  BY <1>1, <1>2

(* The monitor reads the counters one after the other, but they stay at zero.     *)
LEMMA MonitorSawStep ==
  ASSUME CountersExact, MonitorSaw, [Next]_vars,
         \A kind : Unfinished(kind)' \subseteq Unfinished(kind)
  PROVE  MonitorSaw'
<1>1. CASE MonitorReads
  BY <1>1, CounterZero DEF MonitorReads, MonitorSaw
<1>2. CASE MonitorShutsDown
  BY <1>2, CounterZero DEF MonitorShutsDown, MonitorSaw
<1>3. CASE UNCHANGED monitorThread
  BY <1>3, CounterZero DEF MonitorSaw
<1> QED
  BY <1>1, <1>2, <1>3
  DEF Next, WorkerStep, ResetStep, MonitorStep, vars, masterVars, threadVars,
      workerVars, fileVars, GetTask, GetCounts, OpenMapFiles, WriteMapFiles,
      ReadFile, CreateOutput, EmitOutput, Report, Crash, DeadlinePasses, ResetReads,
      ResetRefreshes

(* A reduce task is handed out when the map counter is zero.                      *)
LEMMA MapsBeforeStep ==
  ASSUME MasterType, WorkerType, CountersExact, MapsBeforeReduces, [Next]_vars,
         \A kind : Unfinished(kind)' \subseteq Unfinished(kind)
  PROVE  MapsBeforeReduces'
<1>1. ASSUME NEW w \in Worker, GetTask(w) PROVE MapsBeforeReduces'
  <2>1. CASE UNCHANGED <<taskState, overdue, task>>
    BY <2>1 DEF MapsBeforeReduces
  <2>2. CASE \E t \in Task : /\ t[1] = Phase
                             /\ taskState[t] = "UNASSIGNED"
                             /\ taskState' = [taskState EXCEPT ![t] = "ASSIGNED"]
                             /\ overdue' = overdue \ {t}
                             /\ pc' = [pc EXCEPT ![w] = "counts"]
                             /\ task' = [task EXCEPT ![w] = t]
    <3>1. PICK t \in Task : /\ t[1] = Phase
                            /\ taskState[t] = "UNASSIGNED"
                            /\ taskState' = [taskState EXCEPT ![t] = "ASSIGNED"]
                            /\ overdue' = overdue \ {t}
                            /\ pc' = [pc EXCEPT ![w] = "counts"]
                            /\ task' = [task EXCEPT ![w] = t]
      BY <2>2
    <3>2. \A v \in Worker : task'[v] = IF v = w THEN t ELSE task[v]
      BY <3>1 DEF WorkerType
    <3>3. Phase = "reduce" => Unfinished("map") = {}
      BY CounterZero DEF Phase
    <3>4. t \in ReduceTask => Unfinished("map") = {}
      BY <3>1, <3>3, TaskFacts
    <3> QED  BY <3>2, <3>4 DEF MapsBeforeReduces
  <2> QED  BY <1>1, <2>1, <2>2, GetTaskFacts
<1>2. ASSUME NEW w \in Worker, GetCounts(w) PROVE MapsBeforeReduces'
  <2>1. \A v \in Worker : task'[v] \in {task[v], NoTask}
    BY <1>2 DEF GetCounts, WorkerType
  <2>2. NoTask \notin ReduceTask
    BY TaskFacts
  <2> QED  BY <2>1, <2>2 DEF MapsBeforeReduces
<1>3. ASSUME NEW w \in Worker, Report(w) PROVE MapsBeforeReduces'
  <2>1. \A v \in Worker : task'[v] \in {task[v], NoTask}
    BY <1>3 DEF Report, WorkerType
  <2>2. NoTask \notin ReduceTask
    BY TaskFacts
  <2> QED  BY <2>1, <2>2 DEF MapsBeforeReduces
<1>4. ASSUME NEW w \in Worker, Crash(w) PROVE MapsBeforeReduces'
  <2>1. \A v \in Worker : task'[v] \in {task[v], NoTask}
    BY <1>4 DEF Crash, WorkerType
  <2>2. NoTask \notin ReduceTask
    BY TaskFacts
  <2> QED  BY <2>1, <2>2 DEF MapsBeforeReduces
<1>5. CASE UNCHANGED task
  BY <1>5 DEF MapsBeforeReduces
<1> QED
  BY <1>1, <1>2, <1>3, <1>4, <1>5
  DEF Next, WorkerStep, ResetStep, MonitorStep, vars, masterVars, threadVars,
      workerVars, fileVars, OpenMapFiles, WriteMapFiles, ReadFile, CreateOutput,
      EmitOutput, DeadlinePasses, ResetReads, ResetRefreshes, MonitorReads,
      MonitorShutsDown

----------------------------------------------------------------------------------
(* The files.                                                                     *)

(* Two workers hold two tasks, and write to different files.                      *)
LEMMA OwnFiles ==
  ASSUME WorkerType, PcTask, HeldOnce, NEW v \in Worker, NEW w \in Worker
  PROVE  /\ task[w] \in MapTask => task[w][2] \in Map /\ taskState[<<"map", task[w][2]>>] = "ASSIGNED"
         /\ task[w] \in ReduceTask => task[w][2] \in Reduce /\ taskState[<<"reduce", task[w][2]>>] = "ASSIGNED"
         /\ task[v] \in MapTask /\ task[w] \in MapTask /\ v # w => task[v][2] # task[w][2]
         /\ task[v] \in ReduceTask /\ task[w] \in ReduceTask /\ v # w => task[v][2] # task[w][2]
<1>1. task[w] \in MapTask \/ task[w] \in ReduceTask =>
        task[w] # NoTask /\ taskState[task[w]] = "ASSIGNED"
  BY TaskFacts DEF HeldOnce
<1>2. v # w /\ task[w] # NoTask => task[v] # task[w]
  BY DEF HeldOnce
<1>3. \A t \in MapTask : t # NoTask /\ t[2] \in Map /\ t = <<"map", t[2]>>
  BY TaskFacts
<1>4. \A t \in ReduceTask : t # NoTask /\ t[2] \in Reduce /\ t = <<"reduce", t[2]>>
  BY TaskFacts
<1>5. task[w] \in MapTask =>
        task[w][2] \in Map /\ taskState[<<"map", task[w][2]>>] = "ASSIGNED"
  BY <1>1, <1>3
<1>6. task[w] \in ReduceTask =>
        task[w][2] \in Reduce /\ taskState[<<"reduce", task[w][2]>>] = "ASSIGNED"
  BY <1>1, <1>4
<1>7. task[v] \in MapTask /\ task[w] \in MapTask /\ v # w => task[v][2] # task[w][2]
  BY <1>2, <1>3
<1>8. task[v] \in ReduceTask /\ task[w] \in ReduceTask /\ v # w => task[v][2] # task[w][2]
  BY <1>2, <1>4
<1> QED
  BY <1>5, <1>6, <1>7, <1>8

LEMMA QuietMaps ==
  ASSUME MapsWritten, UNCHANGED intermediate, FinishesNone,
         \A w \in Worker : pc'[w] \in {"write", "report"} =>
            \/ pc'[w] = pc[w] /\ task'[w] = task[w]
            \/ pc'[w] = "report" /\ task'[w] \in ReduceTask
  PROVE  MapsWritten'
<1>1. \A m \in Map : taskState'[<<"map", m>>] = "COMPLETED" => taskState[<<"map", m>>] = "COMPLETED"
  BY TaskFacts DEF FinishesNone
<1>2. \A w \in Worker : pc'[w] = "write" => pc[w] = "write" /\ task'[w] = task[w]
  OBVIOUS
<1>3. \A w \in Worker : pc'[w] = "report" /\ task'[w] \in MapTask =>
         pc[w] = "report" /\ task'[w] = task[w]
  BY TaskFacts
<1> QED
  BY <1>1, <1>2, <1>3 DEF MapsWritten

LEMMA QuietOutputs ==
  ASSUME OutputsWritten, UNCHANGED output, FinishesNone,
         \A w \in Worker : pc'[w] \in {"emit", "report"} =>
            \/ pc'[w] = pc[w] /\ task'[w] = task[w]
            \/ pc'[w] = "report" /\ task'[w] \in MapTask
  PROVE  OutputsWritten'
<1>1. \A r \in Reduce : taskState'[<<"reduce", r>>] = "COMPLETED" => taskState[<<"reduce", r>>] = "COMPLETED"
  BY TaskFacts DEF FinishesNone
<1>2. \A w \in Worker : pc'[w] = "emit" => pc[w] = "emit" /\ task'[w] = task[w]
  OBVIOUS
<1>3. \A w \in Worker : pc'[w] = "report" /\ task'[w] \in ReduceTask =>
         pc[w] = "report" /\ task'[w] = task[w]
  BY TaskFacts
<1> QED
  BY <1>1, <1>2, <1>3 DEF OutputsWritten

(* Nobody else writes to the files of a task that is held, or done.               *)
LEMMA MapsWrittenStep ==
  MasterType /\ WorkerType /\ FileType /\ PcTask /\ HeldOnce /\ MapsWritten /\ [Next]_vars
  => MapsWritten'
<1> SUFFICES ASSUME MasterType, WorkerType, FileType, PcTask, HeldOnce, MapsWritten, [Next]_vars
             PROVE  MapsWritten'
  OBVIOUS
<1>1. ASSUME NEW w \in Worker, GetTask(w) PROVE MapsWritten'
  <2>1. \A v \in Worker : pc'[v] \in {"write", "report"} => pc'[v] = pc[v] /\ task'[v] = task[v]
    BY <1>1, GetTaskFacts DEF WorkerType
  <2> QED  BY <1>1, <2>1, QuietMaps, GetTaskFacts, GetTaskFinishesNone
<1>2. ASSUME NEW w \in Worker, GetCounts(w) PROVE MapsWritten'
  <2>1. \A v \in Worker : pc'[v] \in {"write", "report"} => pc'[v] = pc[v] /\ task'[v] = task[v]
    BY <1>2 DEF GetCounts, WorkerType
  <2>2. FinishesNone /\ UNCHANGED <<intermediate, output>>
    BY <1>2 DEF GetCounts, masterVars, fileVars, FinishesNone
  <2> QED  BY <2>1, <2>2, QuietMaps
<1>3. ASSUME NEW w \in Worker, OpenMapFiles(w) PROVE MapsWritten'
  <2> DEFINE m == task[w][2]
  <2>1. pc[w] = "open" /\ task[w] \in MapTask /\ m \in Map
    BY <1>3, Holder DEF OpenMapFiles
  <2>2. UNCHANGED <<taskState, task, remaining>> /\ FinishesNone
    BY <1>3 DEF OpenMapFiles, masterVars, FinishesNone
  <2>3. CASE m \in Unreadable
    <3>1. UNCHANGED intermediate /\ pc' = [pc EXCEPT ![w] = "report"]
      BY <1>3, <2>3 DEF OpenMapFiles
    <3>2. intermediate[m].data = MapData(m)
      BY <2>3 DEF MapsWritten, MapData
    <3>3. \A v \in Worker : pc'[v] = IF v = w THEN "report" ELSE pc[v]
      BY <3>1 DEF WorkerType
    <3> QED  BY <2>2, <3>1, <3>2, <3>3 DEF MapsWritten
  <2>4. CASE m \notin Unreadable
    <3>1. /\ intermediate' = [intermediate EXCEPT ![m] = Truncated(w)]
          /\ pc' = [pc EXCEPT ![w] = "write"]
      BY <1>3, <2>4 DEF OpenMapFiles
    <3>2. \A v \in Worker : pc'[v] = IF v = w THEN "write" ELSE pc[v]
      BY <3>1 DEF WorkerType
    <3>3. \A n \in Map : intermediate'[n] = IF n = m THEN Truncated(w) ELSE intermediate[n]
      BY <3>1 DEF FileType
    <3>4. taskState[<<"map", m>>] # "COMPLETED"
      BY <2>1, OwnFiles
    <3>5. \A v \in Worker : v # w /\ task[v] \in MapTask => task[v][2] \in Map /\ task[v][2] # m
      BY <2>1, OwnFiles
    <3>6. \A v \in Worker : pc[v] = "write" => task[v] \in MapTask
      BY DEF PcTask
    <3>7. Unreadable \subseteq Map
      BY InputAssumption DEF Map
    <3> HIDE DEF m
    <3>8. \A n \in Map : taskState'[<<"map", n>>] = "COMPLETED" => intermediate'[n].data = MapData(n)
      BY <2>2, <3>3, <3>4 DEF MapsWritten
    <3>9. \A n \in Unreadable : intermediate'[n].data = {}
      BY <2>4, <3>3, <3>7 DEF MapsWritten
    <3>10. \A v \in Worker : pc'[v] = "write" =>
             intermediate'[task'[v][2]] = Truncated(v) /\ task'[v][2] \notin Unreadable
      BY <2>1, <2>2, <2>4, <3>2, <3>3, <3>5, <3>6 DEF MapsWritten, m
    <3>11. \A v \in Worker : pc'[v] = "report" /\ task'[v] \in MapTask =>
             intermediate'[task'[v][2]].data = MapData(task'[v][2])
      BY <2>2, <3>2, <3>3, <3>5 DEF MapsWritten
    <3> QED  BY <3>8, <3>9, <3>10, <3>11 DEF MapsWritten
  <2> QED  BY <2>3, <2>4
<1>4. ASSUME NEW w \in Worker, WriteMapFiles(w) PROVE MapsWritten'
  <2> DEFINE m == task[w][2]
  <2>1. pc[w] = "write" /\ task[w] \in MapTask /\ m \in Map
    BY <1>4, Holder DEF WriteMapFiles
  <2>2. UNCHANGED <<taskState, task>> /\ pc' = [pc EXCEPT ![w] = "report"]
    BY <1>4 DEF WriteMapFiles, masterVars
  <2>3. intermediate[m] = Truncated(w) /\ m \notin Unreadable
    BY <2>1 DEF MapsWritten
  <2>4. MapData(m) \in SUBSET Map /\ intermediate[m] \in File
    BY <2>1 DEF MapData, FileType
  <2>5. \A f \in Written(intermediate[m], w, MapData(m)) : f.data = MapData(m)
    BY <2>3, <2>4, WrittenFacts
  <2>6. PICK f : f.data = MapData(m) /\ intermediate' = [intermediate EXCEPT ![m] = f]
    BY <1>4, <2>5 DEF WriteMapFiles
  <2>7. \A v \in Worker : pc'[v] = IF v = w THEN "report" ELSE pc[v]
    BY <2>2 DEF WorkerType
  <2>8. \A n \in Map : intermediate'[n] = IF n = m THEN f ELSE intermediate[n]
    BY <2>6 DEF FileType
  <2>9. \A v \in Worker : v # w /\ task[v] \in MapTask => task[v][2] \in Map /\ task[v][2] # m
    BY <2>1, OwnFiles
  <2>10. \A v \in Worker : pc[v] = "write" => task[v] \in MapTask
    BY DEF PcTask
  <2>11. Unreadable \subseteq Map
    BY InputAssumption DEF Map
  <2> HIDE DEF m
  <2>12. \A n \in Map : taskState'[<<"map", n>>] = "COMPLETED" => intermediate'[n].data = MapData(n)
    BY <2>2, <2>6, <2>8 DEF MapsWritten
  <2>13. \A n \in Unreadable : intermediate'[n].data = {}
    BY <2>3, <2>8, <2>11 DEF MapsWritten
  <2>14. \A v \in Worker : pc'[v] = "write" =>
           intermediate'[task'[v][2]] = Truncated(v) /\ task'[v][2] \notin Unreadable
    BY <2>2, <2>7, <2>8, <2>9, <2>10 DEF MapsWritten
  <2>15. \A v \in Worker : pc'[v] = "report" /\ task'[v] \in MapTask =>
           intermediate'[task'[v][2]].data = MapData(task'[v][2])
    BY <2>1, <2>2, <2>6, <2>7, <2>8, <2>9 DEF MapsWritten, m
  <2> QED  BY <2>12, <2>13, <2>14, <2>15 DEF MapsWritten
<1>5. ASSUME NEW w \in Worker, ReadFile(w) PROVE MapsWritten'
  <2>1. \A v \in Worker : pc'[v] \in {"write", "report"} =>
           \/ pc'[v] = pc[v] /\ task'[v] = task[v]
           \/ pc'[v] = "report" /\ task'[v] \in ReduceTask
    BY <1>5, Holder DEF ReadFile, WorkerType
  <2>2. FinishesNone /\ UNCHANGED intermediate
    BY <1>5 DEF ReadFile, masterVars, fileVars, FinishesNone
  <2> QED  BY <2>1, <2>2, QuietMaps
<1>6. ASSUME NEW w \in Worker, CreateOutput(w) PROVE MapsWritten'
  <2>1. \A v \in Worker : pc'[v] \in {"write", "report"} =>
           \/ pc'[v] = pc[v] /\ task'[v] = task[v]
           \/ pc'[v] = "report" /\ task'[v] \in ReduceTask
    BY <1>6, Holder DEF CreateOutput, WorkerType
  <2>2. FinishesNone /\ UNCHANGED intermediate
    BY <1>6 DEF CreateOutput, masterVars, fileVars, FinishesNone
  <2> QED  BY <2>1, <2>2, QuietMaps
<1>7. ASSUME NEW w \in Worker, EmitOutput(w) PROVE MapsWritten'
  <2>1. \A v \in Worker : pc'[v] \in {"write", "report"} =>
           \/ pc'[v] = pc[v] /\ task'[v] = task[v]
           \/ pc'[v] = "report" /\ task'[v] \in ReduceTask
    BY <1>7, Holder DEF EmitOutput, WorkerType
  <2>2. FinishesNone /\ UNCHANGED intermediate
    BY <1>7 DEF EmitOutput, masterVars, fileVars, FinishesNone
  <2> QED  BY <2>1, <2>2, QuietMaps
<1>8. ASSUME NEW w \in Worker, Report(w) PROVE MapsWritten'
  <2>1. \A v \in Worker : pc'[v] \in {"write", "report"} =>
           v # w /\ pc'[v] = pc[v] /\ task'[v] = task[v]
    BY <1>8 DEF Report, WorkerType
  <2>2. UNCHANGED <<intermediate, output>> /\ pc[w] = "report"
    BY <1>8 DEF Report, fileVars
  <2>3. task[w] \in Task
    BY <2>2, Holder
  <2>4. CASE Complete(task[w])
    <3>1. \A m \in Map : taskState'[<<"map", m>>] = "COMPLETED" =>
             \/ taskState[<<"map", m>>] = "COMPLETED"
             \/ task[w] = <<"map", m>>
      BY <2>3, <2>4, TaskFacts DEF Complete, MasterType
    <3>2. \A m \in Map : task[w] = <<"map", m>> => task[w] \in MapTask /\ task[w][2] = m
      BY TaskFacts
    <3>3. \A m \in Map : taskState'[<<"map", m>>] = "COMPLETED" => intermediate[m].data = MapData(m)
      BY <2>2, <3>1, <3>2 DEF MapsWritten
    <3> QED  BY <2>1, <2>2, <3>3 DEF MapsWritten
  <2>5. CASE UNCHANGED masterVars
    <3>1. FinishesNone
      BY <2>5 DEF masterVars, FinishesNone
    <3> QED  BY <2>1, <2>2, <3>1, QuietMaps
  <2> QED  BY <1>8, <2>4, <2>5 DEF Report
<1>9. ASSUME NEW w \in Worker, Crash(w) PROVE MapsWritten'
  <2>1. \A v \in Worker : pc'[v] \in {"write", "report"} => pc'[v] = pc[v] /\ task'[v] = task[v]
    BY <1>9 DEF Crash, WorkerType
  <2>2. FinishesNone /\ UNCHANGED <<intermediate, output>>
    BY <1>9 DEF Crash, masterVars, fileVars, FinishesNone
  <2> QED  BY <2>1, <2>2, QuietMaps
<1>10. CASE ResetRefreshes
  <2>1. UNCHANGED <<pc, task, intermediate, output>>
    BY <1>10 DEF ResetRefreshes, workerVars, fileVars
  <2> QED  BY <1>10, <2>1, QuietMaps, RefreshFinishesNone
<1>11. CASE UNCHANGED <<taskState, pc, task, intermediate>>
  BY <1>11 DEF MapsWritten
<1> QED
  BY <1>1, <1>2, <1>3, <1>4, <1>5, <1>6, <1>7, <1>8, <1>9, <1>10, <1>11
  DEF Next, WorkerStep, ResetStep, MonitorStep, vars, masterVars, threadVars,
      workerVars, fileVars, DeadlinePasses, ResetReads, MonitorReads,
      MonitorShutsDown

(* A reduce task reads the files of all maps, which are whole.                    *)
LEMMA ReadStep ==
  WorkerType /\ PcTask /\ HeldOnce /\ MonitorSaw /\ MapsBeforeReduces /\ MapsWritten /\ ReadSoFar /\ [Next]_vars
  => ReadSoFar'
<1> SUFFICES ASSUME WorkerType, PcTask, HeldOnce, MonitorSaw, MapsBeforeReduces, MapsWritten, ReadSoFar, [Next]_vars
             PROVE  ReadSoFar'
  OBVIOUS
<1>1. ASSUME NEW w \in Worker, GetTask(w) PROVE ReadSoFar'
  <2>1. \A v \in Worker : pc'[v] \in {"read", "create", "emit"} => pc'[v] = pc[v]
    BY <1>1, GetTaskFacts DEF WorkerType
  <2>2. UNCHANGED <<file, data>>
    BY <1>1, GetTaskFacts
  <2> QED  BY <2>1, <2>2 DEF ReadSoFar
<1>2. ASSUME NEW w \in Worker, GetCounts(w) PROVE ReadSoFar'
  <2>1. pc[w] = "counts" /\ task[w] \in Task /\ data[w] = {} /\ file[w] = 0
    BY <1>2, Holder DEF GetCounts, PcTask
  <2>2. \A v \in Worker : v # w => pc'[v] = pc[v]
    BY <1>2 DEF GetCounts, WorkerType
  <2>3. UNCHANGED <<file, data>>
    BY <1>2 DEF GetCounts
  <2>4. task[w][1] \in {"map", "reduce"} /\ taskState[task[w]] = "ASSIGNED"
    BY <2>1, TaskFacts DEF HeldOnce
  <2>5. Serving
    BY <2>1, <2>4 DEF Serving, MonitorSaw, Unfinished
  <2>6. pc'[w] = IF task[w][1] = "map" THEN "open" ELSE IF mapCount > 0 THEN "read" ELSE "create"
    BY <1>2, <2>5 DEF GetCounts, WorkerType
  <2>7. {m \in Input : m < 0} = {}
    BY CountAssumption DEF Input, Map
  <2>8. ~(mapCount > 0) => Input = {}
    BY CountAssumption DEF Input, Map
  <2> QED  BY <2>1, <2>2, <2>3, <2>6, <2>7, <2>8 DEF ReadSoFar
<1>3. ASSUME NEW w \in Worker, OpenMapFiles(w) PROVE ReadSoFar'
  <2>1. \A v \in Worker : pc'[v] \in {"read", "create", "emit"} => pc'[v] = pc[v]
    BY <1>3 DEF OpenMapFiles, WorkerType
  <2>2. UNCHANGED <<file, data>>
    BY <1>3 DEF OpenMapFiles
  <2> QED  BY <2>1, <2>2 DEF ReadSoFar
<1>4. ASSUME NEW w \in Worker, WriteMapFiles(w) PROVE ReadSoFar'
  <2>1. \A v \in Worker : pc'[v] \in {"read", "create", "emit"} => pc'[v] = pc[v]
    BY <1>4 DEF WriteMapFiles, WorkerType
  <2>2. UNCHANGED <<file, data>>
    BY <1>4 DEF WriteMapFiles
  <2> QED  BY <2>1, <2>2 DEF ReadSoFar
<1>5. ASSUME NEW w \in Worker, ReadFile(w) PROVE ReadSoFar'
  <2> DEFINE n == file[w]
  <2>1. pc[w] = "read" /\ n \in Map /\ task[w] \in ReduceTask
    BY <1>5, Holder DEF ReadFile, WorkerType
  <2>2. taskState[<<"map", n>>] = "COMPLETED"
    BY <2>1, TaskFacts DEF MapsBeforeReduces, Unfinished
  <2>3. intermediate[n].data = MapData(n)
    BY <2>1, <2>2 DEF MapsWritten
  <2>4. data[w] = {m \in Input : m < n}
    BY <2>1 DEF ReadSoFar
  <2>5. \A v \in Worker : v # w => pc'[v] = pc[v] /\ data'[v] = data[v] /\ file'[v] = file[v]
    BY <1>5 DEF ReadFile, WorkerType
  <2>6. /\ data'[w] = data[w] \cup intermediate[n].data
        /\ file'[w] = n + 1
        /\ pc'[w] = IF n + 1 = mapCount THEN "create" ELSE "read"
    BY <1>5 DEF ReadFile, WorkerType
  <2> HIDE DEF n
  <2>7. data'[w] = {m \in Input : m < n + 1}
    BY <2>1, <2>3, <2>4, <2>6, CountAssumption DEF MapData, Input, Map
  <2>8. n + 1 = mapCount => {m \in Input : m < n + 1} = Input
    BY <2>1, CountAssumption DEF Input, Map
  <2> QED  BY <2>5, <2>6, <2>7, <2>8 DEF ReadSoFar
<1>6. ASSUME NEW w \in Worker, CreateOutput(w) PROVE ReadSoFar'
  <2>1. \A v \in Worker : pc'[v] \in {"read", "create", "emit"} => 
           \/ pc'[v] = pc[v]
           \/ v = w /\ pc[v] = "create" /\ pc'[v] = "emit"
    BY <1>6 DEF CreateOutput, WorkerType
  <2>2. UNCHANGED <<file, data>>
    BY <1>6 DEF CreateOutput
  <2> QED  BY <2>1, <2>2 DEF ReadSoFar
<1>7. ASSUME NEW w \in Worker, EmitOutput(w) PROVE ReadSoFar'
  <2>1. \A v \in Worker : pc'[v] \in {"read", "create", "emit"} => pc'[v] = pc[v]
    BY <1>7 DEF EmitOutput, WorkerType
  <2>2. UNCHANGED <<file, data>>
    BY <1>7 DEF EmitOutput
  <2> QED  BY <2>1, <2>2 DEF ReadSoFar
<1>8. ASSUME NEW w \in Worker, Report(w) PROVE ReadSoFar'
  <2>1. \A v \in Worker : pc'[v] \in {"read", "create", "emit"} =>
           pc'[v] = pc[v] /\ data'[v] = data[v] /\ file'[v] = file[v]
    BY <1>8 DEF Report, WorkerType
  <2> QED  BY <2>1 DEF ReadSoFar
<1>9. ASSUME NEW w \in Worker, Crash(w) PROVE ReadSoFar'
  <2>1. \A v \in Worker : pc'[v] \in {"read", "create", "emit"} =>
           pc'[v] = pc[v] /\ data'[v] = data[v] /\ file'[v] = file[v]
    BY <1>9 DEF Crash, WorkerType
  <2> QED  BY <2>1 DEF ReadSoFar
<1>10. CASE UNCHANGED <<pc, file, data>>
  BY <1>10 DEF ReadSoFar
<1> QED
  BY <1>1, <1>2, <1>3, <1>4, <1>5, <1>6, <1>7, <1>8, <1>9, <1>10
  DEF Next, WorkerStep, ResetStep, MonitorStep, vars, masterVars, threadVars,
      workerVars, fileVars, DeadlinePasses, ResetReads, ResetRefreshes,
      MonitorReads, MonitorShutsDown

(* Nobody else writes to the output of a task that is held, or done.              *)
LEMMA OutputsWrittenStep ==
  MasterType /\ WorkerType /\ FileType /\ PcTask /\ HeldOnce /\ ReadSoFar /\ OutputsWritten /\ [Next]_vars
  => OutputsWritten'
<1> SUFFICES ASSUME MasterType, WorkerType, FileType, PcTask, HeldOnce, ReadSoFar, OutputsWritten, [Next]_vars
             PROVE  OutputsWritten'
  OBVIOUS
<1>1. ASSUME NEW w \in Worker, GetTask(w) PROVE OutputsWritten'
  <2>1. \A v \in Worker : pc'[v] \in {"emit", "report"} => pc'[v] = pc[v] /\ task'[v] = task[v]
    BY <1>1, GetTaskFacts DEF WorkerType
  <2> QED  BY <1>1, <2>1, QuietOutputs, GetTaskFacts, GetTaskFinishesNone
<1>2. ASSUME NEW w \in Worker, GetCounts(w) PROVE OutputsWritten'
  <2>1. \A v \in Worker : pc'[v] \in {"emit", "report"} => pc'[v] = pc[v] /\ task'[v] = task[v]
    BY <1>2 DEF GetCounts, WorkerType
  <2>2. FinishesNone /\ UNCHANGED <<intermediate, output>>
    BY <1>2 DEF GetCounts, masterVars, fileVars, FinishesNone
  <2> QED  BY <2>1, <2>2, QuietOutputs
<1>3. ASSUME NEW w \in Worker, OpenMapFiles(w) PROVE OutputsWritten'
  <2>1. \A v \in Worker : pc'[v] \in {"emit", "report"} =>
           \/ pc'[v] = pc[v] /\ task'[v] = task[v]
           \/ pc'[v] = "report" /\ task'[v] \in MapTask
    BY <1>3, Holder DEF OpenMapFiles, WorkerType
  <2>2. FinishesNone /\ UNCHANGED output
    BY <1>3 DEF OpenMapFiles, masterVars, fileVars, FinishesNone
  <2> QED  BY <2>1, <2>2, QuietOutputs
<1>4. ASSUME NEW w \in Worker, WriteMapFiles(w) PROVE OutputsWritten'
  <2>1. \A v \in Worker : pc'[v] \in {"emit", "report"} =>
           \/ pc'[v] = pc[v] /\ task'[v] = task[v]
           \/ pc'[v] = "report" /\ task'[v] \in MapTask
    BY <1>4, Holder DEF WriteMapFiles, WorkerType
  <2>2. FinishesNone /\ UNCHANGED output
    BY <1>4 DEF WriteMapFiles, masterVars, fileVars, FinishesNone
  <2> QED  BY <2>1, <2>2, QuietOutputs
<1>5. ASSUME NEW w \in Worker, ReadFile(w) PROVE OutputsWritten'
  <2>1. \A v \in Worker : pc'[v] \in {"emit", "report"} => pc'[v] = pc[v] /\ task'[v] = task[v]
    BY <1>5 DEF ReadFile, WorkerType
  <2>2. FinishesNone /\ UNCHANGED <<intermediate, output>>
    BY <1>5 DEF ReadFile, masterVars, fileVars, FinishesNone
  <2> QED  BY <2>1, <2>2, QuietOutputs
<1>6. ASSUME NEW w \in Worker, CreateOutput(w) PROVE OutputsWritten'
  <2> DEFINE r == task[w][2]
  <2>1. pc[w] = "create" /\ task[w] \in ReduceTask /\ r \in Reduce
    BY <1>6, Holder DEF CreateOutput
  <2>2. /\ UNCHANGED <<taskState, task>>
        /\ pc' = [pc EXCEPT ![w] = "emit"]
        /\ output' = [output EXCEPT ![r] = Truncated(w)]
    BY <1>6 DEF CreateOutput, masterVars
  <2>3. \A v \in Worker : pc'[v] = IF v = w THEN "emit" ELSE pc[v]
    BY <2>2 DEF WorkerType
  <2>4. \A q \in Reduce : output'[q] = IF q = r THEN Truncated(w) ELSE output[q]
    BY <2>2 DEF FileType
  <2>5. taskState[<<"reduce", r>>] # "COMPLETED"
    BY <2>1, OwnFiles
  <2>6. \A v \in Worker : v # w /\ task[v] \in ReduceTask => task[v][2] \in Reduce /\ task[v][2] # r
    BY <2>1, OwnFiles
  <2>7. \A v \in Worker : pc[v] = "emit" => task[v] \in ReduceTask
    BY DEF PcTask
  <2> HIDE DEF r
  <2>8. \A q \in Reduce : taskState'[<<"reduce", q>>] = "COMPLETED" => output'[q].data = Input
    BY <2>2, <2>4, <2>5 DEF OutputsWritten
  <2>9. \A v \in Worker : pc'[v] = "emit" => output'[task'[v][2]] = Truncated(v)
    BY <2>1, <2>2, <2>3, <2>4, <2>6, <2>7 DEF OutputsWritten, r
  <2>10. \A v \in Worker : pc'[v] = "report" /\ task'[v] \in ReduceTask =>
           output'[task'[v][2]].data = Input
    BY <2>2, <2>3, <2>4, <2>6 DEF OutputsWritten
  <2> QED  BY <2>8, <2>9, <2>10 DEF OutputsWritten
<1>7. ASSUME NEW w \in Worker, EmitOutput(w) PROVE OutputsWritten'
  <2> DEFINE r == task[w][2]
  <2>1. pc[w] = "emit" /\ task[w] \in ReduceTask /\ r \in Reduce
    BY <1>7, Holder DEF EmitOutput
  <2>2. UNCHANGED <<taskState, task>> /\ pc' = [pc EXCEPT ![w] = "report"]
    BY <1>7 DEF EmitOutput, masterVars
  <2>3. output[r] = Truncated(w) /\ data[w] = Input
    BY <2>1 DEF OutputsWritten, ReadSoFar
  <2>4. data[w] \in SUBSET Map /\ output[r] \in File
    BY <2>1 DEF WorkerType, FileType
  <2>5. \A f \in Written(output[r], w, data[w]) : f.data = Input
    BY <2>3, <2>4, WrittenFacts
  <2>6. PICK f : f.data = Input /\ output' = [output EXCEPT ![r] = f]
    BY <1>7, <2>5 DEF EmitOutput
  <2>7. \A v \in Worker : pc'[v] = IF v = w THEN "report" ELSE pc[v]
    BY <2>2 DEF WorkerType
  <2>8. \A q \in Reduce : output'[q] = IF q = r THEN f ELSE output[q]
    BY <2>6 DEF FileType
  <2>9. \A v \in Worker : v # w /\ task[v] \in ReduceTask => task[v][2] \in Reduce /\ task[v][2] # r
    BY <2>1, OwnFiles
  <2>10. \A v \in Worker : pc[v] = "emit" => task[v] \in ReduceTask
    BY DEF PcTask
  <2> HIDE DEF r
  <2>11. \A q \in Reduce : taskState'[<<"reduce", q>>] = "COMPLETED" => output'[q].data = Input
    BY <2>2, <2>6, <2>8 DEF OutputsWritten
  <2>12. \A v \in Worker : pc'[v] = "emit" => output'[task'[v][2]] = Truncated(v)
    BY <2>2, <2>7, <2>8, <2>9, <2>10 DEF OutputsWritten
  <2>13. \A v \in Worker : pc'[v] = "report" /\ task'[v] \in ReduceTask =>
           output'[task'[v][2]].data = Input
    BY <2>1, <2>2, <2>6, <2>7, <2>8, <2>9 DEF OutputsWritten, r
  <2> QED  BY <2>11, <2>12, <2>13 DEF OutputsWritten
<1>8. ASSUME NEW w \in Worker, Report(w) PROVE OutputsWritten'
  <2>1. \A v \in Worker : pc'[v] \in {"emit", "report"} =>
           v # w /\ pc'[v] = pc[v] /\ task'[v] = task[v]
    BY <1>8 DEF Report, WorkerType
  <2>2. UNCHANGED <<intermediate, output>> /\ pc[w] = "report"
    BY <1>8 DEF Report, fileVars
  <2>3. task[w] \in Task
    BY <2>2, Holder
  <2>4. CASE Complete(task[w])
    <3>1. \A r \in Reduce : taskState'[<<"reduce", r>>] = "COMPLETED" =>
             \/ taskState[<<"reduce", r>>] = "COMPLETED"
             \/ task[w] = <<"reduce", r>>
      BY <2>3, <2>4, TaskFacts DEF Complete, MasterType
    <3>2. \A r \in Reduce : task[w] = <<"reduce", r>> => task[w] \in ReduceTask /\ task[w][2] = r
      BY TaskFacts
    <3>3. \A r \in Reduce : taskState'[<<"reduce", r>>] = "COMPLETED" => output[r].data = Input
      BY <2>2, <3>1, <3>2 DEF OutputsWritten
    <3> QED  BY <2>1, <2>2, <3>3 DEF OutputsWritten
  <2>5. CASE UNCHANGED masterVars
    <3>1. FinishesNone
      BY <2>5 DEF masterVars, FinishesNone
    <3> QED  BY <2>1, <2>2, <3>1, QuietOutputs
  <2> QED  BY <1>8, <2>4, <2>5 DEF Report
<1>9. ASSUME NEW w \in Worker, Crash(w) PROVE OutputsWritten'
  <2>1. \A v \in Worker : pc'[v] \in {"emit", "report"} => pc'[v] = pc[v] /\ task'[v] = task[v]
    BY <1>9 DEF Crash, WorkerType
  <2>2. FinishesNone /\ UNCHANGED <<intermediate, output>>
    BY <1>9 DEF Crash, masterVars, fileVars, FinishesNone
  <2> QED  BY <2>1, <2>2, QuietOutputs
<1>10. CASE ResetRefreshes
  <2>1. UNCHANGED <<pc, task, intermediate, output>>
    BY <1>10 DEF ResetRefreshes, workerVars, fileVars
  <2> QED  BY <1>10, <2>1, QuietOutputs, RefreshFinishesNone
<1>11. CASE UNCHANGED <<taskState, pc, task, output>>
  BY <1>11 DEF OutputsWritten
<1> QED
  BY <1>1, <1>2, <1>3, <1>4, <1>5, <1>6, <1>7, <1>8, <1>9, <1>10, <1>11
  DEF Next, WorkerStep, ResetStep, MonitorStep, vars, masterVars, threadVars,
      workerVars, fileVars, DeadlinePasses, ResetReads, MonitorReads,
      MonitorShutsDown

----------------------------------------------------------------------------------
(* The theorems.                                                                  *)

LEMMA InitType == Init => TypeOK /\ PcTask
<1> SUFFICES ASSUME Init PROVE TypeOK /\ PcTask
  OBVIOUS
<1>1. MasterType
  <2>1. \A kind \in {"map", "reduce"} : Counts[kind] \in Int
    BY CountAssumption DEF Counts
  <2>2. remaining \in [{"map", "reduce"} -> Int]
    BY <2>1 DEF Init, Counts
  <2> QED  BY <2>2 DEF Init, MasterType
<1>2. ThreadType
  <2>1. 0 \in 0 .. MaxCrashes
    BY CrashAssumption
  <2> QED  BY <2>1 DEF Init, ThreadType
<1>3. WorkerType
  <2>1. 0 \in 0 .. mapCount
    BY CountAssumption
  <2> QED  BY <2>1 DEF Init, WorkerType
<1>4. FileType
  BY DEF Init, FileType, NoFile, File
<1>5. PcTask
  BY DEF Init, PcTask
<1> QED
  BY <1>1, <1>2, <1>3, <1>4, <1>5, TypeParts

(* The types of all variables, slow workers or not.                               *)
THEOREM AlwaysTypeOK == Spec => []TypeOK
<1>1. TypeOK /\ PcTask /\ [Next]_vars => (TypeOK /\ PcTask)'
  <2> SUFFICES ASSUME TypeOK, PcTask, [Next]_vars PROVE TypeOK' /\ PcTask'
    OBVIOUS
  <2>1. MasterType /\ ThreadType /\ WorkerType /\ FileType
    BY TypeParts
  <2>2. MasterType' /\ ThreadType' /\ WorkerType' /\ PcTask' /\ FileType'
    BY <2>1, MasterTypeStep, ThreadTypeStep, WorkerTypeStep, FileTypeStep
  <2> QED  BY <2>2 DEF TypeOK, MasterType, ThreadType, WorkerType, FileType
<1> QED
  BY InitType, <1>1, PTL DEF Spec

LEMMA InitCounters == Init => CountersExact
<1> SUFFICES ASSUME Init PROVE CountersExact
  OBVIOUS
<1>1. Unfinished("map") = {"map"} \X Map /\ Unfinished("reduce") = {"reduce"} \X Reduce
  BY TaskFacts DEF Init, Unfinished, MapTask, ReduceTask
<1>2. /\ IsFiniteSet(Map) /\ Cardinality(Map) = mapCount
      /\ IsFiniteSet(Reduce) /\ Cardinality(Reduce) = reduceCount
  <2>1. ASSUME NEW n \in Nat PROVE IsFiniteSet(0 .. n - 1) /\ Cardinality(0 .. n - 1) = n
    <3>1. n - 1 \in Int /\ 0 \in Int
      OBVIOUS
    <3>2. /\ IsFiniteSet(0 .. n - 1)
          /\ Cardinality(0 .. n - 1) = IF 0 > n - 1 THEN 0 ELSE (n - 1) - 0 + 1
      BY <3>1, FS_Interval
    <3> QED  BY <3>2
  <2> QED  BY <2>1, CountAssumption DEF Map, Reduce
<1>3. /\ IsFiniteSet({"map"}) /\ Cardinality({"map"}) = 1
      /\ IsFiniteSet({"reduce"}) /\ Cardinality({"reduce"}) = 1
  BY FS_Singleton
<1>4. Cardinality({"map"} \X Map) = Cardinality({"map"}) * Cardinality(Map)
  BY <1>2, <1>3, FS_Product
<1>5. Cardinality({"reduce"} \X Reduce) = Cardinality({"reduce"}) * Cardinality(Reduce)
  BY <1>2, <1>3, FS_Product
<1>6. /\ Cardinality({"map"} \X Map) = mapCount
      /\ Cardinality({"reduce"} \X Reduce) = reduceCount
  BY <1>2, <1>3, <1>4, <1>5, CountAssumption
<1> QED
  BY <1>1, <1>6 DEF Init, Counts, CountersExact

LEMMA InitIInv == Init => IInv
<1> SUFFICES ASSUME Init PROVE IInv
  OBVIOUS
<1>1. HeldOnce /\ MonitorSaw
  BY DEF Init, HeldOnce, MonitorSaw
<1>2. MapsBeforeReduces /\ ReadSoFar
  BY TaskFacts DEF Init, MapsBeforeReduces, ReadSoFar
<1>3. MapsWritten
  <2>1. \A m \in Map : <<"map", m>> \in Task
    BY TaskFacts
  <2>2. Unreadable \subseteq Map
    BY InputAssumption DEF Map
  <2> QED  BY <2>1, <2>2 DEF Init, MapsWritten, NoFile
<1>4. OutputsWritten
  <2>1. \A r \in Reduce : <<"reduce", r>> \in Task
    BY TaskFacts
  <2> QED  BY <2>1 DEF Init, OutputsWritten
<1> QED
  BY <1>1, <1>2, <1>3, <1>4, InitType, InitCounters DEF IInv

LEMMA IInvStep ==
  ASSUME ~SlowWorkers, IInv, [Next]_vars
  PROVE  /\ IInv'
         /\ FinishesNone \/ \E w \in Worker : ReportsOne(w)
<1>1. MasterType /\ ThreadType /\ WorkerType /\ FileType /\ PcTask
  BY TypeParts DEF IInv
<1>2. MasterType' /\ ThreadType' /\ WorkerType' /\ PcTask' /\ FileType'
  BY <1>1, MasterTypeStep, ThreadTypeStep, WorkerTypeStep, FileTypeStep
<1>3. TypeOK'
  BY <1>2 DEF TypeOK, MasterType, ThreadType, WorkerType, FileType
<1>4. HeldOnce'
  BY <1>1, HeldOnceStep DEF IInv
<1>5. FinishesNone \/ \E w \in Worker : ReportsOne(w)
  BY <1>1, FinishStep DEF IInv
<1>6. CountersExact' /\ \A kind : Unfinished(kind)' \subseteq Unfinished(kind)
  BY <1>1, <1>5, CountersStep DEF IInv
<1>7. MonitorSaw'
  BY <1>6, MonitorSawStep DEF IInv
<1>8. MapsBeforeReduces'
  BY <1>1, <1>6, MapsBeforeStep DEF IInv
<1>9. MapsWritten' /\ ReadSoFar' /\ OutputsWritten'
  BY <1>1, MapsWrittenStep, ReadStep, OutputsWrittenStep DEF IInv
<1> QED
  BY <1>2, <1>3, <1>4, <1>5, <1>6, <1>7, <1>8, <1>9 DEF IInv

(* The invariant behind the properties of the job.                                *)
THEOREM AlwaysIInv ==
  ASSUME ~SlowWorkers
  PROVE  Spec => []IInv
<1>1. IInv /\ [Next]_vars => IInv'
  BY IInvStep
<1> QED
  BY InitIInv, <1>1, PTL DEF Spec

(* The counters, decremented by every report, count the tasks left                *)
(* (master.cpp, reportMapComplete).                                               *)
THEOREM AlwaysCountersExact ==
  ASSUME ~SlowWorkers
  PROVE  Spec => []CountersExact
<1>1. IInv => CountersExact
  BY DEF IInv
<1> QED
  BY <1>1, AlwaysIInv, PTL

(* No reduce task reads a file that is missing or half written.                   *)
THEOREM AlwaysReduceAfterMaps ==
  ASSUME ~SlowWorkers
  PROVE  Spec => []ReduceAfterMaps
<1>1. IInv => ReduceAfterMaps
  <2> SUFFICES ASSUME IInv, NEW w \in Worker, task[w] \in ReduceTask, NEW m \in Map
               PROVE  /\ taskState[<<"map", m>>] = "COMPLETED"
                      /\ intermediate[m].data = MapData(m)
    BY DEF ReduceAfterMaps
  <2>1. taskState[<<"map", m>>] = "COMPLETED"
    BY TaskFacts DEF IInv, MapsBeforeReduces, Unfinished
  <2> QED  BY <2>1 DEF IInv, MapsWritten
<1> QED
  BY <1>1, AlwaysIInv, PTL

(* The outputs account for all inputs when the master has ended.                  *)
THEOREM AlwaysOutputComplete ==
  ASSUME ~SlowWorkers
  PROVE  Spec => []OutputComplete
<1>1. IInv => OutputComplete
  <2> SUFFICES ASSUME IInv, Exited, NEW r \in Reduce
               PROVE  output[r].data = Input
    BY DEF OutputComplete
  <2>1. taskState[<<"reduce", r>>] = "COMPLETED"
    BY TaskFacts DEF IInv, Exited, MonitorSaw, Unfinished
  <2> QED  BY <2>1 DEF IInv, OutputsWritten
<1> QED
  BY <1>1, AlwaysIInv, PTL

----------------------------------------------------------------------------------
(* The refinement.                                                                *)

Mapped  == {m \in Map : taskState[<<"map", m>>] = "COMPLETED"}
Reduced == {r \in Reduce : taskState[<<"reduce", r>>] = "COMPLETED"}
Outputs == [r \in Reduce |-> IF taskState[<<"reduce", r>>] = "COMPLETED"
                             THEN output[r].data ELSE {}]

LEMMA OutputsAreInput ==
  ASSUME OutputsWritten
  PROVE  Outputs = [r \in Reduce |-> IF r \in Reduced THEN Input ELSE {}]
BY DEF OutputsWritten, Outputs, Reduced

LEMMA AllDone ==
  /\ Unfinished("map") = {} <=> Mapped = Map
  /\ Unfinished("reduce") = {} <=> Reduced = Reduce
<1>1. \A t \in Task : t[1] = "map" => t[2] \in Map /\ t = <<"map", t[2]>>
  BY TaskFacts
<1>2. \A t \in Task : t[1] = "reduce" => t[2] \in Reduce /\ t = <<"reduce", t[2]>>
  BY TaskFacts
<1>3. \A m \in Map : <<"map", m>> \in Task
  BY TaskFacts
<1>4. \A r \in Reduce : <<"reduce", r>> \in Task
  BY TaskFacts
<1> QED
  BY <1>1, <1>2, <1>3, <1>4 DEF Unfinished, Mapped, Reduced

(* A thread that has ended does not go on.                                        *)
LEMMA ExitedStep == Exited /\ [Next]_vars => Exited'
<1> SUFFICES ASSUME Exited, [Next]_vars
             PROVE  Exited'
  OBVIOUS
<1> USE DEF Exited
<1>1. CASE ResetReads
  BY <1>1 DEF ResetReads, threadVars
<1>2. CASE ResetRefreshes
  BY <1>2 DEF ResetRefreshes, Refresh, Expired, threadVars
<1>3. CASE MonitorReads
  BY <1>3 DEF MonitorReads, threadVars
<1>4. CASE MonitorShutsDown
  BY <1>4 DEF MonitorShutsDown, threadVars
<1>5. CASE UNCHANGED <<resetThread, monitorThread>>
  BY <1>5 DEF threadVars
<1> QED
  BY <1>1, <1>2, <1>3, <1>4, <1>5
  DEF Next, WorkerStep, ResetStep, MonitorStep, vars, masterVars, threadVars,
      workerVars, fileVars, GetTask, GetCounts, OpenMapFiles, WriteMapFiles,
      ReadFile, CreateOutput, EmitOutput, Report, Crash, DeadlinePasses

(* A step of the master is a step of the job, or none.                            *)
LEMMA JobStep ==
  ASSUME IInv, IInv', [Next]_vars, FinishesNone \/ \E w \in Worker : ReportsOne(w)
  PROVE  [Job!Next]_(Job!vars)
<1> USE DEF Job!Next, Job!vars
<1>1. OutputsWritten /\ OutputsWritten'
  BY DEF IInv
<1>2. /\ Outputs = [r \in Reduce |-> IF r \in Reduced THEN Input ELSE {}]
      /\ Outputs' = [r \in Reduce |-> IF r \in Reduced' THEN Input ELSE {}]
  BY <1>1, OutputsAreInput DEF Outputs, Reduced, OutputsWritten
<1>3. CASE FinishesNone
  <2>1. Mapped' = Mapped /\ Reduced' = Reduced
    BY <1>3, TaskFacts DEF FinishesNone, Mapped, Reduced
  <2>2. Outputs' = Outputs
    BY <1>2, <2>1
  <2>3. CASE Exited' = Exited
    BY <2>1, <2>2, <2>3 DEF Mapped, Reduced, Outputs
  <2>4. CASE Exited' /\ ~Exited
    <3>1. Mapped = Map /\ Reduced = Reduce
      <4>1. Unfinished("map")' = {} /\ Unfinished("reduce")' = {}
        BY <2>4 DEF IInv, Exited, MonitorSaw
      <4>2. Unfinished("map") = {} /\ Unfinished("reduce") = {}
        BY <1>3, <4>1 DEF Unfinished, FinishesNone
      <4> QED  BY <4>2, AllDone
    <3>2. Job!Finish
      BY <2>1, <2>2, <2>4, <3>1 DEF Job!Finish, Mapped, Reduced, Outputs
    <3> QED  BY <3>2
  <2>5. Exited \in BOOLEAN /\ Exited' \in BOOLEAN
    BY DEF Exited
  <2> QED  BY <2>3, <2>4, <2>5, ExitedStep
<1>4. ASSUME NEW w \in Worker, ReportsOne(w)
      PROVE  Job!Next
  <2> DEFINE t == task[w]
  <2>1. t \in Task /\ taskState[t] = "ASSIGNED"
    BY <1>4 DEF ReportsOne
  <2>2. \A u \in Task : taskState'[u] = IF u = t THEN "COMPLETED" ELSE taskState[u]
    BY <1>4 DEF ReportsOne, IInv, TypeOK
  <2>3. Exited' = Exited
    BY <1>4 DEF ReportsOne, Exited
  <2>4. CASE t \in MapTask
    <3>1. PICK m \in Map : t = <<"map", m>>
      BY <2>4, TaskFacts
    <3> HIDE DEF t
    <3>2. m \notin Mapped
      BY <2>1, <3>1 DEF Mapped
    <3>3. Mapped' = Mapped \cup {m}
      BY <2>2, <3>1, TaskFacts DEF Mapped
    <3>4. Reduced' = Reduced
      BY <2>2, <3>1, TaskFacts DEF Reduced
    <3>5. Outputs' = Outputs
      BY <1>2, <3>4
    <3>6. Job!DoMap(m)
      BY <2>3, <3>2, <3>3, <3>4, <3>5 DEF Job!DoMap, Mapped, Reduced, Outputs
    <3> QED  BY <3>1, <3>6
  <2>5. CASE t \in ReduceTask
    <3>1. PICK r \in Reduce : t = <<"reduce", r>>
      BY <2>5, TaskFacts
    <3>2. Mapped = Map
      BY <2>5, AllDone DEF IInv, MapsBeforeReduces
    <3> HIDE DEF t
    <3>3. r \notin Reduced
      BY <2>1, <3>1 DEF Reduced
    <3>4. Reduced' = Reduced \cup {r}
      BY <2>2, <3>1, TaskFacts DEF Reduced
    <3>5. Mapped' = Mapped
      BY <2>2, <3>1, TaskFacts DEF Mapped
    <3>6. Outputs' = [Outputs EXCEPT ![r] = Input]
      BY <1>2, <3>1, <3>4
    <3>7. Job!DoReduce(r)
      BY <2>3, <3>2, <3>3, <3>4, <3>5, <3>6 DEF Job!DoReduce, Mapped, Reduced, Outputs
    <3> QED  BY <3>1, <3>7
  <2> QED  BY <2>1, <2>4, <2>5 DEF Task
<1> QED
  BY <1>3, <1>4

(* Workers that crash, deadlines and repeated work do not show: the master does   *)
(* what MapReduceJob does, for every number of workers and tasks.                 *)
THEOREM ImplementsJob ==
  ASSUME ~SlowWorkers
  PROVE  Spec => RefinesJob
<1>1. Init => Job!Init
  <2> SUFFICES ASSUME Init PROVE Job!Init
    OBVIOUS
  <2>1. /\ \A m \in Map : <<"map", m>> \in Task
        /\ \A r \in Reduce : <<"reduce", r>> \in Task
    BY TaskFacts
  <2>2. ~Exited
    BY DEF Init, Exited
  <2>3. /\ Mapped = {} /\ Reduced = {}
        /\ Outputs = [r \in Reduce |-> {}]
    BY <2>1 DEF Init, Mapped, Reduced, Outputs
  <2> QED  BY <2>2, <2>3 DEF Job!Init, Mapped, Reduced, Outputs
<1>2. IInv /\ IInv' /\ [Next]_vars => [Job!Next]_(Job!vars)
  BY IInvStep, JobStep
<1> QED
  BY <1>1, <1>2, AlwaysIInv, PTL DEF Spec, RefinesJob, Job!Spec

==================================================================================
