------------------------------ MODULE HarnessProofs ------------------------------
(* The safety properties of HarnessProperties for every set of calls and every   *)
(* number of restarts.                                                           *)
EXTENDS HarnessProperties, TLAPS

Phase == {"down", "started", "up", "stopping", "joining", "joined",
          "disconnected", "deleted", "copied", "killed"}

Served  == {"up", "stopping", "joining", "joined", "disconnected"}
Running == {"started", "deleted"} \cup Served

Command == [from : Instance, call : Call]

TypeInv ==
    /\ tester \in Phase
    /\ starts \in 0..MaxStarts
    /\ raft \in Instance \cup {Nobody}
    /\ registered \in Instance \cup {Nobody}
    /\ enabled \in BOOLEAN
    /\ object \in Seq(SUBSET Call)
    /\ persister = Len(object) /\ persister # 0
    /\ own \in [Instance -> Nat]
    /\ stopped \in BOOLEAN
    /\ channel \in [Instance -> [queue : Seq(Command), closed : BOOLEAN]]
    /\ applier \in [Instance -> {"none", "checking", "popping", "about_to_wait", "waiting", "ended"}]
    /\ machine \in Seq(Command)
    /\ caller \in [Call -> {"idle", "waiting", "ok", "failed"}]
    /\ delivery \in [Call -> {"none", "queued", "polling", "alive", "ended"}]
    /\ target \in [Call -> Instance \cup {Nobody}]
    /\ handler \in [Call -> {"none", "started", "running", "saved", "ended"}]

(* The instance that runs is the last one started, and the one that calls go to. *)
RunningIsLast ==
    /\ tester \in Running \cup {"copied"} => raft = starts
    /\ tester \in {"killed", "down"} => raft = Nobody
    /\ tester # "down" => starts # 0
    /\ registered = IF tester \in Served THEN starts ELSE Nobody

(* The instance that runs owns the persister the next one starts from, until     *)
(* crashServer copies it; the others own older objects.                          *)
OwnObjects ==
    /\ \A k \in Instance : k <= starts => own[k] # 0
    /\ \A k \in Instance : own[k] <= persister
    /\ \A k \in Instance : own[k] = persister => tester \in Running /\ k = starts
    /\ tester \in Running => own[starts] = persister

(* A call reaches an instance only after it is added to the network.             *)
Targets ==
    \A c \in Call : handler[c] # "none" =>
        /\ target[c] \in Instance
        /\ target[c] <= starts
        /\ tester = "started" => target[c] # starts

Saved ==
    \A c \in Call :
        \/ caller[c] = "ok" \/ delivery[c] = "alive"
        \/ handler[c] \in {"saved", "ended"} /\ target[c] = registered
        => c \in object[persister]

(* An applier thread runs only for the instance that runs, and is joined.        *)
AppliersJoined ==
    \A k \in Instance : applier[k] \notin {"none", "ended"} =>
        raft = k /\ tester \in {"started", "up", "stopping", "joining"}

OwnChannel ==
    \A k \in Instance : \A i \in DOMAIN channel[k].queue : channel[k].queue[i].from = k

(* No wake-up is lost: pop waits, or is about to, only on an open empty channel. *)
NoLostWakeUp ==
    \A k \in Instance : applier[k] \in {"about_to_wait", "waiting"} =>
        channel[k].queue = <<>> /\ ~channel[k].closed

IInv ==
    /\ TypeInv /\ RunningIsLast /\ OwnObjects /\ Targets /\ Saved
    /\ AppliersJoined /\ OwnChannel /\ NoLostWakeUp /\ OnlyOwnCommands

----------------------------------------------------------------------------------

(* CopyPersister makes a new object of the same contents.                       *)
LEMMA CopyFacts ==
  ASSUME TypeInv, CopyPersister(object[persister])
  PROVE  /\ object' \in Seq(SUBSET Call)
         /\ persister' = Len(object') /\ persister' = persister + 1
         /\ persister \in Nat
         /\ object'[persister'] = object[persister]
<1>1. object \in Seq(SUBSET Call) /\ persister = Len(object) /\ persister # 0
  BY DEF TypeInv
<1>2. object[persister] \in SUBSET Call
  BY <1>1
<1> QED
  BY <1>1, <1>2 DEF CopyPersister

(* A handler that saves changes the object of its own instance only.             *)
LEMMA SaveFacts ==
  ASSUME TypeInv, OwnObjects, Targets, NEW c \in Call, Save(c)
  PROVE  /\ target[c] \in Instance
         /\ own[target[c]] \in 1..Len(object)
         /\ object' = [object EXCEPT ![own[target[c]]] = @ \cup {c}]
         /\ object' \in Seq(SUBSET Call)
         /\ Len(object') = Len(object)
<1>1. object \in Seq(SUBSET Call) /\ persister = Len(object)
  BY DEF TypeInv
<1>2. target[c] \in Instance /\ target[c] <= starts
  BY DEF Save, Targets
<1>3. own[target[c]] \in 1..Len(object)
  BY <1>1, <1>2 DEF OwnObjects, TypeInv
<1>4. object' = [object EXCEPT ![own[target[c]]] = @ \cup {c}]
  BY DEF Save
<1> DEFINE o == own[target[c]]
<1>5. object[o] \cup {c} \in SUBSET Call
  BY <1>1, <1>3
<1>6. object' \in Seq(SUBSET Call) /\ Len(object') = Len(object)
  <2> HIDE DEF o
  <2> QED  BY <1>1, <1>3, <1>4, <1>5 DEF o
<1> QED
  BY <1>2, <1>3, <1>4, <1>6

LEMMA PopFacts ==
  ASSUME TypeInv, NEW k \in Instance, channel[k].queue # <<>>
  PROVE  /\ channel[k] \in [queue : Seq(Command), closed : BOOLEAN]
         /\ Head(channel[k].queue) \in Command
         /\ Tail(channel[k].queue) \in Seq(Command)
         /\ Append(machine, Head(channel[k].queue)) \in Seq(Command)
<1>1. channel[k] \in [queue : Seq(Command), closed : BOOLEAN] /\ machine \in Seq(Command)
  BY DEF TypeInv
<1> HIDE DEF Command
<1>2. channel[k].queue \in Seq(Command)
  BY <1>1
<1> QED
  BY <1>1, <1>2

LEMMA PushFacts ==
  ASSUME TypeInv, NEW k \in Instance, NEW c \in Call
  PROVE  Append(channel[k].queue, [from |-> k, call |-> c]) \in Seq(Command)
<1>1. [from |-> k, call |-> c] \in Command
  BY DEF Command
<1>2. channel[k].queue \in Seq(Command)
  BY DEF TypeInv
<1> QED
  BY <1>1, <1>2

(* Every step preserves the types. *)
LEMMA TypeStep == TypeInv /\ RunningIsLast /\ OwnObjects /\ Targets /\ [Next]_vars => TypeInv'
<1> SUFFICES ASSUME TypeInv, RunningIsLast, OwnObjects, Targets, [Next]_vars PROVE TypeInv'
  OBVIOUS
<1> USE NobodyAssumption, StartsAssumption DEF Instance, Phase, vars, testerVars, diskVars, applierVars, callVars
<1>1. CASE StopApplier
  BY <1>1 DEF StopApplier, Advance, TypeInv
<1>2. CASE CloseChannel
  BY <1>2 DEF CloseChannel, Advance, Unlocked, Notify, TypeInv
<1>3. CASE JoinApplier
  BY <1>3 DEF JoinApplier, Advance, TypeInv
<1>4. CASE Disconnect
  BY <1>4 DEF Disconnect, Advance, TypeInv
<1>5. CASE DeleteServer
  BY <1>5 DEF DeleteServer, Advance, TypeInv
<1>6. CASE CopyState
  <2>1. CopyPersister(object[persister])
    BY <1>6 DEF CopyState
  <2>2. object' \in Seq(SUBSET Call) /\ persister' = Len(object') /\ persister' # 0
    BY <2>1, CopyFacts
  <2> QED  BY <1>6, <2>2 DEF CopyState, Advance, TypeInv
<1>7. CASE Kill
  BY <1>7 DEF Kill, Advance, TypeInv
<1>8. CASE PreserveState
  <2>1. CopyPersister(object[persister])
    BY <1>8 DEF PreserveState
  <2>2. object' \in Seq(SUBSET Call) /\ persister' = Len(object') /\ persister' # 0
    BY <2>1, CopyFacts
  <2> QED  BY <1>8, <2>2 DEF PreserveState, Advance, TypeInv
<1>9. CASE StartInstance
  <2>1. CopyPersister(object[persister])
    BY <1>9 DEF StartInstance
  <2>2. object' \in Seq(SUBSET Call) /\ persister' = Len(object') /\ persister' # 0
        /\ persister' \in Nat
    BY <2>1, CopyFacts
  <2>3. starts + 1 \in Instance /\ starts' = starts + 1
    BY <1>9 DEF StartInstance, TypeInv
  <2>4. own' \in [Instance -> Nat]
    BY <1>9, <2>2, <2>3 DEF StartInstance, TypeInv
  <2>5. machine' \in Seq(Command)
    BY <1>9 DEF StartInstance
  <2>6. starts' \in 0..MaxStarts /\ raft' \in Instance
    BY <1>9, <2>3 DEF StartInstance, TypeInv
  <2>7. applier' = [applier EXCEPT ![starts + 1] = "checking"]
    BY <1>9 DEF StartInstance
  <2>8. tester' \in Phase
    BY <1>9 DEF StartInstance, Advance
  <2>9. UNCHANGED <<registered, enabled, channel, caller, delivery, target, handler>>
        /\ stopped' = FALSE
    BY <1>9 DEF StartInstance
  <2> QED  BY <2>2, <2>4, <2>5, <2>6, <2>7, <2>8, <2>9 DEF TypeInv
<1>10. CASE AddServer
  <2>1. starts # 0 /\ starts \in 0..MaxStarts
    BY <1>10 DEF AddServer, Advance, RunningIsLast, TypeInv
  <2>2. starts \in Instance
    BY <2>1
  <2> QED  BY <1>10, <2>2 DEF AddServer, Advance, TypeInv
<1>11. CASE Enable
  BY <1>11 DEF Enable, TypeInv
<1>12. ASSUME NEW k \in Instance, CheckStop(k) PROVE TypeInv'
  BY <1>12 DEF CheckStop, TypeInv
<1>13. ASSUME NEW k \in Instance, Pop(k) PROVE TypeInv'
  <2>1. CASE channel[k].queue = <<>>
    BY <1>13, <2>1 DEF Pop, TypeInv
  <2>2. CASE channel[k].queue # <<>>
    <3>1. channel' = [channel EXCEPT ![k].queue = Tail(@)]
          /\ machine' = Append(machine, Head(channel[k].queue))
      BY <1>13, <2>2 DEF Pop
    <3>2. channel' \in [Instance -> [queue : Seq(Command), closed : BOOLEAN]]
      BY <2>2, <3>1, PopFacts, Zenon DEF TypeInv
    <3>3. machine' \in Seq(Command)
      BY <2>2, <3>1, PopFacts
    <3> QED  BY <1>13, <2>2, <3>2, <3>3 DEF Pop, TypeInv
  <2> QED  BY <2>1, <2>2
<1>14. ASSUME NEW k \in Instance, Wait(k) PROVE TypeInv'
  BY <1>14 DEF Wait, TypeInv
<1>15. ASSUME NEW c \in Call, Send(c) PROVE TypeInv'
  BY <1>15 DEF Send, TypeInv
<1>16. ASSUME NEW c \in Call, TimeOut(c) PROVE TypeInv'
  BY <1>16 DEF TimeOut, Resolve, TypeInv
<1>17. ASSUME NEW c \in Call, Deliver(c) PROVE TypeInv'
  BY <1>17 DEF Deliver, Resolve, TypeInv
<1>18. ASSUME NEW c \in Call, Dispatch(c) PROVE TypeInv'
  BY <1>18 DEF Dispatch, TypeInv
<1>19. ASSUME NEW c \in Call, Save(c) PROVE TypeInv'
  BY <1>19, SaveFacts DEF Save, TypeInv
<1>20. ASSUME NEW c \in Call, Finish(c) PROVE TypeInv'
  <2>1. target[c] \in Instance
    BY <1>20 DEF Finish, Targets
  <2>2. channel' = [channel EXCEPT ![target[c]].queue = Append(@, [from |-> target[c], call |-> c])]
    BY <1>20 DEF Finish, Push
  <2>3. channel' \in [Instance -> [queue : Seq(Command), closed : BOOLEAN]]
    BY <2>1, <2>2, PushFacts DEF TypeInv
  <2> QED  BY <1>20, <2>1, <2>3 DEF Finish, Push, Notify, TypeInv
<1>21. ASSUME NEW c \in Call, Abandon(c) PROVE TypeInv'
  BY <1>21 DEF Abandon, IsServerDead, TypeInv
<1>22. ASSUME NEW c \in Call, FinalCheck(c) PROVE TypeInv'
  BY <1>22 DEF FinalCheck, IsServerDead, Resolve, TypeInv
<1>23. ASSUME NEW c \in Call, Reply(c) PROVE TypeInv'
  BY <1>23 DEF Reply, Resolve, TypeInv
<1>24. CASE UNCHANGED vars
  BY <1>24 DEF vars, testerVars, diskVars, applierVars, callVars, TypeInv
<1> QED
  BY <1>1, <1>2, <1>3, <1>4, <1>5, <1>6, <1>7, <1>8, <1>9, <1>10, <1>11,
     <1>12, <1>13, <1>14, <1>15, <1>16, <1>17, <1>18, <1>19, <1>20, <1>21, <1>22, <1>23, <1>24
  DEF Next, CrashServer, Applier, Handler

(* Only the steps of the tester change which instance runs. *)
LEMMA RunningStep == TypeInv /\ RunningIsLast /\ [Next]_vars => RunningIsLast'
<1> SUFFICES ASSUME TypeInv, RunningIsLast, [Next]_vars PROVE RunningIsLast'
  OBVIOUS
<1> USE NobodyAssumption, StartsAssumption DEF Instance, Phase, Running, Served
<1>1. CASE StopApplier
  BY <1>1 DEF StopApplier, Advance, RunningIsLast, TypeInv, testerVars
<1>2. CASE CloseChannel
  BY <1>2 DEF CloseChannel, Advance, Unlocked, Notify, RunningIsLast, TypeInv, testerVars
<1>3. CASE JoinApplier
  BY <1>3 DEF JoinApplier, Advance, RunningIsLast, TypeInv, testerVars
<1>4. CASE Disconnect
  BY <1>4 DEF Disconnect, Advance, RunningIsLast, TypeInv, testerVars
<1>5. CASE DeleteServer
  BY <1>5 DEF DeleteServer, Advance, RunningIsLast, TypeInv, testerVars
<1>6. CASE CopyState
  BY <1>6 DEF CopyState, Advance, CopyPersister, RunningIsLast, TypeInv, testerVars
<1>7. CASE Kill
  BY <1>7 DEF Kill, Advance, RunningIsLast, TypeInv, testerVars
<1>8. CASE PreserveState
  BY <1>8 DEF PreserveState, Advance, CopyPersister, RunningIsLast, TypeInv, testerVars
<1>9. CASE StartInstance
  BY <1>9 DEF StartInstance, Advance, CopyPersister, RunningIsLast, TypeInv, testerVars
<1>10. CASE AddServer
  BY <1>10 DEF AddServer, Advance, RunningIsLast, TypeInv, testerVars
<1>11. CASE UNCHANGED <<tester, starts, raft, registered>>
  BY <1>11 DEF RunningIsLast, TypeInv, testerVars
<1> QED
  BY <1>1, <1>2, <1>3, <1>4, <1>5, <1>6, <1>7, <1>8, <1>9, <1>10, <1>11
  DEF Next, CrashServer, Applier, Handler, vars, testerVars, diskVars, applierVars, callVars,
     Enable, CheckStop, Pop, Wait, Send, TimeOut, Deliver, Dispatch, Save,
     Finish, Abandon, FinalCheck, Reply

(* A copy is newer than every object an instance owns; a new instance gets it.   *)
LEMMA OwnStep == TypeInv /\ RunningIsLast /\ OwnObjects /\ [Next]_vars => OwnObjects'
<1> SUFFICES ASSUME TypeInv, RunningIsLast, OwnObjects, [Next]_vars PROVE OwnObjects'
  OBVIOUS
<1> USE NobodyAssumption, StartsAssumption DEF Instance, Phase, Running, Served
<1>1. CASE StopApplier
  BY <1>1 DEF StopApplier, Advance, OwnObjects, RunningIsLast, TypeInv, testerVars, diskVars
<1>2. CASE CloseChannel
  BY <1>2
  DEF CloseChannel, Advance, Unlocked, Notify, OwnObjects, RunningIsLast, TypeInv,
      testerVars, diskVars
<1>3. CASE JoinApplier
  BY <1>3 DEF JoinApplier, Advance, OwnObjects, RunningIsLast, TypeInv, testerVars, diskVars
<1>4. CASE Disconnect
  BY <1>4 DEF Disconnect, Advance, OwnObjects, RunningIsLast, TypeInv, testerVars, diskVars
<1>5. CASE DeleteServer
  BY <1>5
  DEF DeleteServer, Advance, OwnObjects, RunningIsLast, TypeInv, testerVars, diskVars
<1>6. CASE CopyState
  <2>1. CopyPersister(object[persister])
    BY <1>6 DEF CopyState
  <2>2. persister' = persister + 1 /\ persister \in Nat
    BY <2>1, CopyFacts
  <2> QED  BY <1>6, <2>2 DEF CopyState, Advance, OwnObjects, TypeInv
<1>7. CASE Kill
  BY <1>7 DEF Kill, Advance, OwnObjects, RunningIsLast, TypeInv, testerVars, diskVars
<1>8. CASE PreserveState
  <2>1. CopyPersister(object[persister])
    BY <1>8 DEF PreserveState
  <2>2. persister' = persister + 1 /\ persister \in Nat
    BY <2>1, CopyFacts
  <2> QED  BY <1>8, <2>2 DEF PreserveState, Advance, OwnObjects, TypeInv
<1>9. CASE StartInstance
  <2>1. CopyPersister(object[persister])
    BY <1>9 DEF StartInstance
  <2>2. persister' = persister + 1 /\ persister \in Nat
    BY <2>1, CopyFacts
  <2>3. starts + 1 \in Instance /\ starts' = starts + 1 /\ tester' = "started"
    BY <1>9 DEF StartInstance, Advance, TypeInv
  <2>4. own' = [own EXCEPT ![starts + 1] = persister']
    BY <1>9 DEF StartInstance
  <2> QED  BY <2>2, <2>3, <2>4 DEF OwnObjects, TypeInv
<1>10. CASE AddServer
  BY <1>10 DEF AddServer, Advance, OwnObjects, RunningIsLast, TypeInv, testerVars, diskVars
<1>11. CASE UNCHANGED <<tester, starts, persister, own>>
  BY <1>11 DEF OwnObjects, RunningIsLast, TypeInv, testerVars, diskVars
<1> QED
  BY <1>1, <1>2, <1>3, <1>4, <1>5, <1>6, <1>7, <1>8, <1>9, <1>10, <1>11
  DEF Next, CrashServer, Applier, Handler, vars, testerVars, diskVars, applierVars, callVars,
     Enable, CheckStop, Pop, Wait, Send, TimeOut, Deliver, Dispatch, Save,
     Finish, Abandon, FinalCheck, Reply

(* Calls are delivered to the instance that is registered, none while one starts. *)
LEMMA TargetsStep == TypeInv /\ RunningIsLast /\ Targets /\ [Next]_vars => Targets'
<1> SUFFICES ASSUME TypeInv, RunningIsLast, Targets, [Next]_vars PROVE Targets'
  OBVIOUS
<1> USE NobodyAssumption, StartsAssumption DEF Instance, Phase, Running, Served
<1>1. CASE StopApplier
  BY <1>1 DEF StopApplier, Advance, Targets, RunningIsLast, TypeInv, testerVars, callVars
<1>2. CASE CloseChannel
  BY <1>2
  DEF CloseChannel, Advance, Unlocked, Notify, Targets, RunningIsLast, TypeInv,
      testerVars, callVars
<1>3. CASE JoinApplier
  BY <1>3 DEF JoinApplier, Advance, Targets, RunningIsLast, TypeInv, testerVars, callVars
<1>4. CASE Disconnect
  BY <1>4 DEF Disconnect, Advance, Targets, RunningIsLast, TypeInv, testerVars, callVars
<1>5. CASE DeleteServer
  BY <1>5 DEF DeleteServer, Advance, Targets, RunningIsLast, TypeInv, testerVars, callVars
<1>6. CASE CopyState
  BY <1>6
  DEF CopyState, Advance, CopyPersister, Targets, RunningIsLast, TypeInv, testerVars,
      callVars
<1>7. CASE Kill
  BY <1>7 DEF Kill, Advance, Targets, RunningIsLast, TypeInv, testerVars, callVars
<1>8. CASE PreserveState
  BY <1>8
  DEF PreserveState, Advance, CopyPersister, Targets, RunningIsLast, TypeInv,
      testerVars, callVars
<1>9. CASE StartInstance
  BY <1>9
  DEF StartInstance, Advance, CopyPersister, Targets, RunningIsLast, TypeInv,
      testerVars, callVars
<1>10. CASE AddServer
  BY <1>10 DEF AddServer, Advance, Targets, RunningIsLast, TypeInv, testerVars, callVars
<1>11. ASSUME NEW c \in Call, Deliver(c) PROVE Targets'
  <2>1. CASE registered # Nobody /\ target' = [target EXCEPT ![c] = registered]
             /\ handler' = [handler EXCEPT ![c] = "started"]
    <3>1. registered = starts /\ registered \in Instance /\ tester \in Served
      BY <2>1 DEF RunningIsLast, TypeInv
    <3>2. tester' = tester /\ starts' = starts /\ tester # "started"
      BY <1>11, <3>1 DEF Deliver, testerVars
    <3> QED  BY <2>1, <3>1, <3>2 DEF Targets, TypeInv
  <2>2. CASE UNCHANGED <<target, handler>>
    BY <1>11, <2>2 DEF Deliver, Targets, testerVars
  <2> QED  BY <1>11, <2>1, <2>2 DEF Deliver
<1>12. ASSUME NEW c \in Call, Dispatch(c) PROVE Targets'
  BY <1>12 DEF Dispatch, Targets, RunningIsLast, TypeInv, testerVars, callVars
<1>13. ASSUME NEW c \in Call, Save(c) PROVE Targets'
  BY <1>13 DEF Save, Targets, RunningIsLast, TypeInv, testerVars, callVars
<1>14. ASSUME NEW c \in Call, Finish(c) PROVE Targets'
  BY <1>14
  DEF Finish, Push, Unlocked, Notify, Targets, RunningIsLast, TypeInv, testerVars,
      callVars
<1>15. CASE UNCHANGED <<tester, starts, target, handler>>
  BY <1>15 DEF Targets, RunningIsLast, TypeInv, testerVars, callVars
<1> QED
  BY <1>1, <1>2, <1>3, <1>4, <1>5, <1>6, <1>7, <1>8, <1>9, <1>10, <1>11, <1>12, <1>13, <1>14, <1>15
  DEF Next, CrashServer, Applier, Handler, vars, testerVars, diskVars, applierVars, callVars,
     Enable, CheckStop, Pop, Wait, Send, TimeOut, Abandon, FinalCheck, Reply

(* A handler of the registered instance saves to the object that is copied.       *)
LEMMA SavedStep == TypeInv /\ RunningIsLast /\ OwnObjects /\ Targets /\ Saved /\ [Next]_vars => Saved'
<1> SUFFICES ASSUME TypeInv, RunningIsLast, OwnObjects, Targets, Saved, [Next]_vars PROVE Saved'
  OBVIOUS
<1> USE NobodyAssumption, StartsAssumption DEF Instance, Phase, Running, Served
<1>1. CASE DeleteServer
  <2>1. \A c \in Call : handler[c] # "none" => target[c] # Nobody
    BY DEF Targets
  <2>2. registered' = Nobody /\ UNCHANGED <<object, persister, caller, delivery, target, handler>>
    BY <1>1 DEF DeleteServer, diskVars, callVars
  <2> QED  BY <2>1, <2>2 DEF Saved
<1>2. CASE CopyState
  <2>1. CopyPersister(object[persister])
    BY <1>2 DEF CopyState
  <2>2. object'[persister'] = object[persister]
    BY <2>1, CopyFacts
  <2> QED  BY <1>2, <2>2 DEF CopyState, Advance, Saved, callVars
<1>3. CASE PreserveState
  <2>1. CopyPersister(object[persister])
    BY <1>3 DEF PreserveState
  <2>2. object'[persister'] = object[persister]
    BY <2>1, CopyFacts
  <2> QED  BY <1>3, <2>2 DEF PreserveState, Advance, Saved, callVars
<1>4. CASE StartInstance
  <2>1. CopyPersister(object[persister])
    BY <1>4 DEF StartInstance
  <2>2. object'[persister'] = object[persister]
    BY <2>1, CopyFacts
  <2> QED  BY <1>4, <2>2 DEF StartInstance, Advance, Saved, callVars
<1>5. CASE AddServer
  <2>1. \A c \in Call : handler[c] # "none" => target[c] # starts
    BY <1>5 DEF AddServer, Advance, Targets
  <2>2. registered' = starts /\ UNCHANGED <<object, persister, caller, delivery, target, handler>>
    BY <1>5 DEF AddServer, diskVars, callVars
  <2> QED  BY <2>1, <2>2 DEF Saved
<1>6. ASSUME NEW c \in Call, Send(c) PROVE Saved'
  BY <1>6 DEF Send, Saved, TypeInv, testerVars, diskVars, callVars
<1>7. ASSUME NEW c \in Call, TimeOut(c) PROVE Saved'
  BY <1>7 DEF TimeOut, Resolve, Saved, TypeInv, testerVars, diskVars, callVars
<1>8. ASSUME NEW c \in Call, Deliver(c) PROVE Saved'
  BY <1>8 DEF Deliver, Resolve, Saved, TypeInv, testerVars, diskVars, callVars
<1>9. ASSUME NEW c \in Call, Dispatch(c) PROVE Saved'
  BY <1>9 DEF Dispatch, Saved, TypeInv, testerVars, diskVars, callVars
<1>10. ASSUME NEW c \in Call, Save(c) PROVE Saved'
  <2>1. object[persister] \subseteq object'[persister']
    BY <1>10, SaveFacts DEF Save, TypeInv
  <2>2. target[c] = registered => c \in object'[persister']
    <3> SUFFICES ASSUME target[c] = registered PROVE c \in object'[persister']
      OBVIOUS
    <3>1. tester \in Served /\ target[c] = starts
      BY <1>10, SaveFacts DEF RunningIsLast
    <3>2. own[target[c]] = persister
      BY <3>1 DEF OwnObjects
    <3> QED  BY <1>10, <3>2, SaveFacts DEF Save, TypeInv
  <2>3. handler' = [handler EXCEPT ![c] = "saved"]
        /\ UNCHANGED <<registered, caller, delivery, target>>
    BY <1>10 DEF Save, testerVars
  <2> QED  BY <2>1, <2>2, <2>3 DEF Saved, TypeInv
<1>11. ASSUME NEW c \in Call, Finish(c) PROVE Saved'
  BY <1>11
  DEF Finish, Push, Unlocked, Notify, Saved, TypeInv, testerVars, diskVars, callVars
<1>12. ASSUME NEW c \in Call, Abandon(c) PROVE Saved'
  BY <1>12 DEF Abandon, IsServerDead, Saved, TypeInv, testerVars, diskVars, callVars
<1>13. ASSUME NEW c \in Call, FinalCheck(c) PROVE Saved'
  BY <1>13
  DEF FinalCheck, IsServerDead, Resolve, Saved, TypeInv, testerVars, diskVars,
      callVars
<1>14. ASSUME NEW c \in Call, Reply(c) PROVE Saved'
  BY <1>14 DEF Reply, Resolve, Saved, TypeInv, testerVars, diskVars, callVars
<1>15. CASE UNCHANGED <<registered, object, persister, caller, delivery, target, handler>>
  BY <1>15 DEF Saved, TypeInv, testerVars, diskVars, callVars
<1> QED
  BY <1>1, <1>2, <1>3, <1>4, <1>5, <1>6, <1>7, <1>8, <1>9, <1>10, <1>11, <1>12, <1>13, <1>14, <1>15
  DEF Next, CrashServer, Applier, Handler, vars, testerVars, diskVars, applierVars, callVars,
     StopApplier, CloseChannel, JoinApplier, Disconnect, Kill, Enable,
     CheckStop, Pop, Wait

(* crashServer goes on when the applier thread has ended.                        *)
LEMMA AppliersStep == TypeInv /\ RunningIsLast /\ AppliersJoined /\ [Next]_vars => AppliersJoined'
<1> SUFFICES ASSUME TypeInv, RunningIsLast, AppliersJoined, [Next]_vars PROVE AppliersJoined'
  OBVIOUS
<1> USE NobodyAssumption, StartsAssumption DEF Instance, Phase, Running, Served
<1>1. CASE StopApplier
  BY <1>1
  DEF StopApplier, Advance, AppliersJoined, RunningIsLast, TypeInv, testerVars,
      applierVars
<1>2. CASE CloseChannel
  BY <1>2
  DEF CloseChannel, Advance, Unlocked, Notify, AppliersJoined, RunningIsLast, TypeInv,
      testerVars, applierVars
<1>3. CASE JoinApplier
  BY <1>3
  DEF JoinApplier, Advance, AppliersJoined, RunningIsLast, TypeInv, testerVars,
      applierVars
<1>4. CASE Disconnect
  BY <1>4
  DEF Disconnect, Advance, AppliersJoined, RunningIsLast, TypeInv, testerVars,
      applierVars
<1>5. CASE DeleteServer
  BY <1>5
  DEF DeleteServer, Advance, AppliersJoined, RunningIsLast, TypeInv, testerVars,
      applierVars
<1>6. CASE CopyState
  BY <1>6
  DEF CopyState, Advance, CopyPersister, AppliersJoined, RunningIsLast, TypeInv,
      testerVars, applierVars
<1>7. CASE Kill
  BY <1>7 DEF Kill, Advance, AppliersJoined, RunningIsLast, TypeInv, testerVars, applierVars
<1>8. CASE PreserveState
  BY <1>8
  DEF PreserveState, Advance, CopyPersister, AppliersJoined, RunningIsLast, TypeInv,
      testerVars, applierVars
<1>9. CASE StartInstance
  BY <1>9
  DEF StartInstance, Advance, CopyPersister, AppliersJoined, RunningIsLast, TypeInv,
      testerVars, applierVars
<1>10. CASE AddServer
  BY <1>10
  DEF AddServer, Advance, AppliersJoined, RunningIsLast, TypeInv, testerVars,
      applierVars
<1>11. ASSUME NEW k \in Instance, CheckStop(k) PROVE AppliersJoined'
  BY <1>11 DEF CheckStop, AppliersJoined, RunningIsLast, TypeInv, testerVars, applierVars
<1>12. ASSUME NEW k \in Instance, Pop(k) PROVE AppliersJoined'
  BY <1>12 DEF Pop, AppliersJoined, RunningIsLast, TypeInv, testerVars, applierVars
<1>13. ASSUME NEW k \in Instance, Wait(k) PROVE AppliersJoined'
  BY <1>13 DEF Wait, AppliersJoined, RunningIsLast, TypeInv, testerVars, applierVars
<1>14. ASSUME NEW c \in Call, Finish(c) PROVE AppliersJoined'
  BY <1>14
  DEF Finish, Push, Unlocked, Notify, AppliersJoined, RunningIsLast, TypeInv,
      testerVars, applierVars
<1>15. CASE UNCHANGED <<tester, raft, applier>>
  BY <1>15 DEF AppliersJoined, RunningIsLast, TypeInv, testerVars, applierVars
<1> QED
  BY <1>1, <1>2, <1>3, <1>4, <1>5, <1>6, <1>7, <1>8, <1>9, <1>10, <1>11, <1>12, <1>13, <1>14, <1>15
  DEF Next, CrashServer, Applier, Handler, vars, testerVars, diskVars, applierVars, callVars,
     Enable, Send, TimeOut, Deliver, Dispatch, Save, Abandon, FinalCheck,
     Reply

(* An instance pushes to its own channel.                                        *)
LEMMA ChannelStep == TypeInv /\ Targets /\ OwnChannel /\ [Next]_vars => OwnChannel'
<1> SUFFICES ASSUME TypeInv, Targets, OwnChannel, [Next]_vars PROVE OwnChannel'
  OBVIOUS
<1> USE NobodyAssumption, StartsAssumption DEF Instance, Phase, Running, Served
<1>1. CASE CloseChannel
  BY <1>1 DEF CloseChannel, Advance, Unlocked, Notify, OwnChannel, TypeInv, Targets
<1>2. ASSUME NEW k \in Instance, Pop(k) PROVE OwnChannel'
  <2>1. CASE channel[k].queue # <<>> /\ channel' = [channel EXCEPT ![k].queue = Tail(@)]
    <3>1. channel[k].queue \in Seq(Command)
      BY DEF TypeInv
    <3>2. \A i \in DOMAIN Tail(channel[k].queue) :
            /\ i + 1 \in DOMAIN channel[k].queue
            /\ Tail(channel[k].queue)[i] = channel[k].queue[i + 1]
      BY <2>1, <3>1
    <3> QED  BY <2>1, <3>2 DEF OwnChannel, TypeInv
  <2>2. CASE UNCHANGED channel
    BY <2>2 DEF OwnChannel
  <2> QED  BY <1>2, <2>1, <2>2 DEF Pop
<1>3. ASSUME NEW c \in Call, Finish(c) PROVE OwnChannel'
  BY <1>3 DEF Finish, Push, Unlocked, Notify, OwnChannel, TypeInv, Targets
<1>4. CASE UNCHANGED <<channel>>
  BY <1>4 DEF OwnChannel, TypeInv, Targets
<1> QED
  BY <1>1, <1>2, <1>3, <1>4
  DEF Next, CrashServer, Applier, Handler, vars, testerVars, diskVars, applierVars, callVars,
     StopApplier, JoinApplier, Disconnect, DeleteServer, CopyState, Kill,
     PreserveState, StartInstance, AddServer, Enable, CheckStop, Wait, Send,
     TimeOut, Deliver, Dispatch, Save, Abandon, FinalCheck, Reply

(* push and close hold the mutex, and wake a thread that waits.                  *)
LEMMA WakeUpStep == TypeInv /\ RunningIsLast /\ Targets /\ NoLostWakeUp /\ [Next]_vars => NoLostWakeUp'
<1> SUFFICES ASSUME TypeInv, RunningIsLast, Targets, NoLostWakeUp, [Next]_vars PROVE NoLostWakeUp'
  OBVIOUS
<1> USE NobodyAssumption, StartsAssumption DEF Instance, Phase, Running, Served
<1>1. CASE CloseChannel
  BY <1>1
  DEF CloseChannel, Advance, Unlocked, Notify, NoLostWakeUp, RunningIsLast, TypeInv,
      Targets, applierVars
<1>2. CASE StartInstance
  BY <1>2
  DEF StartInstance, Advance, CopyPersister, NoLostWakeUp, RunningIsLast, TypeInv,
      Targets, applierVars
<1>3. ASSUME NEW k \in Instance, CheckStop(k) PROVE NoLostWakeUp'
  BY <1>3 DEF CheckStop, NoLostWakeUp, RunningIsLast, TypeInv, Targets, applierVars
<1>4. ASSUME NEW k \in Instance, Pop(k) PROVE NoLostWakeUp'
  BY <1>4 DEF Pop, NoLostWakeUp, RunningIsLast, TypeInv, Targets, applierVars
<1>5. ASSUME NEW k \in Instance, Wait(k) PROVE NoLostWakeUp'
  BY <1>5 DEF Wait, NoLostWakeUp, RunningIsLast, TypeInv, Targets, applierVars
<1>6. ASSUME NEW c \in Call, Finish(c) PROVE NoLostWakeUp'
  BY <1>6
  DEF Finish, Push, Unlocked, Notify, NoLostWakeUp, RunningIsLast, TypeInv, Targets,
      applierVars
<1>7. CASE UNCHANGED <<channel, applier>>
  BY <1>7 DEF NoLostWakeUp, RunningIsLast, TypeInv, Targets, applierVars
<1> QED
  BY <1>1, <1>2, <1>3, <1>4, <1>5, <1>6, <1>7
  DEF Next, CrashServer, Applier, Handler, vars, testerVars, diskVars, applierVars, callVars,
     StopApplier, JoinApplier, Disconnect, DeleteServer, CopyState, Kill,
     PreserveState, AddServer, Enable, Send, TimeOut, Deliver, Dispatch,
     Save, Abandon, FinalCheck, Reply

(* Only the applier of the instance that runs executes commands.                 *)
LEMMA CommandsStep == TypeInv /\ AppliersJoined /\ OwnChannel /\ OnlyOwnCommands /\ [Next]_vars => OnlyOwnCommands'
<1> SUFFICES ASSUME TypeInv, AppliersJoined, OwnChannel, OnlyOwnCommands, [Next]_vars PROVE OnlyOwnCommands'
  OBVIOUS
<1> USE NobodyAssumption, StartsAssumption DEF Instance, Phase, Running, Served
<1>1. CASE Kill
  BY <1>1 DEF Kill, Advance, OnlyOwnCommands, AppliersJoined, OwnChannel, TypeInv
<1>2. CASE StartInstance
  BY <1>2
  DEF StartInstance, Advance, CopyPersister, OnlyOwnCommands, AppliersJoined,
      OwnChannel, TypeInv
<1>3. ASSUME NEW k \in Instance, Pop(k) PROVE OnlyOwnCommands'
  <2>1. CASE channel[k].queue # <<>> /\ machine' = Append(machine, Head(channel[k].queue))
    <3>1. channel[k].queue \in Seq(Command) /\ machine \in Seq(Command)
      BY DEF TypeInv
    <3>2. Head(channel[k].queue).from = k
      BY <2>1, <3>1 DEF OwnChannel
    <3>3. raft = k /\ raft' = k
      BY <1>3 DEF Pop, AppliersJoined, testerVars
    <3>4. \A i \in DOMAIN machine : machine[i].from = k
      BY <3>3 DEF OnlyOwnCommands, TypeInv
    <3>5. Head(channel[k].queue) \in Command
      BY <2>1, <3>1
    <3>6. \A i \in DOMAIN machine' : machine'[i].from = k
      BY <2>1, <3>1, <3>2, <3>4, <3>5
    <3> QED  BY <3>3, <3>6 DEF OnlyOwnCommands
  <2>2. CASE UNCHANGED machine
    BY <1>3, <2>2 DEF Pop, OnlyOwnCommands, testerVars
  <2> QED  BY <1>3, <2>1, <2>2 DEF Pop
<1>4. CASE UNCHANGED <<raft, machine>>
  BY <1>4 DEF OnlyOwnCommands, AppliersJoined, OwnChannel, TypeInv
<1> QED
  BY <1>1, <1>2, <1>3, <1>4
  DEF Next, CrashServer, Applier, Handler, vars, testerVars, diskVars, applierVars, callVars,
     StopApplier, CloseChannel, JoinApplier, Disconnect, DeleteServer,
     CopyState, PreserveState, AddServer, Enable, CheckStop, Wait, Send,
     TimeOut, Deliver, Dispatch, Save, Finish, Abandon, FinalCheck, Reply

(* Only a save of the instance that runs changes what is restarted from.         *)
LEMMA SavesStep == TypeInv /\ RunningIsLast /\ OwnObjects /\ Targets /\ [Next]_vars => (object'[persister'] # object[persister] =>
       \E c \in Call : target[c] = raft /\ handler[c] = "running" /\ handler'[c] = "saved")
<1> SUFFICES ASSUME TypeInv, RunningIsLast, OwnObjects, Targets, [Next]_vars PROVE (object'[persister'] # object[persister] =>
       \E c \in Call : target[c] = raft /\ handler[c] = "running" /\ handler'[c] = "saved")
  OBVIOUS
<1> USE NobodyAssumption, StartsAssumption DEF Instance, Phase, Running, Served
<1>1. CASE CopyState
  <2>1. CopyPersister(object[persister])
    BY <1>1 DEF CopyState
  <2> QED  BY <2>1, CopyFacts
<1>2. CASE PreserveState
  <2>1. CopyPersister(object[persister])
    BY <1>2 DEF PreserveState
  <2> QED  BY <2>1, CopyFacts
<1>3. CASE StartInstance
  <2>1. CopyPersister(object[persister])
    BY <1>3 DEF StartInstance
  <2> QED  BY <2>1, CopyFacts
<1>4. ASSUME NEW c \in Call, Save(c) PROVE (object'[persister'] # object[persister] =>
       \E d \in Call : target[d] = raft /\ handler[d] = "running" /\ handler'[d] = "saved")
  <2> SUFFICES ASSUME object'[persister'] # object[persister]
               PROVE  target[c] = raft /\ handler[c] = "running" /\ handler'[c] = "saved"
    OBVIOUS
  <2>1. own[target[c]] = persister
    BY <1>4, SaveFacts DEF Save, TypeInv
  <2>2. tester \in Running /\ target[c] = starts
    BY <1>4, <2>1, SaveFacts DEF OwnObjects
  <2>3. target[c] = raft
    BY <2>2 DEF RunningIsLast
  <2> QED  BY <1>4, <2>3 DEF Save, TypeInv
<1>5. CASE UNCHANGED <<object, persister>>
  BY <1>5
<1> QED
  BY <1>1, <1>2, <1>3, <1>4, <1>5
  DEF Next, CrashServer, Applier, Handler, vars, testerVars, diskVars, applierVars, callVars,
     StopApplier, CloseChannel, JoinApplier, Disconnect, DeleteServer, Kill,
     AddServer, Enable, CheckStop, Pop, Wait, Send, TimeOut, Deliver,
     Dispatch, Finish, Abandon, FinalCheck, Reply

----------------------------------------------------------------------------------

(* The types and the facts above hold of every behaviour.                        *)
THEOREM AlwaysIInv == Spec => []IInv
<1>1. Init => IInv
  <2> SUFFICES ASSUME Init PROVE IInv
    OBVIOUS
  <2>1. TypeInv
    <3>1. <<{}>> \in Seq(SUBSET Call) /\ Len(<<{}>>) = 1
      OBVIOUS
    <3>2. starts \in 0..MaxStarts
      BY StartsAssumption DEF Init
    <3>3. channel \in [Instance -> [queue : Seq(Command), closed : BOOLEAN]]
      BY DEF Init
    <3>4. machine \in Seq(Command)
      BY DEF Init
    <3>5. object \in Seq(SUBSET Call) /\ persister = Len(object) /\ persister # 0
      BY <3>1 DEF Init
    <3>6. own \in [Instance -> Nat]
      BY DEF Init
    <3>7. /\ tester \in Phase
          /\ raft = Nobody /\ registered = Nobody
          /\ enabled \in BOOLEAN /\ stopped \in BOOLEAN
      BY DEF Init, Phase
    <3>8. /\ applier = [k \in Instance |-> "none"]
          /\ caller = [c \in Call |-> "idle"]
          /\ delivery = [c \in Call |-> "none"]
          /\ target = [c \in Call |-> Nobody]
          /\ handler = [c \in Call |-> "none"]
      BY DEF Init
    <3> QED  BY <3>2, <3>3, <3>4, <3>5, <3>6, <3>7, <3>8 DEF TypeInv
  <2>2. RunningIsLast /\ OwnObjects
    BY NobodyAssumption DEF Init, RunningIsLast, OwnObjects, Running, Served, Instance
  <2>3. Targets /\ Saved
    BY DEF Init, Targets, Saved
  <2>4. AppliersJoined /\ OwnChannel /\ NoLostWakeUp /\ OnlyOwnCommands
    BY DEF Init, AppliersJoined, OwnChannel, NoLostWakeUp, OnlyOwnCommands
  <2> QED  BY <2>1, <2>2, <2>3, <2>4 DEF IInv
<1>2. IInv /\ [Next]_vars => IInv'
  BY TypeStep, RunningStep, OwnStep, TargetsStep, SavedStep, AppliersStep, ChannelStep,
     WakeUpStep, CommandsStep
  DEF IInv
<1> QED
  BY <1>1, <1>2, PTL DEF Spec

(* What a server answered survives any crash after it (labrpc.cpp:154).          *)
THEOREM AlwaysAckedIsSaved == Spec => []AckedIsSaved
<1>1. IInv => AckedIsSaved
  BY DEF IInv, Saved, AckedIsSaved
<1> QED
  BY <1>1, AlwaysIInv, PTL

(* A state machine executes commands of its own instance only (config.cpp:217).  *)
THEOREM AlwaysOnlyOwnCommands == Spec => []OnlyOwnCommands
<1>1. IInv => OnlyOwnCommands
  BY DEF IInv
<1> QED
  BY <1>1, AlwaysIInv, PTL

(* Crashed instances do not change what the server is restarted from             *)
(* (config.cpp:115).                                                             *)
THEOREM AlwaysOnlyOwnSaves == Spec => OnlyOwnSaves
<1>1. IInv /\ [Next]_vars =>
        [object'[persister'] # object[persister] =>
           \E c \in Call : /\ target[c] = raft
                           /\ handler[c] = "running" /\ handler'[c] = "saved"]_vars
  BY SavesStep DEF IInv
<1> QED
  BY <1>1, AlwaysIInv, PTL DEF Spec, OnlyOwnSaves

(* The reason that the applier answers: a thread that waits for m_cv has nothing *)
(* to pop, and its channel is open (config.hpp:44).                              *)
THEOREM AlwaysNoLostWakeUp == Spec => []NoLostWakeUp
<1>1. IInv => NoLostWakeUp
  BY DEF IInv
<1> QED
  BY <1>1, AlwaysIInv, PTL

==================================================================================
