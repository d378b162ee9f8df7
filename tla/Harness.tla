------------------------------- MODULE Harness -------------------------------
(* One server as the harness of Lab3_Raft/src/config.cpp runs it: the thread  *)
(* of a test that crashes and restarts it, the simulated network of           *)
(* rpc/labrpc.cpp that brings calls to it, the persister objects its          *)
(* instances write to, the apply channel and the applier thread of config.hpp *)
(* and applierSnap.                                                           *)
(*                                                                            *)
(* Raft.tla takes a crash as one step.  Here it is the eight steps of         *)
(* crashServer, and an instance that was crashed lives on in the handlers     *)
(* that still run.  Of Raft only this is left: a handler saves what it was    *)
(* asked, pushes it to the apply channel and returns.                         *)
EXTENDS Integers, Sequences

CONSTANTS
    Call,           \* calls of other servers to this one, each made once
    Nobody,         \* no instance (a null pointer)
    MaxStarts       \* bound: calls of startServer

ASSUME NobodyAssumption == Nobody \notin Nat
ASSUME StartsAssumption == MaxStarts \in Nat \ {0}

Instance == 1..MaxStarts

VARIABLES
    tester,         \* how far crashServer or startServer has come
    starts,         \* instances started so far; they are numbered
    raft,           \* m_rafts[i]
    registered,     \* m_servers[i]: the instance that calls are dispatched to
    enabled,        \* m_enabledMap of the endpoint the calls come through
    object,         \* contents of every Persister object made so far
    persister,      \* m_persisters[i], a pointer to one of them
    own,            \* the Persister object an instance was given
    stopped,        \* m_applierStopped[i]
    channel,        \* the apply channel of an instance: queue and m_closed
    applier,        \* where the applier thread of an instance is
    machine,        \* m_logs[i]: the commands executed, and who pushed them
    caller,         \* Endpoint::call, per call
    delivery,       \* Network::deliver, per call
    target,         \* the instance deliver found
    handler         \* the thread that runs the handler, per call

testerVars  == <<tester, starts, raft, registered, enabled>>
diskVars    == <<object, persister, own>>
applierVars == <<stopped, channel, applier, machine>>
callVars    == <<caller, delivery, target, handler>>
vars == <<testerVars, diskVars, applierVars, callVars>>

Init ==
    /\ tester = "down"
    /\ starts = 0
    /\ raft = Nobody
    /\ registered = Nobody
    /\ enabled = FALSE
    /\ object = <<{}>>
    /\ persister = 1
    /\ own = [k \in Instance |-> 0]
    /\ stopped = FALSE
    /\ channel = [k \in Instance |-> [queue |-> <<>>, closed |-> FALSE]]
    /\ applier = [k \in Instance |-> "none"]
    /\ machine = <<>>
    /\ caller = [c \in Call |-> "idle"]
    /\ delivery = [c \in Call |-> "none"]
    /\ target = [c \in Call |-> Nobody]
    /\ handler = [c \in Call |-> "none"]

------------------------------------------------------------------------------
(* The apply channel.  Between the predicate of m_cv.wait and the wait itself  *)
(* pop holds the mutex; the wait releases it.                                  *)

Unlocked(k) == applier[k] # "about_to_wait"

(* Mutated form of Notify: nobody is told.                                     *)
NotifyNobody(k) == UNCHANGED applier

(* m_cv.notify_one and notify_all: at most one thread waits.                   *)
Notify(k) ==
    applier' = [applier EXCEPT ![k] = IF @ = "waiting" THEN "popping" ELSE @]

Push(k, c) ==
    /\ Unlocked(k)
    /\ channel' = [channel EXCEPT ![k].queue = Append(@, [from |-> k, call |-> c])]
    /\ Notify(k)

(* The loops of applierSnap and of the thread around it: both end when         *)
(* m_applierStopped is set, the inner one also when the instance is gone.      *)
CheckStop(k) ==
    /\ applier[k] = "checking"
    /\ \/ stopped /\ applier' = [applier EXCEPT ![k] = "ended"]
       \/ ~stopped /\ raft # Nobody /\ applier' = [applier EXCEPT ![k] = "popping"]
    /\ UNCHANGED <<testerVars, diskVars, stopped, channel, machine, callVars>>

Pop(k) ==
    /\ applier[k] = "popping"
    /\ \/ /\ channel[k].queue # <<>>
          /\ channel' = [channel EXCEPT ![k].queue = Tail(@)]
          /\ machine' = Append(machine, Head(channel[k].queue))
          /\ applier' = [applier EXCEPT ![k] = "checking"]
       \/ /\ channel[k].queue = <<>>
          /\ applier' = [applier EXCEPT ![k] = IF channel[k].closed THEN "checking"
                                               ELSE "about_to_wait"]
          /\ UNCHANGED <<channel, machine>>
    /\ UNCHANGED <<testerVars, diskVars, stopped, callVars>>

Wait(k) ==
    /\ applier[k] = "about_to_wait"
    /\ applier' = [applier EXCEPT ![k] = "waiting"]
    /\ UNCHANGED <<testerVars, diskVars, stopped, channel, machine, callVars>>

------------------------------------------------------------------------------
(* Calls.                                                                      *)

Send(c) ==
    /\ caller[c] = "idle"
    /\ caller' = [caller EXCEPT ![c] = "waiting"]
    /\ delivery' = [delivery EXCEPT ![c] = "queued"]
    /\ UNCHANGED <<testerVars, diskVars, applierVars, target, handler>>

(* The promise is set: the caller takes the outcome if it still waits.         *)
Resolve(c, outcome) ==
    caller' = [caller EXCEPT ![c] = IF @ = "waiting" THEN outcome ELSE @]

(* 100 ms are over.                                                            *)
TimeOut(c) ==
    /\ caller[c] = "waiting"
    /\ Resolve(c, "failed")
    /\ UNCHANGED <<testerVars, diskVars, applierVars, delivery, target, handler>>

(* deliver up to the dispatch in a thread of its own.  An unreliable network   *)
(* drops requests.                                                             *)
Deliver(c) ==
    /\ delivery[c] = "queued"
    /\ \/ /\ enabled /\ registered # Nobody
          /\ delivery' = [delivery EXCEPT ![c] = "polling"]
          /\ target' = [target EXCEPT ![c] = registered]
          /\ handler' = [handler EXCEPT ![c] = "started"]
          /\ UNCHANGED caller
       \/ /\ delivery' = [delivery EXCEPT ![c] = "ended"]
          /\ Resolve(c, "failed")
          /\ UNCHANGED <<target, handler>>
    /\ UNCHANGED <<testerVars, diskVars, applierVars>>

(* Server::dispatch holds the mutex of the server for the whole handler.       *)
Dispatch(c) ==
    /\ handler[c] = "started"
    /\ \A d \in Call : target[d] = target[c] => handler[d] \notin {"running", "saved"}
    /\ handler' = [handler EXCEPT ![c] = "running"]
    /\ UNCHANGED <<testerVars, diskVars, applierVars, caller, delivery, target>>

Save(c) ==
    /\ handler[c] = "running"
    /\ handler' = [handler EXCEPT ![c] = "saved"]
    /\ object' = [object EXCEPT ![own[target[c]]] = @ \cup {c}]
    /\ UNCHANGED <<testerVars, persister, own, applierVars, caller, delivery, target>>

Finish(c) ==
    /\ handler[c] = "saved"
    /\ handler' = [handler EXCEPT ![c] = "ended"]
    /\ Push(target[c], c)
    /\ UNCHANGED <<testerVars, diskVars, stopped, machine, caller, delivery, target>>

(* Mutated form of IsServerDead: the name is still served, by whomever.        *)
IsNameDead(c) == ~enabled \/ registered = Nobody

(* isServerDead, under m_mu.                                                   *)
IsServerDead(c) == ~enabled \/ registered # target[c]

(* The poll finds the server dead before the handler ended, and the promise    *)
(* goes with the thread.  The 100 ms of the caller began before those of the   *)
(* poll and are over.                                                          *)
Abandon(c) ==
    /\ delivery[c] = "polling"
    /\ handler[c] # "ended"
    /\ IsServerDead(c)
    /\ caller[c] # "waiting"
    /\ delivery' = [delivery EXCEPT ![c] = "ended"]
    /\ UNCHANGED <<testerVars, diskVars, applierVars, caller, target, handler>>

(* The handler ended: the final check, then the reply, at once or after a      *)
(* while, or lost.                                                             *)
FinalCheck(c) ==
    /\ delivery[c] = "polling"
    /\ handler[c] = "ended"
    /\ \/ /\ ~IsServerDead(c)
          /\ delivery' = [delivery EXCEPT ![c] = "alive"]
          /\ UNCHANGED caller
       \/ /\ delivery' = [delivery EXCEPT ![c] = "ended"]
          /\ Resolve(c, "failed")
    /\ UNCHANGED <<testerVars, diskVars, applierVars, target, handler>>

Reply(c) ==
    /\ delivery[c] = "alive"
    /\ delivery' = [delivery EXCEPT ![c] = "ended"]
    /\ Resolve(c, "ok")
    /\ UNCHANGED <<testerVars, diskVars, applierVars, target, handler>>

------------------------------------------------------------------------------
(* crashServer, startServer, connectServer and disconnectServer.               *)

Advance(from, to) == tester = from /\ tester' = to

(* Mutated form of CopyPersister: both pointers name one object.               *)
SharePersister(contents) == UNCHANGED <<object, persister>>

(* std::make_shared<Persister> of the contents of another one.                 *)
CopyPersister(contents) ==
    /\ object' = Append(object, contents)
    /\ persister' = Len(object) + 1

StopApplier ==
    /\ Advance("up", "stopping")
    /\ stopped' = TRUE
    /\ UNCHANGED <<starts, raft, registered, enabled, diskVars, channel, applier, machine, callVars>>

(* Mutated form of CloseChannel: m_closed is set without the mutex.            *)
CloseUnlocked ==
    /\ Advance("stopping", "joining")
    /\ channel' = [channel EXCEPT ![raft].closed = TRUE]
    /\ Notify(raft)
    /\ UNCHANGED <<starts, raft, registered, enabled, diskVars, stopped, machine, callVars>>

CloseChannel ==
    /\ Advance("stopping", "joining")
    /\ Unlocked(raft)
    /\ channel' = [channel EXCEPT ![raft].closed = TRUE]
    /\ Notify(raft)
    /\ UNCHANGED <<starts, raft, registered, enabled, diskVars, stopped, machine, callVars>>

(* Mutated form of JoinApplier: the thread is detached.                        *)
DetachApplier ==
    /\ Advance("joining", "joined")
    /\ UNCHANGED <<starts, raft, registered, enabled, diskVars, applierVars, callVars>>

JoinApplier ==
    /\ Advance("joining", "joined")
    /\ applier[raft] = "ended"
    /\ UNCHANGED <<starts, raft, registered, enabled, diskVars, applierVars, callVars>>

Disconnect ==
    /\ Advance("joined", "disconnected")
    /\ enabled' = FALSE
    /\ UNCHANGED <<starts, raft, registered, diskVars, applierVars, callVars>>

DeleteServer ==
    /\ Advance("disconnected", "deleted")
    /\ registered' = Nobody
    /\ UNCHANGED <<starts, raft, enabled, diskVars, applierVars, callVars>>

CopyState ==
    /\ Advance("deleted", "copied")
    /\ CopyPersister(object[persister])
    /\ UNCHANGED <<starts, raft, registered, enabled, own, applierVars, callVars>>

Kill ==
    /\ Advance("copied", "killed")
    /\ raft' = Nobody
    /\ UNCHANGED <<starts, registered, enabled, diskVars, applierVars, callVars>>

PreserveState ==
    /\ Advance("killed", "down")
    /\ CopyPersister(object[persister])
    /\ UNCHANGED <<starts, raft, registered, enabled, own, applierVars, callVars>>

(* startServer first calls crashServer, which changes nothing of a server that *)
(* is down already; its copies are left out.  Nothing else runs on the new     *)
(* instance before it is added to the network, so the rest is one step.        *)
StartInstance ==
    /\ Advance("down", "started")
    /\ starts < MaxStarts
    /\ starts' = starts + 1
    /\ CopyPersister(object[persister])
    /\ own' = [own EXCEPT ![starts + 1] = persister']
    /\ raft' = starts + 1
    /\ stopped' = FALSE
    /\ applier' = [applier EXCEPT ![starts + 1] = "checking"]
    /\ machine' = <<>>
    /\ UNCHANGED <<registered, enabled, channel, callVars>>

AddServer ==
    /\ Advance("started", "up")
    /\ registered' = starts
    /\ UNCHANGED <<starts, raft, enabled, diskVars, applierVars, callVars>>

(* connectServer and disconnectServer of a server that runs.                   *)
Enable ==
    /\ tester = "up"
    /\ enabled' = ~enabled
    /\ UNCHANGED <<tester, starts, raft, registered, diskVars, applierVars, callVars>>

CrashServer ==
    \/ CloseChannel \/ JoinApplier \/ Disconnect \/ DeleteServer
    \/ CopyState \/ Kill \/ PreserveState

Applier(k) == CheckStop(k) \/ Pop(k) \/ Wait(k)

Handler(c) == Dispatch(c) \/ Save(c) \/ Finish(c)

Next ==
    \/ StopApplier \/ CrashServer \/ StartInstance \/ AddServer \/ Enable
    \/ \E k \in Instance : Applier(k)
    \/ \E c \in Call :
         \/ Send(c) \/ TimeOut(c) \/ Deliver(c) \/ Handler(c)
         \/ Abandon(c) \/ FinalCheck(c) \/ Reply(c)

(* Every thread that can go on does.  Tests crash, start, connect and call     *)
(* when they like.                                                             *)
Fairness ==
    /\ WF_vars(CrashServer)
    /\ \A k \in Instance : WF_vars(Applier(k))
    /\ \A c \in Call : WF_vars(Handler(c))

Spec == Init /\ [][Next]_vars /\ Fairness

==============================================================================
