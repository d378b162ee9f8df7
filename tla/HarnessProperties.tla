--------------------------- MODULE HarnessProperties ---------------------------
(* What Raft.tla takes for granted of a crash and of an apply channel.          *)
EXTENDS Harness

(* What a server answered is in the persister the next instance starts from:    *)
(* deliver's final check comes after the handler, crashServer's copy after      *)
(* deleteServer (labrpc.cpp:154, config.cpp:225).  It is why Raft.tla may crash *)
(* a server and drop its pending replies in one step.                           *)
AckedIsSaved == \A c \in Call : caller[c] = "ok" => c \in object[persister]

(* "Make a fresh copy so old instance doesn't overwrite new instance's state"   *)
(* (config.cpp:115): what the server is restarted from changes only when a      *)
(* handler of the instance that runs saves it, whatever handlers of crashed     *)
(* instances still do.                                                          *)
OnlyOwnSaves ==
    [][object'[persister'] # object[persister] =>
         \E c \in Call : /\ target[c] = raft
                         /\ handler[c] = "running" /\ handler'[c] = "saved"]_vars

(* A state machine executes commands of its own instance only: no applier       *)
(* thread outlives the channel it reads (config.cpp:217).                       *)
OnlyOwnCommands ==
    raft # Nobody => \A i \in DOMAIN machine : machine[i].from = raft

(* What is pushed is executed, unless the server is being crashed; and a crash  *)
(* does not wait for ever for the applier: no wake-up of m_cv is lost           *)
(* (config.hpp:44).                                                             *)
ApplierAnswers ==
    /\ \A k \in Instance :
          (raft = k /\ channel[k].queue # <<>>) ~> (channel[k].queue = <<>> \/ stopped)
    /\ (tester = "joining") ~> (tester = "joined")

================================================================================
