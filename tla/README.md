# The distributed-systems labs in TLA+

The repository is a set of C++ labs: a MapReduce (`Lab1_MapReduce`), a Raft
library with its simulated network and test harness (`Lab3_Raft`), and a
key/value service replicated with it (`Lab4_KvRaft`). All three are modelled,
checked with TLC and, in large part, proved about with TLAPS.

    MapReduce ==> MapReduceJob            RefinesJob    (checked and proved)
    Raft      ==> ReplicatedLog           ImplementsLog (checked and proved)
                  ReplicatedLog + KV ==> KVService      Linearizable (checked and proved)
    Harness justifies what Raft takes for granted of a crash (checked and proved)

## 1. The system

| component | state | operations | interacts by | status |
|---|---|---|---|---|
| Raft instance (`raft.cpp`, `raft.hpp`) | term, vote, role, log with a dummy entry, snapshot index and term, `m_commitIndex`, `m_lastApplied`, `m_nextindex`, `m_matchIndex`, timers | `startRaft` (the timer thread), `startElection`, `broadcastAppendEntries` and their callbacks, `requestVote`, `appendEntries`, `installSnapshot`, `start`, `snapshot` | RPCs to its peers, callbacks on a thread pool, the apply channel, the persister | modelled |
| Persister (`persister.cpp`) | raft state and snapshot, as bytes | two saves, two reads, copy | called under `m_mu`; copied by the harness | modelled |
| ApplyChannel (`config.hpp`) | a queue, `m_closed` | push, pop, close | between raft and the applier thread | modelled |
| Raft harness (`config.cpp`) | per server: instance, persister, executed commands, applier thread; connections | `startServer`, `crashServer`, `connectServer`, `disconnectServer`, `applierSnap`, `ingestSnap`, the checks `checkOneLeader`, `nCommitted`, `one` | apply channel, `Raft::snapshot`, `Raft::start`, the network | partly |
| labrpc (`rpc/`) | request queue, endpoints, servers | `call`, `send`, `deliver`, `dispatch` | a thread per request; one handler at a time per server | partly |
| KV server (`kvserver.cpp`) | the store, a sequence number per client, promises by log index | `get`, `putAppend`, `applierLoop`, `kill` | RPCs, `Raft::start`, the apply channel | modelled |
| KV clerk (`clerk.hpp`) | leader hint, sequence number | `Get`, `Put`, `Append` | one request at a time, to one server after the other | modelled |
| KV harness (`Lab4_KvRaft/src/config.cpp`) | servers, clerks, connections | start, shut down, partition, and a linearizability check | the network | partly |
| MapReduce master (`master.cpp`, `server.cpp`) | task states with deadlines, two counters, two threads | `getTaskForWorker`, the two reports, the two counts, the two refreshes; the reset and the monitor thread | gRPC | modelled |
| MapReduce worker (`worker.cpp`) | the task it runs; intermediate and output files | the loop, `doMapTask`, `doReduceTask` | gRPC, files shared by name | modelled |
| ThreadPool (`threadpool.hpp`) | task queue, 2N workers | enqueue, shutdown | runs every outgoing call | not modelled |
| RPC codecs, logger, buttonrpc, gRPC example | none of their own | | | not modelled |

What is hard in it:

* **Concurrency.** Timer thread, RPC handlers, callbacks and the applier share
  `m_mu`, but `appendEntries` lets go of it three times and the callback of
  `AppendEntries` once. The master's two threads read its counters without its
  lock. Handlers of a crashed instance still run while the next one starts.
* **Messages.** The network loses, delays and reorders; callers give up after
  100 ms (clerks after 150 ms, while their handler waits 500 ms); a callback may
  run long after the call was made.
* **Crashes.** The harness copies the persister at any moment, throws the
  instance away and starts another from the copy. A worker dies with its files
  half written.
* **Compaction.** The log is indexed relative to the snapshot with unsigned
  arithmetic, and a snapshot arrives by three ways: the local state machine, a
  leader, the disk.
* **Retries.** A request that was given up may still be carried out, and a task
  that was given up may still be reported.

What makes the components correct: one leader per term; votes and terms that
survive a restart; logs that match; committed entries that stay, on a majority
and in every later leader's log; state machines that execute the same commands
in order, each once; operations of the KV service that take effect exactly once,
in an order its clients can agree on; a reduce phase that starts only after the
last map task, and a job that ends with every output complete.

## 2. Modules

| module | what |
|---|---|
| `Raft` | a group of instances: one action per critical section |
| `RaftProperties` | type invariant, safety invariants, action properties |
| `MCRaft` | small instances: symmetry, view, bound, start states |
| `RaftTypeProofs`, `RaftElectionProofs`, `RaftStorageProofs` | types and indexes; election safety, permanence of votes and terms; storage, execution and restarts: proofs |
| `RaftLogInvariant`, `RaftLogProofs` | the inductive invariant of the logs; log matching, commitment, execution and the refinement to `ReplicatedLog`: proofs |
| `ReplicatedLog` | abstract: what Raft promises to the state machines above it |
| `RaftLog`, `MCRaftLog` | Raft with a record of what `start` returned and what was executed first; the refinement to `ReplicatedLog` |
| `RaftLiveness`, `MCRaftLiveness` | fairness of one leader, and what it must bring about |
| `KVService` | abstract: a linearizable store |
| `KV` | servers and clerks on `ReplicatedLog` |
| `KVProperties`, `MCKV` | invariants and the refinement to `KVService`; small instances |
| `KVProofs`, `NaturalMinimum` | the proof that it is one, for all constants; least elements and induction over an interval, without operator parameters |
| `MapReduceJob` | abstract: every input mapped once, then every output made once |
| `MapReduce` | master, service, its threads, workers, files |
| `MapReduceProperties`, `MCMapReduce`, `MapReduceProofs` | invariants, refinement, liveness; instances; proofs |
| `Harness` | one server under the test harness: crash and start step by step, network, persister objects, apply channel |
| `HarnessProperties`, `MCHarness`, `HarnessProofs` | what `Raft` takes for granted of it; instances; proofs |

The operators marked "mutant" (or "mutated form") are not used by any next-state
relation. Each is a definition of the code with one plausible mistake in it, and
`PROJECT.json` names the property that must be violated when it takes the
place of the right one.

### Raft

`m_logs` is `log` without its dummy entry, whose term is `lastIncludedTerm`;
absolute index `i` is position `i - lastIncludedIndex`. `applied[s]` is the
state machine behind the apply channel: the commands it has executed. `disk[s]`
is the persister. `handler[s]` is an `appendEntries` call between its critical
sections. `voters[s]` is a history variable: whose votes `votesGranted[s]`
counts.

`messages` is a set of requests and replies. Nothing obliges the system to
handle a member, so loss, disconnection, delay and reordering need no actions.
`AppendEntries` and `InstallSnapshot` messages stay after they are handled: the
leader sends them again with every broadcast, so each stands for any number of
copies. A vote request is sent once per peer and election and is removed. `live`
says that the caller still waits: `Endpoint::call` gives up after 100 ms, and a
crashed instance waits for nothing (`Abandon`).

| action | code |
|---|---|
| `StartElection` | `helperPromoteToCandidate`, `startElection` (raft.cpp:83-100, 160-195) |
| `HandleRequestVote`, `HandleVoteReply` | `requestVote` (575-614), its callback (197-223) |
| `BecomeLeader` | `startRaft`, candidate branch (101-121) |
| `Start` | `start` (747-769) |
| `BroadcastAppendEntries` | `broadcastAppendEntries` (228-314), with `AppendArgs` and `InstallArgs` |
| `AppendEntries`, `ResumeAppendEntries` | `appendEntries` (422-568): the first two, the last two critical sections |
| `HandleAppendReply` | its callback (314-413) with `helperUpdateLeaderCommitIndex` (801-838) and the apply loop |
| `TakeSnapshot` | `applierSnap`'s trigger (config.cpp:445-466) and `snapshot` (691-744) |
| `HandleInstallSnapshot`, `HandleInstallReply` | `installSnapshot` (618-687), its callback (995-1021) |
| `Crash`, `CrashInInstallSnapshot` | `crashServer` and `startServer` (config.cpp:85-249), `helperReadPersist` (899-970); the second with the copy taken between the two saves of `installSnapshot` |

Adjacent critical sections are merged where no other thread can tell: the
comment of the action argues it. Left out of a merged step is one thing that
can happen, and it is named there: a leader that is deposed *and re-elected*
between two adjacent locks of one callback (raft.cpp:338-347).

Three interleavings depend on timing that the code makes unlikely but does not
exclude. They are members of the constant `Races`, so that a run says which it
includes and a theorem which it excludes:

* `late_reply`: the callback of a call of one election runs in the next. Calls
  give up after 100 ms and elections are at least 700 ms apart, but callbacks
  queue in the pool. Without it, the election timer abandons outstanding calls.
* `timer`: the election timer fires while `appendEntries` is between its second
  and third critical section.
* `snapshot`: `snapshot()` runs there.

With all absent `appendEntries` is one step: nothing else can happen at its server
but a crash, which is then taken to come before or after the call. (`log_repair` names
the race `timer` to have it in two steps, with crashes in between. The timer itself
cannot fire there, as `MaxTerm` is the term of the leader in office.) What each
race can break, a variant shows (section 4).

### Raft as a replicated log

`RaftLog` adds to each step of `Raft` two history variables: `proposed`, the
index each accepted command was promised, and `chosen`, the longest sequence any
state machine has executed. With these `Raft` is `ReplicatedLog`: one
sequence of commands, of which each server has executed a prefix; every command
at the index `start` returned for it or nowhere, whatever leaders, terms,
snapshots and restarts there are in between. That is what `KV` builds on:
it EXTENDS `ReplicatedLog` and makes its steps `Propose`, `Execute` and `Restart`
steps of it. What `KV` asks in addition (a server whose handler waits executes
nothing but that handler's entry at its index) is argued at its head, from the
mutex of `Server::dispatch`.

### The key/value service

`Server::dispatch` holds its mutex until a handler returns, and a KV handler
returns after its command is executed or 500 ms. So `handler[s]` is the one
`get` or `putAppend` a server is in, and `m_waitMap` has at most the promise of
that handler. `op[c]` is the operation clerk `c` is in, as the arguments it
sends, `peer[c]` the server it asks (`m_leaderHint` between operations), `try[c]`
where that request is, `strays` the requests nobody waits for any more: sent
any number of times to any server, each may be handled at any time, or never.

| action | code (`Lab4_KvRaft/src`) |
|---|---|
| `Call` | `Get`, `PutAppend` up to the first request |
| `TryNext` | the loops' other branches: timeout, `ErrWrongLeader`, lost request |
| `Handle` | `get`, `putAppend` up to the wait, with `Raft::start` and the duplicate test after it |
| `Apply` | a turn of `applierLoop`: the channel, the state machine, the promise |
| `Reply` | the wait ends with the promise fulfilled: the wrong-command test, the reply, the end of the clerk's loop |
| `TimeOut` | the wait ends after 500 ms |
| `Crash` | `shutdownServer`, `startServer`: all but Raft's log is lost |

### MapReduce

Every method of the master holds `m_Mutex` from start to end and a worker waits
for the answer, so a call is one step. The two threads of `server.cpp` read
`m_mapRemaining` and `m_reduceRemaining` without the lock, one after the other:
two steps. Every access of a worker to a file is a step. A file is who truncated
it last and the set of inputs whose data is in it; if two workers write one file
at a time, what is left is one of the texts or neither (`Written`).

| action | code (`Lab1_MapReduce/src`) |
|---|---|
| `GetTask` | `getTaskForWorker` with both selects; the worker's loop |
| `GetCounts` | `getReduceCount`, `getMapCount` |
| `OpenMapFiles`, `WriteMapFiles` | `doMapTask`, `writeMapOutput` |
| `ReadFile`, `CreateOutput`, `EmitOutput` | `doReduceTask` |
| `Report` | `reportMapComplete`, `reportReduceComplete` |
| `DeadlinePasses` | `TASK_TIME_OUT_SEC` |
| `ResetReads`, `ResetRefreshes` | the reset thread, `refreshMapTaskState`, `refreshReduceTaskState` |
| `MonitorReads`, `MonitorShutsDown` | the monitor thread |
| `Crash` | a worker dies and `test-mr.sh` starts another |

`SlowWorkers` says whether a worker that lives may take longer than the 10 s of
its deadline.

### The harness

`Raft` crashes a server in one step. In `Harness` the same is the eight steps of
`crashServer` and those of `startServer`, interleaved with the network's threads
(`call`, `deliver` with its poll, `dispatch`, the handler) and the applier
thread. An instance that was crashed lives on in the handlers that still run,
and writes to the persister object it was given. Of Raft itself a handler keeps
this: it saves, pushes to the apply channel, returns. What is shown is that the
atomic crash of `Raft` is a fair picture: an answer that reached its caller was
saved before the copy was taken, and nothing of an old instance reaches the disk
or the state machine of the next one.

## 3. Properties

`RaftProperties`: `TypeOK`; `ElectionSafety`; `LogMatching`; `LeaderCompleteness`;
`StateMachineSafety` (`nCommitted`'s check); `AppliedInOrder` (`applierSnap`'s
check); `MatchTruthful` (`matchIndex` never claims more than the follower
holds); `CommittedOnMajority`; `NextIndexInLog`; `Durable` (no step ends with a
term, vote, log or snapshot that is not on disk); `InBounds` (indexes in step,
no read outside `m_logs`); `HonestCount` (each vote counted or on its way was
cast for this election, and is counted once); the action properties
`TermMonotonic`, `VoteOnce`, `LeaderAppendOnly`, `CommitMonotonic`,
`RestartKeepsLog`.

`RaftLog`: `ImplementsLog`, or `StepsImplementLog` for a run that does not start
with an empty log. `RaftLogInvariant`: `LogInv`, the invariant the proofs about
logs rest on (section 5), is itself checked. `RaftLiveness`: `LeaderConverges`, a leader that stays brings
every log and state machine to its own; `FollowersCatchUp`, the part of it a
snapshot is needed for.

`KVProperties`: `TypeOK`; `StoreIsReplay` (a store is the executed log with each
write counted once, also after a restart); `Linearizable` (the refinement).

`MapReduceProperties`: `TypeOK`; `CountersExact`; `ReduceAfterMaps` (a reduce
task reads whole files only); `OutputComplete`; `RefinesJob`; `Terminates`.

`HarnessProperties`: `AckedIsSaved`; `OnlyOwnSaves`; `OnlyOwnCommands`;
`ApplierAnswers` (no wake-up of the condition variable is lost, and
`crashServer`'s join returns).

Each property of each passing run is killed by a mutant of the code's own
operators: a vote that is not written, a majority rounded down, an entry of an
old term committed by counting, a duplicate test with `==`, a retry with a new
number, a table of numbers that survives a restart the store does not survive, a
refresh that resets completed tasks, a channel closed without its mutex, and so
on.

## 4. Runs

Deadlock is not checked: a bounded model stops when its last term has no leader,
its operations are called and its messages do nothing, when the master has
exited, or when a test starts no further instance.

| run | bounds | shows |
|---|---|---|
| `election` | 3 servers, 2 terms, 1 crash, from start-up, every message distinguished | one leader per term; votes are counted once and for the election they were cast in; nothing that was promised is forgotten in a crash |
| `replication` | 3 servers, 2 commands, 1 crash, one elected leader, empty logs | counting, committing and executing under loss, repetition, reordering, restart; Raft implements `ReplicatedLog` |
| `log_repair` | 3 servers with conflicting logs, 3 commands, terms up to 3, compaction of every second entry, 1 crash, `appendEntries` in two steps, at most 9 relevant messages | conflicts are truncated and nothing else, also when the repaired log is compacted or a server crashes between two critical sections of `appendEntries`; `nextIndex` stays in the log |
| `old_term` | 3 servers, 3 commands, terms up to 4, at most 7 relevant messages | Figure 8 of the Raft paper: an old term's entry is not committed by counting; `LogInv` holds all the while; every step is one of `ReplicatedLog` |
| `catch_up` | 3 servers: two hold a compacted command, the third nothing; compaction of every entry, one more command, 1 crash (also inside `installSnapshot`), one further election, at most 9 relevant messages | InstallSnapshot and appends side by side; servers that know a command by their snapshot alone elect and lead correctly; also these steps are steps of `ReplicatedLog` |
| `convergence` | 3 servers with 3 different logs, terms up to 3, 2 crashes, at most 9 relevant messages | a leader that stays makes every log its own and has it executed everywhere |
| `kv` | 2 servers, 2 clerks, 1 key, Get and Append, 3 operations, 3 accepted commands, 1 crash | the service is linearizable and every write takes effect once |
| `mapreduce` | 2 workers, 3 inputs of which one cannot be opened, 2 outputs, 1 crash of a worker | counters, phases and outputs are right, the job is done once, and ends |
| `harness` | 2 calls, 2 starts of the server | crash and restart step by step against handlers, network and applier thread |

Three runs find what the code's own comments and checks say cannot be:

| run | violates | because |
|---|---|---|
| `lost_vote` | `ElectionSafety` | `snapshot` saves `"Voted"`, a restart reads `"VotedFor"` (raft.cpp:725, 926) |
| `slow_worker` | `OutputComplete` | `reportMapComplete` counts a task down however often it is reported (master.cpp:82): a worker slower than 10 s has its task run twice, and the reduce phase starts one map task early |
| `stuck_follower` | `FollowersCatchUp` | a follower with an empty log reports `conflictIndex` 0, which a leader with `nextIndex = m_lastIncludedIndex + 1` ignores (raft.cpp:389): it neither lowers `nextIndex` nor sends its snapshot |

Seven further variants, each a configuration for `MCRaft` of the same kind, show
what the passing runs exclude: each is about a line that is right only while
something else holds. They are kept to be run by hand:
`tlc -config X.cfg MCRaft` prints the behaviour:

| configuration | violates | because |
|---|---|---|
| `LateVote` | `ElectionSafety` | the vote callback (raft.cpp:205) does not check its term; race `late_reply` |
| `TimerRace` | `LogMatching` | `appendEntries` tests its role before it lets go of `m_mu`, not after (494): if its server becomes leader meanwhile, the mark loop (514) cuts entries of the new leader's own term, and `start` gives their indexes away again; race `timer` |
| `SnapshotRace` | `StateMachineSafety` | `preLogIndex + 1 - m_lastIncludedIndex` wraps round (505); race `snapshot` |
| `SentBack` | `AppliedInOrder` | an installed snapshot may be older than what was applied (641, 668) |
| `AckedDropped` | `CommittedOnMajority` | entries beyond the snapshot are dropped (653) |
| `TornSave` | `RestartKeepsLog` | two saves are not one (663-665) |
| `GarbageIndex` | `NextIndexInLog` | an uninitialised `conflictIndex` (config.cpp:171, raft.cpp:458) becomes `nextIndex` |

One more needs only another constant: with compaction of every entry
(`SpecElected`, `SnapshotInterval = 1`) the reply to an old snapshot is credited
with the leader's newest one at raft.cpp:1013 (`MatchTruthful`).

The passing Raft runs exclude these causes by their instances: `Garbage = {0}`,
no race, and
compaction in `log_repair` and `catch_up` only. In
`log_repair` there is one snapshot, of the first two entries; in `catch_up` there
are two, one taken before it starts and one in it. `SentBack`, `AckedDropped` and
the wrong credit for a snapshot need a third command or a third snapshot, so that
two snapshots overtake each other or entries outrun one; what `TornSave` breaks is
checked where nothing is compacted, in `replication`. What the runs show is
that catching up is right as long as they do not.

### Bounds

*Raft.* `MaxTerm` ends elections, `Command` bounds the log (each command is
accepted once), `MaxCrashes` the restarts. Three servers are the least with a
majority that is not everybody; two are used where only a leader and a follower
matter. Two terms are enough for a vote to be asked twice and for a leader to be
replaced; the conflicts of `log_repair` need three terms and the scenario of
`old_term` four. To get there in reach, the runs on logs start a few steps into
an execution: `Elected`, `Diverged`, `Compacted` in `MCRaft` and
`Heard` in `MCRaftLiveness` are reachable states, and each says how it was
reached. One crash is enough for a server to forget what it did not save, at any
point of the run. `FewInFlight` bounds the deepest runs: states with more
than `MaxInFlight` messages that still matter are not explored further. Three
servers need four messages for a full exchange, so the bounds leave room for two
or more rounds that overlap. `View` drops from a state what no step can depend on
when `late_reply` is absent, such as requests from a term both ends have left.
`election` and the variants with the races `late_reply` and `snapshot` are
checked without it, and so is `convergence`: liveness is checked on the states
themselves. Symmetry is used only for safety, and for servers that the initial
state does not tell apart.

*KV.* Three operations of two clerks let a retried write, a write of the other
clerk in between and a read overlap; three accepted commands let one request be
in the log twice or thrice; one crash replays a log that holds duplicates. `Put`
is left out of the instance, as it hides the writes before it, which `Append`
does not; the proof covers it. The servers count with `Server = 0 .. nums - 1`
as the clerk does.

*MapReduce.* Three inputs are the least for one to be missing while two workers
each have one of the others; two outputs let the reduce phase overlap with a
crash. The crash may fall between any two accesses.

*Harness.* Two calls, since the second finds the server busy, or its successor;
two starts, since what an old instance can spoil is the next one.

### Fairness

*Raft* (`RaftLiveness`, `Leads(s)`): the broadcasts of one leader, the handler
of the call it makes now, and the callback of an answer that is still right.
`startRaft` broadcasts every heartbeat as long as the instance leads, so a lost
call is made again without end, and an unreliable network loses only some of
them. The fairness is strong because a message of the model stands for any
number of copies, and late copies may come in between again and again: what it
says is that they do not for ever come first. Nothing is asked of elections,
clients, snapshots, other servers' calls or crashes, and the property is about
runs in which one leader stays. That a leader is elected at all depends on
timers of different lengths, which the model does not have; it is not claimed.

*MapReduce*: weak fairness of each worker process and of each of the two
threads, none of which ever blocks for good, and of the deadlines, since time
passes. Crashes are not fair.

*Harness*: weak fairness of `crashServer` once it has begun, of the applier thread
and of handlers: threads that can run do. Nothing is asked of the tests, of calls
or of the network.

*KV*: none, and no liveness is claimed. An operation ends only if some server
leads long enough, and while a handler waits its own server takes no
`AppendEntries`; the hazard is listed in `PROJECT.json`.

## 5. Proofs

### KV (`KVProofs`)

`ServiceLinearizable`: `Spec => Linearizable`, for every number of servers, set
of clerks and of keys, all three operations, any numbers of operations, retries
and crashes; with `AlwaysTypeOK` and `AlwaysStoreIsReplay`. Beyond the
assumptions on constants stated in the modules nothing is assumed. The inductive
invariant is `TypeOK` and

* `LogInv`, `Proposals`: every executed sequence is a prefix of `chosen`, whose
  entries were proposed; every proposal carries arguments a clerk has sent, and
  a write with a number a clerk has reached;
* `StoreIsReplay`: needed to know what the duplicate test tests;
* `HandlerInv`: a promise that is fulfilled was fulfilled by the handler's own
  entry, which is now in `chosen` at its index;
* `AwaitedInv`: a handler somebody waits for holds the very arguments of that
  clerk, and its entry was started after the call: its index is past `since`,
  or has gone to another entry;
* `ClerkInv`, `WritesDone`: any write on its way, in a handler or in the log is
  its clerk's present one or has taken effect, and no number in the log is ahead
  of its clerk's; so an old write is always recognised, and a new one is never
  taken for an old one.

A lemma per action says what it does to the invariant, and one per action what
step of `KVService` it is: a call, a return, a write taking effect (the
`Apply` that makes `chosen` longer by a write not counted yet), or a stutter. That
the replay of `chosen` is well defined and only depends on a prefix is an
induction over an interval, which `IntervalInduction` gets from the least
element of a set instead of an operator parameter.

### MapReduce (`MapReduceProofs`)

`AlwaysTypeOK` unconditionally. Under `~SlowWorkers`, which `slow_worker` shows
to be necessary: `AlwaysCountersExact`, `AlwaysReduceAfterMaps`,
`AlwaysOutputComplete` and `ImplementsJob`, for any finite set of workers, any
numbers of tasks and crashes, any unreadable inputs. The inductive invariant
relates things that the code keeps apart: a task that is held is held by one
worker and `ASSIGNED`, not overdue (`HeldOnce`), so it is reported once and the
counters stay exact; a reduce task is assigned only when no map is left
(`MapsBeforeReduces`, `MonitorSaw`); the files of a completed map task
(`MapsWritten`), what a reduce task has read so far (`ReadSoFar`) and what it
wrote (`OutputsWritten`) are whole.

### Harness (`HarnessProofs`)

`AlwaysAckedIsSaved`, `AlwaysOnlyOwnCommands`, `AlwaysOnlyOwnSaves` and
`AlwaysNoLostWakeUp` (an applier thread that waits has nothing to pop and an open
channel), for every number of calls and starts. The invariant says which objects
belong to which instance (`OwnObjects`: the pointer is the running instance's
object only between start and copy), that what a handler saved is there
(`Saved`), that every applier thread but the running instance's has ended
(`AppliersJoined`), and that a channel holds its own instance's commands.

### Raft (`RaftTypeProofs`, `RaftElectionProofs`, `RaftStorageProofs`)

`TypeCorrect`: `Spec => [](TypeOK /\ InBounds)` if `"snapshot" \notin Races`. The
types alone are not inductive: that `TermAt` reads a term, that `conflictIndex`
and `m_lastApplied` are natural numbers and that a resumed `appendEntries` cuts
its log where it has one, all need the indexes to be in step, which is
`InBounds`. The assumption is needed: `SnapshotRace` is what happens without it.
`AlwaysInBounds` is its second half by itself.
It holds for every set of servers, number of commands, terms and crashes,
snapshot interval and content of an uninitialised reply.

`VotesHonest`, `AtMostOneLeader`, `VotesOnce`, `TermsGrow`, under
`NoElectionFault`: no `late_reply`, no `snapshot` race, no compaction. The first
and the last are what `LateVote` and `lost_vote` show to be necessary for
election safety; the second comes with `TypeCorrect`. The race `timer` is
allowed. The inductive invariant is `TypeInv /\ HonestCount`:

* `VotesOnDisk`: term and vote are on disk, so a restart keeps them;
* `BallotsCurrent`, `OneBallotEach`: the vote messages a candidate waits for
  belong to its present election, one per peer, none from a peer already counted;
* `VotesCast`: a vote counted or on its way was cast by its sender, who has
  kept it or moved to a later term;
* `VotesCounted`, `OneVoteEach`: the counter is the number of voters, a leader
  has a majority of them, and two candidates of a term share none.

Two leaders of a term would have two majorities without a common member, which
`FS_MajoritiesIntersect` excludes. The proof has one lemma per action. Eleven of
the actions leave ballots alone but may end an election (`CalmStep` carries the
invariant over all of them); becoming a leader, starting an election, voting and
counting are proved conjunct by conjunct.

`AlwaysDurable`, `AlwaysAppliedInOrder`, `RestartFindsLog`, under
`NoCompaction` (`SnapshotInterval = 0` and no `snapshot` race: the service takes
no snapshots, as in the tests before 3D and in Lab 4). Compaction breaks each of
them in this code: `snapshot()` loses the vote (`lost_vote`), an old snapshot
moves the state machine back (`SentBack`), two saves are not one (`TornSave`).
The other two races, and any number of crashes, are allowed. The inductive
invariant is `StorageInv`, `TypeInv /\ NothingCompacted /\ Durable /\ AppliedInOrder`: that no disk,
server or message holds a snapshot (`NothingCompacted`) is what keeps `Durable`
across a restart, and `Durable` is what makes the restart's log the old one. One
lemma per action shows that it ends with a `Persist` of what it changed and
executes nothing but the entries after `m_lastApplied` (`Storing`); `StorageStep`
carries the invariant over all of them, and only the crash is treated apart.

### Raft's logs (`RaftLogInvariant`, `RaftLogProofs`)

| theorem | states |
|---|---|
| `AlwaysLogMatching` | `LogMatching` |
| `AlwaysLeaderCompleteness` | `LeaderCompleteness` |
| `AlwaysStateMachineSafety`, `AlwaysCommittedOnMajority` | `StateMachineSafety`, `CommittedOnMajority` |
| `AlwaysMatchTruthful`, `AlwaysNextIndexInLog` | `MatchTruthful`, `NextIndexInLog` |
| `CommitsNeverGoBack`, `LeadersOnlyAppend` | `CommitMonotonic`, `LeaderAppendOnly` |
| `LogInvariant` | `LogInv`, from which all of these follow |
| `RaftImplementsLog` | `RecordedSpec => ImplementsLog`: `Raft` implements `ReplicatedLog`, on which `KV` is built |

for any servers, commands, numbers of terms and of crashes, any loss, delay,
repetition and reordering of messages, and for the fast back-up of `conflictIndex`
and the mark loop of `appendEntries` as the code has them. All assume
`NoLogFault == Races = {} /\ SnapshotInterval = 0`: what the runs above show to
break logs when it is present. `LateVote` elects two leaders, `TimerRace` cuts a
leader's log, and with compaction `lost_vote` votes twice, `SentBack`, `AckedDropped`
and `TornSave` undo what was executed, acknowledged or saved. So these theorems are
about Raft as Lab 4 and the tests before 3D use it, and about calls that no timer
interrupts.

`LogInv` needs no history variables beyond `voters`. What was once voted, sent and
acknowledged is read off it, the calls in the network (`AppendEntries` calls stay in
`messages`) and the replies. Logs and the contents of calls are treated alike, as
*pieces* of log (`Pieces`). Its parts:

* `TermsBounded`: terms in a piece grow and are at most its owner's, or its call's.
* `TermsLed`: every term of a piece was led (`Led`): a majority has voted for one
  server, which is no longer a candidate of that term, and can no longer be counted
  for anybody else. This is what is left of an election when the leader is gone.
* `PiecesMatch`: log matching, for all pieces. `LogMatching` alone is not inductive,
  as a call may bring back what no log has any more.
* `LeaderOwns`: all entries of a leader's term are in its log; so a new entry is
  unlike all others.
* `AcksTrue`, `RefusalsTrue`, `RequestsTrue`: what replies and vote requests say is
  true of the logs as long as anybody acts on it.
* `OwnEntriesSecure`: take an entry of the leader's own term and the servers that
  acknowledged it. Either a majority has gone to later terms without acknowledging,
  and it will never be counted (`Blocked`); or those servers will never give their
  vote to a candidate without it, and every later leader, and every piece that is
  at least as up-to-date, has it (`Secure`). This is how Figure 8 is excluded:
  the definition says nothing of entries of older terms.
* `CommitsChosen`: a commit index, in a server or in a call, ends a prefix that is
  `Chosen`: secure as far as a majority is concerned, and for ever.
* `CommitsExecuted`: the state machine has executed what is committed, no more.

Each step is first shown to be of one of five kinds: it changes no log and sends no
call (`Quiet`), elects a leader (`Elects`), appends one entry at a leader
(`Extends`), sends a piece of a leader's log (`Sends`), or replaces the end of a
follower's log by what a call carries (`Accepts`, for which the mark loop is shown
to be the splice of two pieces). For each kind the parts up to `OwnEntriesSecure`
(`Agreement`) and the fact that a chosen prefix stays chosen and in place
(`ChosenKept`) are proved; the last two parts then follow for all kinds at once. The
election theorems above and `StorageInv` are used throughout.

For the refinement, `RecordInv` says what the record of `RaftLog` has to do with
the state: every entry of a piece was proposed at its index (`EntriesProposed`),
each command once (`ProposedOnce`), and `chosen` is a chosen prefix of some log, as
long as any executed one (`LongestChosen`). `start` then is `Propose`, a step that commits is
one `Execute`, a crash is a `Restart`, and every other step a stutter.

### Assumptions on constants

Those named `...Assumption` in the modules: sets of servers, workers and
messages are finite where they are counted, bounds are natural numbers, the
"nothing" values are not among the things, `Races` is a subset of the three,
`Garbage` is a set of natural numbers. TLC evaluates them on every run.

### Only model-checked

Raft with compaction, apart from its types and indexes: that logs, commitment and
execution are right when servers snapshot and install snapshots is checked in
`log_repair` and `catch_up` only, and only as far as the faults listed in section 4
let it be true. A theorem would have to exclude these by their causes one by one.
`appendEntries` in two steps with a crash in between is checked in `log_repair`.
Liveness (`LeaderConverges`, `Terminates`, `ApplierAnswers`): liveness under
fairness and `ENABLED` are out of the prover's reach. Of `ApplierAnswers` the
safety half is proved (`AlwaysNoLostWakeUp`).

## 6. What is not modelled

* Of `Raft`: the lag of the apply channel, a pushed command is executed at once
  (only the snapshot that follows is a later step); what the harness does after
  an `apply out of order` error; a leader deposed and re-elected between the two
  critical sections of one callback; the width of terms and indexes, except for
  the unsigned difference at raft.cpp:505; reads past `m_logs` between the log's
  end and the sanity bound of `nextIndex` (`NextIndexInLog` says this is not
  reached); timers as durations.
* Of the KV service: the scripts of its tests, and what Raft does below it
  beyond `ReplicatedLog`.
* Of MapReduce: user functions, hashing, JSON, sorting.
* Of labrpc: the dispatcher thread and its shutdown, statistics, groups of
  endpoints.
* `ThreadPool`: a queue whose `stop` is set under the mutex its threads wait
  with. Its effect on Raft, callbacks that run late, is the race `late_reply`.
* RPC codecs and logger: conversions field by field, and output.
* Vendored code: two copies of `json.hpp` (51,052 of the repository's 58,495
  lines), ZeroMQ headers and buttonrpc, and a gRPC demonstration without state.
  This is why the share of all lines that is modelled stays small; of the
  program's own files with state, `raft.cpp`, `persister.cpp`, `kvserver.cpp`,
  `clerk.hpp`, `master.cpp`, `server.cpp`, `worker.cpp` and `config.hpp`
  are covered.

## 7. Plan

1. The theorems on logs with `appendEntries` in two steps.
2. Compaction in `LogInv`: pieces that begin at a snapshot, for the behaviours in
   which snapshots do not overtake each other.
3. `NoElectionFault` weakened to its two necessary parts.
4. Liveness of an election with timers as bounded counters; liveness of a KV
   operation on a server that leads.
5. The deposed-and-re-elected race in one callback; the thread pool's bound.
