---------------------------- MODULE MCConcurrent ----------------------------
(***************************************************************************)
(* What threads, streams and processes do at the same time: "pool", the    *)
(* thread pool; "uvm", a GPU table over a UVM table; "gpu", a GPU layer,   *)
(* which is at rest in the other parts; "ranks", the processes that build  *)
(* a distributed buffer.                                                   *)
(***************************************************************************)
EXTENDS GpuEmbeddingLayer, Integers, FiniteSets

CONSTANTS w1, w2, c1, c2, k1, k2, k3, Invalid

VARIABLES part, setup,
          tasks_, wpc, running, future, cpc, request, calls, next, seen, dpc, dgroup,
          registered, uvm_lock, call, front, queue, done, held, cached, uvm, latest, returned, tasks,
          rank_pc, entered, shards, refs, views

(***************************************************************************)
(* Pools of two workers: a simple pool with two clients; one whose tasks   *)
(* throw; one whose task executes another while a worker is left; a pool   *)
(* of two workgroups, which get bursts in turn, the last burst partial.    *)
(***************************************************************************)
OneGroup == [w \in {w1, w2} |-> 0]
OneEach == [w \in {w1, w2} |-> IF w = w1 THEN 0 ELSE 1]
Execute(n, b, gs) == [kind |-> "submit_n", size |-> n, burst |-> b, groups |-> gs, awaits |-> TRUE]
Submit(g) == [kind |-> "submit", size |-> 1, burst |-> 1, groups |-> <<g>>, awaits |-> FALSE]
Inner == Execute(1, 1, <<0>>)
Pool(of, clients, n, requests, nested, throws) ==
  [num_groups |-> IF of = OneEach THEN 2 ELSE 1, group_of |-> of, clients |-> clients, max_calls |-> n,
   requests |-> requests, nested |-> nested, may_throw |-> throws]
PoolSetups == {
  Pool(OneGroup, {c1, c2}, 1, {Execute(2, 2, <<0>>), Submit(0)}, {}, FALSE),
  Pool(OneGroup, {c1}, 2, {Execute(2, 2, <<0>>), Submit(0)}, {}, TRUE),
  Pool(OneGroup, {c1}, 2, {Inner}, {Inner}, TRUE),
  Pool(OneEach, {c1}, 2, {Execute(3, 2, <<1, 0>>), Submit(1)}, {}, FALSE)}
P == INSTANCE ThreadPool WITH Workers <- {w1, w2}, Clients <- {c1, c2}, Setups <- PoolSetups, MaxCalls <- 2

ASSUME PoolsAssumption == P!SetupsOK /\ P!CallsOK /\ P!ActorsOK

(***************************************************************************)
(* Tables with two contexts: updates and lookups of the same keys and of   *)
(* others, on private streams and on the callers', in chunks, and          *)
(* accumulations by CPU tasks.                                             *)
(***************************************************************************)
UvmSetup(private, cpu, ops1, ops2, b1, b2, chunk, threads, per_task, n) ==
  [contexts |-> {c1}, private_stream |-> private, uvm_cpu_accumulate |-> cpu,
   ops |-> [c \in Contexts |-> IF c = c1 THEN ops1 ELSE ops2],
   batches |-> [c \in Contexts |-> IF c = c1 THEN b1 ELSE b2],
   max_modify_size |-> chunk, num_threads |-> threads, keys_per_task |-> per_task,
   max_calls |-> n, late |-> FALSE, destroys |-> n = 1]
UvmSetups == {
  UvmSetup(FALSE, FALSE, {"update", "update_accumulate", "insert"}, {"find"}, {<<k1>>}, {<<k1, k2>>}, 1, 1, 1, 2),
  UvmSetup(FALSE, FALSE, {"update", "insert", "find"}, {"update", "find_and_combine"}, {<<k1>>}, {<<k2>>}, 1, 1, 1, 2),
  UvmSetup(TRUE, FALSE, {"update_accumulate", "insert", "clear", "find"}, {"find"}, {<<k1, k2>>}, {<<k1, k2>>}, 1, 1, 1, 2),
  UvmSetup(FALSE, TRUE, {"update_accumulate"}, {"find", "update_accumulate"}, {<<k1, k2, k3>>}, {<<k1>>}, 2, 2, 1, 1),
  UvmSetup(FALSE, TRUE, {"update_accumulate", "erase"}, {"find"}, {<<k1, k2, k3>>}, {<<k1>>}, 3, 2, 4, 2),
  UvmSetup(FALSE, TRUE, {"update_accumulate"}, {"update"}, {<<k1, k2>>}, {<<k3>>}, 2, 2, 1, 1),
  UvmSetup(TRUE, TRUE, {"update_accumulate", "insert", "find"}, {"find"}, {<<k1, k2>>}, {<<k1>>}, 2, 1, 1, 2)}
U == INSTANCE GpuUvmTable WITH Keys <- {k1, k2, k3}, Setups <- UvmSetups, contexts <- registered

(***************************************************************************)
(* Three processes, on one host and on two, over MPI and over torch, with  *)
(* the default devices and with devices given, some holding no shard.      *)
(***************************************************************************)
Ranks == {0, 1, 2}
Job(env, host, devices) == [env |-> env, host |-> host, devices |-> devices, device_count |-> 2,
                            size |-> 7, granularity |-> 2, sys |-> FALSE, imex |-> TRUE]
PerRank(a, b, c) == [r \in Ranks |-> IF r = 0 THEN a ELSE IF r = 1 THEN b ELSE c]
RankSetups == {
  Job("mpi", PerRank(0, 0, 0), <<>>), Job("mpi", PerRank(0, 1, 1), <<>>),
  Job("mpi", PerRank(0, 1, 1), PerRank(-1, 0, 1)), Job("mpi", PerRank(0, 0, 0), PerRank(1, -1, 0)),
  [Job("torch", PerRank(0, 0, 0), <<>>) EXCEPT !.sys = TRUE]}
D == INSTANCE DistributedBuffer WITH Setups <- RankSetups, Nothing <- None

poolVars == <<tasks_, wpc, future, cpc, request, next, seen, dpc, dgroup>>
uvmVars == <<registered, uvm_lock, call, front, queue, done, held, cached, uvm, latest, returned, tasks>>
rankVars == <<rank_pc, entered, shards, refs, views>>
otherVars == <<setup, running, calls, poolVars, uvmVars, rankVars>>
allVars == <<part, vars, otherVars>>

NoPool == tasks_ = None /\ wpc = None /\ future = None /\ cpc = None /\ request = None /\ next = None
          /\ seen = None /\ dpc = None /\ dgroup = None
NoUvm == registered = None /\ uvm_lock = None /\ call = None /\ front = None /\ queue = None /\ done = None
         /\ held = None /\ cached = None /\ uvm = None /\ latest = None /\ returned = None /\ tasks = None
NoRanks == rank_pc = None /\ entered = None /\ shards = None /\ refs = None /\ views = None

NoCalls == running = None /\ calls = None

AllInit == /\ Init
           /\ \/ part = "pool" /\ P!Init /\ NoUvm /\ NoRanks
              \/ part = "uvm" /\ U!Init /\ NoPool /\ NoRanks
              \/ part = "ranks" /\ D!RanksInit /\ NoPool /\ NoUvm /\ NoCalls
              \/ part = "gpu" /\ setup = None /\ NoPool /\ NoUvm /\ NoRanks /\ NoCalls

InPool(A) == part = "pool" /\ UNCHANGED <<part, setup, vars, uvmVars, rankVars>> /\ A
InUvm(A) == part = "uvm" /\ UNCHANGED <<part, setup, vars, poolVars, rankVars>> /\ A
InRanks(A) == part = "ranks" /\ UNCHANGED <<part, setup, vars, running, calls, poolVars, uvmVars>> /\ A
InGpu(A) == part = "gpu" /\ UNCHANGED <<part, otherVars>> /\ A

AllNext == InPool(P!Next) \/ InUvm(U!Next) \/ InRanks(D!RanksNext) \/ InGpu(Next)

(* Every thread that can run does, a task terminates, and what has begun on a *)
(* device ends; the lock of a UVM table is given to each that waits for it;   *)
(* every process runs, and its application drops its buffer in the end.       *)
Fairness ==
  /\ \A c \in {c1, c2, w1, w2} : WF_allVars(InPool(P!CallSteps(c)))
  /\ \A w \in {w1, w2} : WF_allVars(InPool(P!Take(w))) /\ WF_allVars(InPool(P!Finish(w)))
  /\ WF_allVars(InPool(P!DestructorSteps))
  /\ \A c \in Contexts : WF_allVars(InUvm(U!Continues(c))) /\ SF_allVars(InUvm(U!LockUvm(c)))
  /\ \A s \in U!Streams : WF_allVars(InUvm(U!Start(s) \/ U!Finish(s)))
  /\ \A r \in Ranks : WF_allVars(InRanks(D!Rank(r)))

AllSpec == AllInit /\ [][AllNext]_allVars /\ Fairness

(* The rows of the UVM table have one writer at a time, and no lookup reads a *)
(* row that an update is writing, on the device or on the CPU; except on a    *)
(* private stream, where a lookup of another context that is queued while CPU *)
(* tasks accumulate may read what they write (GpuUvmTable!NoTornRow).         *)
NoTornRow == part = "uvm" => U!TypeOK /\ U!NoTornRow

(* A lookup queued after an update had returned reads the updated row; and at *)
(* rest the table and the cache have every update once.                       *)
RowsAreCurrent == part = "uvm" => U!LookupIsFresh /\ U!TableHasUpdates

(* All ranks enter the same collectives, no constructor throws, every rank    *)
(* maps the same shards in the same order, and after the last destructor no   *)
(* reference to a shard is left.                                              *)
OneBuffer == part = "ranks" => D!JobOK /\ D!RanksTypeOK /\ D!CollectivesMatch /\ D!NoRankThrows /\ D!SameBuffer /\ D!AllReleased

(* execute and execute_n return normally only when all their tasks have       *)
(* concluded, and the destructor only when every submitted task has; a task   *)
(* is in one queue or with one worker.                                        *)
ConcludesAll == [][part = "pool" => P!TypeOK /\ P!ReturnsConcluded /\ P!DrainedAtShutdown']_allVars

(* A call on the pool has begun, a task is queued or the destructor runs; an  *)
(* update of the UVM table has begun; a rank has not destroyed its buffer.    *)
Outstanding ==
  CASE part = "pool" -> P!Outstanding
    [] part = "uvm" -> \E c \in Contexts : call[c] # U!Idle
    [] part = "gpu" -> FALSE
    [] part = "ranks" -> \E r \in Ranks : rank_pc[r] # "gone"

(* What is called returns: execute, the destructor of a pool and every task   *)
(* submitted to it, an update of a UVM table, the constructor and destructor  *)
(* of a distributed buffer.  The calls of a behaviour are finitely many, so   *)
(* each returns when all of them do.                                          *)
CallsReturn == Outstanding ~> ~Outstanding
=============================================================================
