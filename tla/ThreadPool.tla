---------------------------- MODULE ThreadPool ----------------------------
(***************************************************************************)
(* The thread pools of src/thread_pool.cpp and the blocking calls that     *)
(* include/thread_pool_base.hpp builds on them.  A pool has workgroups;    *)
(* each has a task queue, a mutex and a condition variable.                *)
(* SimpleThreadPool is the pool with one workgroup.                        *)
(*                                                                         *)
(* A call is a record: size tasks are submitted in bursts, burst after     *)
(* burst to the workgroups listed in groups, round robin; kind says        *)
(* whether a burst is pushed by submit (it notifies one worker) or by      *)
(* submit_n (it notifies all); awaits says whether the caller then awaits  *)
(* the futures in order (execute, execute_n) or returns at once.           *)
(* Callers are client threads and, when tasks use the pool themselves,     *)
(* workers.  A setup is a pool and the use made of it; a behaviour has one *)
(* setup, chosen at the start.                                             *)
(***************************************************************************)
EXTENDS Naturals, Sequences, FiniteSets

CONSTANTS Workers,      \* the worker threads
          Clients,      \* threads that use the pool from outside
          Setups,       \* the pools and their uses
          MaxCalls,     \* bound: calls of one caller in any setup
          Invalid,      \* a packaged_task with no callable
          None

Callers == Clients \union Workers
Calls == UNION {s.requests \union s.nested : s \in Setups}
MaxSize == CHOOSE n \in {r.size : r \in Calls} : \A r \in Calls : r.size <= n
Tasks == Callers \X (1 .. MaxCalls) \X (1 .. MaxSize)

SetupsOK ==
  \A s \in Setups :
    /\ s.num_groups \in Nat \ {0} /\ s.group_of \in [Workers -> 0 .. s.num_groups - 1]
    /\ s.clients \subseteq Clients /\ s.max_calls \in 0 .. MaxCalls /\ s.may_throw \in BOOLEAN
CallsOK == \A r \in Calls : r.size > 0 /\ r.burst > 0 /\ r.groups # <<>>
ActorsOK == Clients \cap Workers = {} /\ None \notin Tasks /\ Invalid \notin Tasks

VARIABLES setup,    \* the pool and its use
          tasks_,   \* per workgroup, the queue of tasks
          wpc,      \* what each worker does
          running,  \* the task a worker runs
          future,   \* the state of each task's future
          cpc,      \* where each caller is in its call
          request,  \* the call it makes
          calls,    \* how many calls it has made
          next,     \* tasks pushed so far by the current call
          seen,     \* futures awaited so far by the current call
          dpc,      \* the destructor
          dgroup    \* the workgroup it terminates next

pool == <<tasks_, wpc, running, future>>
call == <<cpc, request, calls, next, seen>>
destructor == <<dpc, dgroup>>
vars == <<setup, pool, call, destructor>>

NumGroups == setup.num_groups      \* num_workgroups()
Groups == 0 .. NumGroups - 1
GroupOf == setup.group_of          \* the workgroup of each worker

Init ==
  /\ setup \in Setups
  /\ tasks_ = [g \in Groups |-> <<>>]
  /\ wpc = [w \in Workers |-> "check"]
  /\ running = [w \in Workers |-> None]
  /\ future = [t \in Tasks |-> "none"]
  /\ cpc = [c \in Callers |-> "idle"]
  /\ request = [c \in Callers |-> None]
  /\ calls = [c \in Callers |-> 0]
  /\ next = [c \in Callers |-> 0]
  /\ seen = [c \in Callers |-> 0]
  /\ dpc = "up"
  /\ dgroup = 0

----------------------------------------------------------------------------
(* Calls *)

Begin(c, r) ==
  /\ cpc[c] = "idle"
  /\ calls[c] < setup.max_calls
  /\ cpc' = [cpc EXCEPT ![c] = "push"]
  /\ request' = [request EXCEPT ![c] = r]
  /\ calls' = [calls EXCEPT ![c] = @ + 1]
  /\ next' = [next EXCEPT ![c] = 0]
  /\ seen' = [seen EXCEPT ![c] = 0]
  /\ UNCHANGED <<pool, destructor>>

(* A client holds a reference to the pool, so it calls before the destructor. *)
ClientCalls(c) ==
  /\ dpc = "up" /\ c \in setup.clients
  /\ \E r \in setup.requests : Begin(c, r)

TaskCalls(w) ==
  /\ wpc[w] = "busy"
  /\ running[w][1] \in Clients
  /\ \E r \in setup.nested : Begin(w, r)

(* The workgroup and the last task of the burst the call is at. *)
Workgroup(c) ==
  LET gs == request[c].groups
  IN  gs[((next[c] \div request[c].burst) % Len(gs)) + 1] % NumGroups

BurstEnd(c) ==
  IF next[c] + request[c].burst < request[c].size
  THEN next[c] + request[c].burst
  ELSE request[c].size

(* submit, submit_n: the tasks of one burst enter the queue under tasks_guard_. *)
submit_n(c) ==
  /\ cpc[c] = "push"
  /\ LET n == BurstEnd(c) - next[c]
         burst == [i \in 1 .. n |-> <<c, calls[c], next[c] + i>>]
     IN  /\ tasks_' = [tasks_ EXCEPT ![Workgroup(c)] = @ \o burst]
         /\ future' = [t \in Tasks |-> IF \E i \in 1 .. n : t = burst[i] THEN "queued" ELSE future[t]]
  /\ cpc' = [cpc EXCEPT ![c] = "notify"]
  /\ UNCHANGED <<wpc, running, request, calls, next, seen, destructor>>

Waiting(g) == {w \in Workers : wpc[w] = "wait" /\ GroupOf[w] = g}

(* notify_one wakes some waiting worker, if there is one; notify_all wakes all. *)
NotifyOne(g) ==
  \/ Waiting(g) = {} /\ UNCHANGED wpc
  \/ \E w \in Waiting(g) : wpc' = [wpc EXCEPT ![w] = "check"]

NotifyAll(g) == wpc' = [w \in Workers |-> IF w \in Waiting(g) THEN "check" ELSE wpc[w]]

Notify_FirstGroup(c) == NotifyAll(request[c].groups[1] % NumGroups)
Notify(c) == IF request[c].kind = "submit" THEN NotifyOne(Workgroup(c)) ELSE NotifyAll(Workgroup(c))

Notified(c) ==
  /\ cpc[c] = "notify"
  /\ Notify(c)
  /\ next' = [next EXCEPT ![c] = BurstEnd(c)]
  /\ cpc' = [cpc EXCEPT ![c] = IF BurstEnd(c) < request[c].size THEN "push"
                                ELSE IF request[c].awaits THEN "await" ELSE "idle"]
  /\ UNCHANGED <<tasks_, running, future, request, calls, seen, destructor>>

AwaitCount_OneLess(c) == request[c].size - 1
AwaitCount(c) == request[c].size

(* await: the futures one by one; get() rethrows what the task threw. *)
await(c) ==
  /\ cpc[c] = "await"
  /\ future[<<c, calls[c], seen[c] + 1>>] = "ready"
  /\ seen' = [seen EXCEPT ![c] = @ + 1]
  /\ cpc' = [cpc EXCEPT ![c] = IF seen[c] + 1 >= AwaitCount(c) THEN "idle" ELSE "await"]
  /\ UNCHANGED <<pool, request, calls, next, destructor>>

(* The exception leaves the call; in a task it also ends the task. *)
awaitThrows(c) ==
  /\ cpc[c] = "await"
  /\ future[<<c, calls[c], seen[c] + 1>>] = "error"
  /\ cpc' = [cpc EXCEPT ![c] = "idle"]
  /\ IF c \in Workers
     THEN /\ future' = [future EXCEPT ![running[c]] = "error"]
          /\ running' = [running EXCEPT ![c] = None]
          /\ wpc' = [wpc EXCEPT ![c] = "check"]
     ELSE UNCHANGED <<future, running, wpc>>
  /\ UNCHANGED <<tasks_, request, calls, next, seen, destructor>>

----------------------------------------------------------------------------
(* Workers: worker_main_ *)

Popped(q) == Tail(q)

(* Under tasks_guard_: wait on on_submit_ while the queue is empty, otherwise *)
(* take its first task.  An invalid task makes the worker exit.              *)
Take(w) ==
  LET g == GroupOf[w] IN
  /\ wpc[w] = "check"
  /\ IF tasks_[g] = <<>>
     THEN wpc' = [wpc EXCEPT ![w] = "wait"] /\ UNCHANGED <<tasks_, running, future>>
     ELSE LET t == Head(tasks_[g]) IN
          /\ tasks_' = [tasks_ EXCEPT ![g] = Popped(@)]
          /\ IF t = Invalid
             THEN wpc' = [wpc EXCEPT ![w] = "exited"] /\ UNCHANGED <<running, future>>
             ELSE /\ wpc' = [wpc EXCEPT ![w] = "busy"]
                  /\ running' = [running EXCEPT ![w] = t]
                  /\ future' = [future EXCEPT ![t] = "running"]
  /\ UNCHANGED <<call, destructor>>

SpuriousWakeup(w) ==
  /\ wpc[w] = "wait"
  /\ wpc' = [wpc EXCEPT ![w] = "check"]
  /\ UNCHANGED <<tasks_, running, future, call, destructor>>

Outcomes == IF setup.may_throw THEN {"ready", "error"} ELSE {"ready"}

(* The packaged_task stores the result, or the exception, in its future. *)
Finish(w) ==
  /\ wpc[w] = "busy" /\ cpc[w] = "idle"
  /\ \E result \in Outcomes : future' = [future EXCEPT ![running[w]] = result]
  /\ running' = [running EXCEPT ![w] = None]
  /\ wpc' = [wpc EXCEPT ![w] = "check"]
  /\ UNCHANGED <<tasks_, call, destructor>>

----------------------------------------------------------------------------
(* ~SimpleThreadPool, ~NumaThreadPool *)

(* The last reference is gone: no client is in a call, tasks may be queued. *)
Destroy ==
  /\ dpc = "up"
  /\ \A c \in Clients : cpc[c] = "idle"
  /\ dpc' = "push"
  /\ UNCHANGED <<pool, call, dgroup>>

num_workers_per_node == Cardinality(Workers) \div NumGroups

WithTerminators(q) == q \o [i \in 1 .. num_workers_per_node |-> Invalid]

QueueTerminators ==
  /\ dpc = "push"
  /\ tasks_' = [tasks_ EXCEPT ![dgroup] = WithTerminators(@)]
  /\ dpc' = "notify"
  /\ UNCHANGED <<wpc, running, future, call, dgroup>>

NotifyTerminators ==
  /\ dpc = "notify"
  /\ NotifyAll(dgroup)
  /\ dpc' = IF dgroup + 1 = NumGroups THEN "join" ELSE "push"
  /\ dgroup' = (dgroup + 1) % NumGroups
  /\ UNCHANGED <<tasks_, running, future, call>>

Join ==
  /\ dpc = "join"
  /\ \A w \in Workers : wpc[w] = "exited"
  /\ dpc' = "down"
  /\ UNCHANGED <<pool, call, dgroup>>

(* The pool is gone; nothing is left to do. *)
Gone == dpc = "down" /\ UNCHANGED vars

CallSteps(c) == submit_n(c) \/ Notified(c) \/ await(c) \/ awaitThrows(c)
DestructorSteps == QueueTerminators \/ NotifyTerminators \/ Join

Steps ==
  \/ \E c \in Clients : ClientCalls(c)
  \/ \E w \in Workers : TaskCalls(w)
  \/ \E c \in Callers : CallSteps(c)
  \/ \E w \in Workers : Take(w) \/ SpuriousWakeup(w) \/ Finish(w)
  \/ Destroy
  \/ DestructorSteps
  \/ Gone

Next == Steps /\ UNCHANGED setup

Spec == Init /\ [][Next]_vars

----------------------------------------------------------------------------
(* Properties *)

(* The variables hold values of their types, and a future is running exactly *)
(* while one worker runs its task and queued exactly while one queue has it. *)
TypeOK ==
  /\ setup \in Setups
  /\ tasks_ \in [Groups -> Seq(Tasks \union {Invalid})]
  /\ wpc \in [Workers -> {"check", "wait", "busy", "exited"}]
  /\ running \in [Workers -> Tasks \union {None}]
  /\ future \in [Tasks -> {"none", "queued", "running", "ready", "error"}]
  /\ cpc \in [Callers -> {"idle", "push", "notify", "await"}]
  /\ request \in [Callers -> Calls \union {None}]
  /\ calls \in [Callers -> 0 .. MaxCalls]
  /\ next \in [Callers -> 0 .. MaxSize] /\ seen \in [Callers -> 0 .. MaxSize]
  /\ dpc \in {"up", "push", "notify", "join", "down"} /\ dgroup \in Groups
  /\ \A t \in Tasks :
       /\ Cardinality({w \in Workers : running[w] = t}) = (IF future[t] = "running" THEN 1 ELSE 0)
       /\ Cardinality({p \in Groups \X (1 .. MaxSize * MaxCalls * Cardinality(Callers)) :
                         p[2] \in DOMAIN tasks_[p[1]] /\ tasks_[p[1]][p[2]] = t})
            = (IF future[t] = "queued" THEN 1 ELSE 0)

(* execute and execute_n return normally only when every task of the call    *)
(* has concluded: what the tasks capture by reference is alive while they    *)
(* run.  (When a task throws, await rethrows at once and leaves the others.) *)
ReturnsConcluded ==
  \A c \in Callers :
    cpc[c] = "await" /\ cpc'[c] = "idle" /\ future[<<c, calls[c], seen[c] + 1>>] # "error" =>
      \A i \in 1 .. request[c].size : future[<<c, calls[c], i>>] = "ready"

(* The destructor returns only after every task submitted before it has run: *)
(* the termination tasks queue behind them, in every workgroup.              *)
DrainedAtShutdown ==
  dpc = "down" => \A t \in Tasks : future[t] \in {"none", "ready", "error"}

(* A caller is in a call, a task has not concluded, or the destructor runs. *)
Outstanding ==
  \/ \E c \in Callers : cpc[c] # "idle"
  \/ \E t \in Tasks : future[t] \in {"queued", "running"}
  \/ dpc \notin {"up", "down"}
============================================================================
