----------------------------- MODULE ThreadPool -----------------------------
(***************************************************************************)
(* The persistent thread pool every parallel phase of the compiler runs    *)
(* on: include/persistent_thread_pool.hpp.                                 *)
(*                                                                         *)
(* Grain of atomicity.  _tasks, _pendingTasks and _stop are only touched   *)
(* while _mutex is held, so one critical section is one action.  What      *)
(* happens outside the mutex is an action of its own: running a task,      *)
(* notify_one after enqueue has unlocked, notify_all after stop has        *)
(* unlocked.  Both condition variables are wait sets of threads; a waiting *)
(* thread may wake spuriously, as std::condition_variable allows.          *)
(***************************************************************************)
EXTENDS Naturals, Sequences, FiniteSets

CONSTANTS
  Workers,   (* the threads start() creates                                *)
  Clients,   (* the threads that call enqueue and waitForAllTasks          *)
  Tasks,     (* the callables; each is enqueued at most once               *)
  NoTask     (* "this worker holds no task"                                *)

(* start() is called with hardware_concurrency() threads; the pool is of
   use only when that is not zero. *)
ASSUME ThreadPoolAssumption ==
  /\ IsFiniteSet(Workers) /\ Workers # {}
  /\ NoTask \notin Tasks

VARIABLES
  tasks,         (* _tasks: the FIFO queue                                 *)
  pendingTasks,  (* _pendingTasks                                          *)
  stop,          (* _stop                                                  *)
  worker,        (* where each worker is in the loop of start()            *)
  held,          (* the task each worker has popped                        *)
  client,        (* what each client thread is inside of                   *)
  destructor,    (* how far the thread that destroys the pool has come     *)
  ready          (* the tasks whose std::future is ready                   *)

vars == <<tasks, pendingTasks, stop, worker, held, client, destructor, ready>>

queued    == {tasks[i] : i \in DOMAIN tasks}
Busy      == {w \in Workers : worker[w] \in {"running", "finishing"}}
submitted == queued \cup {held[w] : w \in Busy} \cup ready

Init ==
  /\ tasks = <<>>
  /\ pendingTasks = 0
  /\ stop = FALSE
  /\ worker = [w \in Workers |-> "ready"]
  /\ held = [w \in Workers |-> NoTask]
  /\ client = [c \in Clients |-> "idle"]
  /\ destructor = "alive"
  /\ ready = {}

----------------------------------------
(* Client threads. *)

(* Mutant of Enqueue: ++_pendingTasks is forgotten. *)
EnqueueUncounted(c, t) ==
  /\ client[c] = "idle" /\ destructor = "alive"
  /\ t \notin submitted
  /\ tasks' = Append(tasks, t)
  /\ client' = [client EXCEPT ![c] = "notifying"]
  /\ UNCHANGED <<pendingTasks, stop, worker, held, destructor, ready>>

(* The critical section of enqueue.  The pool is an object with static
   storage: nobody calls it once its destructor has begun. *)
Enqueue(c, t) ==
  /\ client[c] = "idle" /\ destructor = "alive"
  /\ t \notin submitted
  /\ tasks' = Append(tasks, t)
  /\ pendingTasks' = pendingTasks + 1
  /\ client' = [client EXCEPT ![c] = "notifying"]
  /\ UNCHANGED <<stop, worker, held, destructor, ready>>

(* _condition.notify_one(), after the lock_guard's scope has ended. *)
NotifyOne(c) ==
  /\ client[c] = "notifying"
  /\ client' = [client EXCEPT ![c] = "idle"]
  /\ IF \E w \in Workers : worker[w] = "asleep"
       THEN \E w \in Workers :
              /\ worker[w] = "asleep"
              /\ worker' = [worker EXCEPT ![w] = "ready"]
       ELSE UNCHANGED worker
  /\ UNCHANGED <<tasks, pendingTasks, stop, held, destructor, ready>>

(* Mutant of AllDone: only the queue is looked at. *)
QueueEmpty == tasks = <<>>

AllDone == pendingTasks = 0 /\ tasks = <<>>

(* A call of waitForAllTasks, up to the lock. *)
WaitForAllTasks(c) ==
  /\ client[c] = "idle" /\ destructor = "alive"
  /\ client' = [client EXCEPT ![c] = "checking"]
  /\ UNCHANGED <<tasks, pendingTasks, stop, worker, held, destructor, ready>>

(* _allTasksDone.wait evaluates its predicate under the lock: it returns,
   or it releases the lock and sleeps in one step. *)
CheckAllDone(c) ==
  /\ client[c] = "checking"
  /\ client' = [client EXCEPT ![c] = IF AllDone THEN "idle" ELSE "asleep"]
  /\ UNCHANGED <<tasks, pendingTasks, stop, worker, held, destructor, ready>>

----------------------------------------
(* Worker threads: the loop of start(). *)

(* Mutant of Sleep: the wait has no predicate. *)
SleepUnchecked(w) ==
  /\ worker[w] = "ready"
  /\ ~stop
  /\ worker' = [worker EXCEPT ![w] = "asleep"]
  /\ UNCHANGED <<tasks, pendingTasks, stop, held, client, destructor, ready>>

(* _condition.wait with a false predicate. *)
Sleep(w) ==
  /\ worker[w] = "ready"
  /\ ~stop /\ tasks = <<>>
  /\ worker' = [worker EXCEPT ![w] = "asleep"]
  /\ UNCHANGED <<tasks, pendingTasks, stop, held, client, destructor, ready>>

(* A stopped worker leaves only when the queue is drained. *)
Exit(w) ==
  /\ worker[w] = "ready"
  /\ stop /\ tasks = <<>>
  /\ worker' = [worker EXCEPT ![w] = "exited"]
  /\ UNCHANGED <<tasks, pendingTasks, stop, held, client, destructor, ready>>

(* Mutant of Take: the newest task first. *)
TakeNewest(w) ==
  /\ worker[w] = "ready"
  /\ tasks # <<>>
  /\ held' = [held EXCEPT ![w] = tasks[Len(tasks)]]
  /\ tasks' = SubSeq(tasks, 1, Len(tasks) - 1)
  /\ worker' = [worker EXCEPT ![w] = "running"]
  /\ UNCHANGED <<pendingTasks, stop, client, destructor, ready>>

Take(w) ==
  /\ worker[w] = "ready"
  /\ tasks # <<>>
  /\ held' = [held EXCEPT ![w] = Head(tasks)]
  /\ tasks' = Tail(tasks)
  /\ worker' = [worker EXCEPT ![w] = "running"]
  /\ UNCHANGED <<pendingTasks, stop, client, destructor, ready>>

(* task() returns: the packaged_task has stored the result (or the
   exception) and its future is ready, before the counter is touched. *)
Run(w) ==
  /\ worker[w] = "running"
  /\ ready' = ready \cup {held[w]}
  /\ worker' = [worker EXCEPT ![w] = "finishing"]
  /\ UNCHANGED <<tasks, pendingTasks, stop, held, client, destructor>>

(* --_pendingTasks and, when everything is done, notify_all, all under the
   lock. *)
Finish(w) ==
  /\ worker[w] = "finishing"
  /\ pendingTasks' = pendingTasks - 1
  /\ held' = [held EXCEPT ![w] = NoTask]
  /\ worker' = [worker EXCEPT ![w] = "ready"]
  /\ client' = IF pendingTasks' = 0 /\ tasks = <<>>
                 THEN [c \in Clients |-> IF client[c] = "asleep" THEN "checking"
                                                                 ELSE client[c]]
                 ELSE client
  /\ UNCHANGED <<tasks, stop, destructor, ready>>

----------------------------------------
(* The thread that destroys the pool: stop().  The object's lifetime ends
   only when no call of a client is in progress. *)

BeginStop ==
  /\ destructor = "alive"
  /\ \A c \in Clients : client[c] = "idle"
  /\ stop' = TRUE
  /\ destructor' = "notifying"
  /\ UNCHANGED <<tasks, pendingTasks, worker, held, client, ready>>

NotifyAll ==
  /\ destructor = "notifying"
  /\ worker' = [w \in Workers |-> IF worker[w] = "asleep" THEN "ready" ELSE worker[w]]
  /\ destructor' = "joining"
  /\ UNCHANGED <<tasks, pendingTasks, stop, held, client, ready>>

(* The loop over worker.join() ends once every worker has returned. *)
JoinAll ==
  /\ destructor = "joining"
  /\ \A w \in Workers : worker[w] = "exited"
  /\ destructor' = "joined"
  /\ UNCHANGED <<tasks, pendingTasks, stop, worker, held, client, ready>>

----------------------------------------
(* The process has ended: the one state in which nothing more happens. *)
Ended == destructor = "joined" /\ UNCHANGED vars

(* Spurious wake-ups of the two condition variables. *)

SpuriousWorker(w) ==
  /\ worker[w] = "asleep"
  /\ worker' = [worker EXCEPT ![w] = "ready"]
  /\ UNCHANGED <<tasks, pendingTasks, stop, held, client, destructor, ready>>

SpuriousClient(c) ==
  /\ client[c] = "asleep"
  /\ client' = [client EXCEPT ![c] = "checking"]
  /\ UNCHANGED <<tasks, pendingTasks, stop, worker, held, destructor, ready>>

----------------------------------------
WorkerStep(w) == Sleep(w) \/ Exit(w) \/ Take(w) \/ Run(w) \/ Finish(w)

Next ==
  \/ \E c \in Clients, t \in Tasks : Enqueue(c, t)
  \/ \E c \in Clients : NotifyOne(c) \/ WaitForAllTasks(c) \/ CheckAllDone(c)
                          \/ SpuriousClient(c)
  \/ \E w \in Workers : WorkerStep(w) \/ SpuriousWorker(w)
  \/ BeginStop \/ NotifyAll \/ JoinAll
  \/ Ended

(* The operating system schedules every thread that can run, and tasks
   return.  Nothing obliges a client to call anything, nor the process to
   end, nor a thread to wake spuriously. *)
Fairness ==
  /\ \A w \in Workers : WF_vars(WorkerStep(w))
  /\ \A c \in Clients : WF_vars(NotifyOne(c)) /\ WF_vars(CheckAllDone(c))
  /\ WF_vars(NotifyAll) /\ WF_vars(JoinAll)

Spec == Init /\ [][Next]_vars

FairSpec == Spec /\ Fairness

----------------------------------------
(* Properties. *)

(* Type correctness of the pool's fields and of the thread positions. *)
TypeOK ==
  /\ tasks \in Seq(Tasks)
  /\ pendingTasks \in Nat
  /\ stop \in BOOLEAN
  /\ worker \in [Workers -> {"ready", "asleep", "running", "finishing", "exited"}]
  /\ held \in [Workers -> Tasks \cup {NoTask}]
  /\ client \in [Clients -> {"idle", "notifying", "checking", "asleep"}]
  /\ destructor \in {"alive", "notifying", "joining", "joined"}
  /\ ready \subseteq Tasks

(* _pendingTasks, which is counted up by enqueue and down by another
   thread much later, is the number of tasks queued or in a worker's
   hands: the size_t never wraps and waitForAllTasks trusts a true count. *)
PendingIsOutstanding == pendingTasks = Len(tasks) + Cardinality(Busy)

(* No task is ever in two places: queued twice, queued and popped, popped
   by two workers, or run again after its future is ready (a second call
   of a packaged_task throws). *)
EachTaskOnce ==
  /\ \A i, j \in DOMAIN tasks : tasks[i] = tasks[j] => i = j
  /\ \A v, w \in Busy : held[v] = held[w] => v = w
  /\ \A w \in Busy : held[w] \notin queued
  /\ queued \cap ready = {}
  /\ \A w \in Busy : worker[w] = "running" => held[w] \notin ready

(* No lost wake-up: a queue that is not empty never finds every worker
   asleep with nobody about to notify, although notify_one is called after
   the mutex is released; a stopped pool has no sleeping worker left once
   notify_all is done; a sleeping waitForAllTasks has something to wait
   for. *)
NoLostWakeup ==
  /\ tasks # <<>> => \/ \E w \in Workers : worker[w] \notin {"asleep", "exited"}
                     \/ \E c \in Clients : client[c] = "notifying"
                     \/ destructor = "notifying"
  /\ destructor \in {"joining", "joined"} => \A w \in Workers : worker[w] # "asleep"
  /\ (\E c \in Clients : client[c] = "asleep") => ~AllDone

(* The destructor drains the queue: no worker leaves while a task is
   queued, and when the workers are joined no future is left unready and
   the counter is back at zero. *)
StopDrains ==
  /\ (\E w \in Workers : worker[w] = "exited") => stop /\ tasks = <<>>
  /\ destructor = "joined" => pendingTasks = 0 /\ submitted \subseteq ready

(* The pool keeps its books: the counter is exact, each task is in one
   place, no wake-up is lost, and the destructor drains the queue. *)
PoolIsSafe ==
  TypeOK /\ PendingIsOutstanding /\ EachTaskOnce /\ NoLostWakeup /\ StopDrains

(* "Blocks until all tasks in the queue have been completed": when a call
   of waitForAllTasks returns, every task handed in so far has its future
   ready. *)
WaitReturnsWhenDone ==
  [][\A c \in Clients : client[c] = "checking" /\ client'[c] = "idle"
       => submitted \subseteq ready]_vars

(* Every enqueued task is eventually run, whatever the others do. *)
EveryTaskRuns == \A t \in Tasks : t \in queued ~> t \in ready

(* A call of waitForAllTasks returns, as long as clients do not keep
   enqueueing (there are finitely many tasks). *)
WaitReturns == \A c \in Clients : client[c] = "checking" ~> client[c] = "idle"

(* The destructor's join terminates. *)
StopTerminates == stop ~> destructor = "joined"

(* Nobody waits for ever: tasks run, waits return, and the destructor
   comes to its end. *)
PoolIsLive == EveryTaskRuns /\ WaitReturns /\ StopTerminates

----------------------------------------
(* The pool implements the abstract one: a task is running from the moment
   a worker has popped it until its future is ready. *)
Service == INSTANCE TaskPool WITH
  Width   <- Cardinality(Workers),
  waiting <- tasks,
  running <- {held[w] : w \in {v \in Workers : worker[v] = "running"}},
  done    <- ready,
  phase   <- CASE destructor = "alive"  -> "open"
               [] destructor = "joined" -> "closed"
               [] OTHER                 -> "closing"

(* Every behaviour of the pool, its scheduling included, is a behaviour of
   the abstract pool: FIFO starts, bounded width, run exactly once, drain
   before closing, and progress. *)
ImplementsService == Service!FairSpec
=============================================================================
