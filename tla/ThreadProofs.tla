---------------------------- MODULE ThreadProofs ----------------------------
(***************************************************************************)
(* Proofs about the threads of the compiler, which a pool keeps, about the *)
(* stack a thread of a generated program calls functions on, and about the *)
(* errors that end its functions.                                          *)
(*                                                                         *)
(* The pool, for any finite number of workers and any clients and tasks:   *)
(* PoolInv is the inductive invariant; the comments at its conjuncts say   *)
(* what each is needed for.                                                *)
(*                                                                         *)
(* Calls lose no value but those a rethrow or a thrown literal leaves      *)
(* behind, and the frames of running functions stay apart.  The invariant  *)
(* has two parts.  Frames says where every frame is, which function waits  *)
(* for which and where the error of a handler is.  Contents says what the  *)
(* slots of every function stand for while the functions above it change   *)
(* what they were lent, who keeps each value, that a parameter stands for  *)
(* something a caller keeps, and that one which may be changed has no      *)
(* other name.  Both are about a whole stack of functions: a step changes  *)
(* its top, and the lemmas say what stays true below.                      *)
(*                                                                         *)
(* An error keeps its name, for every family of error sets and every       *)
(* function that throws anonymous errors, in programs that do none of what *)
(* ErrorsCareless lists.  The recursive functions of ErrorNode are defined *)
(* along the parents, which is a forest: their equations and what follows  *)
(* for every set come from the lemmas on trees in DataTheorems.  From      *)
(* those, a value of a set has one number, below the count of the set, no  *)
(* other value of the set has it, a set that extends this one keeps it,    *)
(* and it leads back to the name.  The invariant is then that the number   *)
(* in the error is that of the value the program named.                    *)
(***************************************************************************)
EXTENDS ThreadPool, Calls, ErrorSets, DataTheorems, FiniteSetTheorems, TLAPS

----------------------------------------
(* The thread pool. *)

(* A worker holds a task exactly while it is busy with it. *)
HeldIffBusy == \A w \in Workers : w \in Busy <=> held[w] \in Tasks

(* _stop is set by the destructor, which runs when no client call does. *)
StopAfterClients ==
  /\ stop <=> destructor # "alive"
  /\ destructor # "alive" => \A c \in Clients : client[c] = "idle"
  /\ destructor = "joined" => \A w \in Workers : worker[w] = "exited"

PoolInv ==
  /\ TypeOK
  /\ HeldIffBusy
  /\ PendingIsOutstanding
  /\ EachTaskOnce
  /\ StopAfterClients
  /\ NoLostWakeup
  /\ StopDrains

----------------------------------------
(* Counting the busy workers. *)

(* The busy workers can be counted. *)
LEMMA BusyFinite == IsFiniteSet(Busy) /\ Cardinality(Busy) \in Nat
BY ThreadPoolAssumption, FS_Subset, FS_CardinalityType DEF Busy

(* The counter is positive while something is queued or in hand. *)
LEMMA OutstandingIsPositive ==
  ASSUME TypeOK, PendingIsOutstanding
  PROVE  /\ tasks # <<>> => pendingTasks > 0
         /\ Busy # {} => pendingTasks > 0
         /\ AllDone <=> tasks = <<>> /\ Busy = {}
<1>1. Len(tasks) \in Nat /\ (tasks = <<>> => Len(tasks) = 0)
                         /\ (tasks # <<>> => Len(tasks) > 0)
  BY LenProperties, EmptySeq DEF TypeOK
<1>2. Cardinality(Busy) \in Nat /\ (Cardinality(Busy) = 0 <=> Busy = {})
  BY BusyFinite, FS_EmptySet
<1>3. pendingTasks = Len(tasks) + Cardinality(Busy)
  BY DEF PendingIsOutstanding
<1>4. tasks # <<>> => pendingTasks > 0
  BY <1>1, <1>2, <1>3
<1>5. Busy # {} => pendingTasks > 0
  BY <1>1, <1>2, <1>3
<1>6. tasks = <<>> /\ Busy = {} => pendingTasks = 0
  BY <1>1, <1>2, <1>3
<1>7. pendingTasks = 0 => Busy = {}
  BY <1>5
<1>. QED BY <1>4, <1>5, <1>6, <1>7 DEF AllDone

(* The pool starts with nothing to do. *)
LEMMA PoolInitInv == Init => PoolInv
<1>. SUFFICES ASSUME Init PROVE PoolInv
  OBVIOUS
<1>1. Busy = {} /\ Cardinality(Busy) = 0 /\ Len(tasks) = 0
  BY FS_EmptySet DEF Init, Busy
<1>2. TypeOK
  BY EmptySeq DEF Init, TypeOK
<1>3. HeldIffBusy
  BY ThreadPoolAssumption DEF Init, HeldIffBusy, Busy
<1>4. PendingIsOutstanding
  BY <1>1 DEF Init, PendingIsOutstanding
<1>5. EachTaskOnce
  BY <1>1 DEF Init, EachTaskOnce, queued
<1>6. StopAfterClients /\ NoLostWakeup /\ StopDrains
  BY DEF Init, StopAfterClients, NoLostWakeup, StopDrains
<1>. QED BY <1>2, <1>3, <1>4, <1>5, <1>6 DEF PoolInv

(* Steps that move only threads: nothing queued, held or counted changes. *)
LEMMA FrameInv ==
  ASSUME PoolInv, UNCHANGED <<tasks, pendingTasks, held, ready>>,
         \A w \in Workers : (w \in Busy)' <=> w \in Busy,
         \A w \in Workers : worker'[w] = "running" <=> worker[w] = "running"
  PROVE  HeldIffBusy' /\ PendingIsOutstanding' /\ EachTaskOnce'
<1>1. Busy' = Busy
  BY DEF Busy
<1>2. HeldIffBusy'
  BY <1>1 DEF PoolInv, HeldIffBusy
<1>3. PendingIsOutstanding'
  BY <1>1 DEF PoolInv, PendingIsOutstanding
<1>4. EachTaskOnce'
  BY <1>1 DEF PoolInv, EachTaskOnce, queued, Busy
<1>. QED BY <1>2, <1>3, <1>4

(* A task is counted when it is queued. *)
LEMMA EnqueueInv ==
  ASSUME PoolInv, NEW c \in Clients, NEW t \in Tasks, Enqueue(c, t)
  PROVE  PoolInv'
<1>. USE DEF Enqueue
<1>1. tasks \in Seq(Tasks) /\ t \notin Elems(tasks)
  BY DEF PoolInv, TypeOK, submitted, queued, Elems
<1>2. /\ tasks' \in Seq(Tasks) /\ Len(tasks') = Len(tasks) + 1 /\ tasks' # <<>>
      /\ Elems(tasks') = Elems(tasks) \cup {t}
      /\ (\A i, j \in DOMAIN tasks : tasks[i] = tasks[j] => i = j)
           => \A i, j \in DOMAIN tasks' : tasks'[i] = tasks'[j] => i = j
  BY <1>1, AppendElems, AppendProperties
<1>3. Busy' = Busy
  BY DEF Busy
<1>4. TypeOK'
  BY <1>2 DEF PoolInv, TypeOK
<1>5. HeldIffBusy'
  BY <1>3 DEF PoolInv, HeldIffBusy
<1>6. PendingIsOutstanding'
  BY <1>1, <1>2, <1>3, BusyFinite, LenProperties DEF PoolInv, TypeOK, PendingIsOutstanding
<1>7. EachTaskOnce'
  <2>1. t \notin ready /\ \A w \in Busy : held[w] # t
    BY DEF submitted
  <2>2. queued = Elems(tasks) /\ queued' = Elems(tasks')
    BY DEF queued, Elems
  <2>. QED BY <1>2, <1>3, <2>1, <2>2 DEF PoolInv, EachTaskOnce
<1>8. StopAfterClients'
  BY DEF PoolInv, StopAfterClients
<1>9. NoLostWakeup'
  <2>1. client'[c] = "notifying"
    BY DEF PoolInv, TypeOK
  <2>2. ~AllDone'
    BY <1>2 DEF AllDone
  <2>. QED BY <2>1, <2>2 DEF PoolInv, NoLostWakeup
<1>10. StopDrains'
  BY DEF PoolInv, StopDrains, StopAfterClients
<1>. QED BY <1>4, <1>5, <1>6, <1>7, <1>8, <1>9, <1>10 DEF PoolInv

(* A task goes from the queue to a hand, and the counter stays. *)
LEMMA TakeInv ==
  ASSUME PoolInv, NEW w \in Workers, Take(w)
  PROVE  PoolInv'
<1>. USE DEF Take
<1>1. tasks \in Seq(Tasks) /\ tasks # <<>>
  BY DEF PoolInv, TypeOK
<1>2. /\ Head(tasks) \in Tasks /\ tasks' \in Seq(Tasks)
      /\ Len(tasks') = Len(tasks) - 1
      /\ Elems(tasks) = Elems(tasks') \cup {Head(tasks)}
      /\ (\A i, j \in DOMAIN tasks : tasks[i] = tasks[j] => i = j)
           => /\ Head(tasks) \notin Elems(tasks')
              /\ \A i, j \in DOMAIN tasks' : tasks'[i] = tasks'[j] => i = j
  BY <1>1, TailElems
<1>3. w \notin Busy /\ Busy' = Busy \cup {w}
  BY DEF PoolInv, TypeOK, Busy
<1>4. Cardinality(Busy') = Cardinality(Busy) + 1
  BY <1>3, BusyFinite, FS_AddElement
<1>5. TypeOK'
  BY <1>2 DEF PoolInv, TypeOK
<1>6. HeldIffBusy'
  BY <1>2, <1>3 DEF PoolInv, HeldIffBusy, TypeOK
<1>7. PendingIsOutstanding'
  BY <1>1, <1>2, <1>4, BusyFinite, LenProperties DEF PoolInv, TypeOK, PendingIsOutstanding
<1>8. EachTaskOnce'
  <2>1. queued = Elems(tasks) /\ queued' = Elems(tasks')
    BY DEF queued, Elems
  <2>2. held'[w] = Head(tasks) /\ \A v \in Workers \ {w} : held'[v] = held[v]
    BY DEF PoolInv, TypeOK
  <2>3. Head(tasks) \in queued /\ Head(tasks) \notin queued' /\ queued' \subseteq queued
    BY <1>2, <2>1 DEF PoolInv, EachTaskOnce
  <2>4. \A v \in Busy : v \in Workers \ {w} /\ held'[v] = held[v]
                        /\ held[v] \notin queued
    BY <1>3, <2>2 DEF PoolInv, EachTaskOnce, Busy
  <2>5. \A u, v \in Busy' : held'[u] = held'[v] => u = v
    BY <1>3, <2>2, <2>3, <2>4 DEF PoolInv, EachTaskOnce
  <2>6. \A v \in Busy' : held'[v] \notin queued'
    BY <1>3, <2>2, <2>3, <2>4
  <2>7. queued' \cap ready' = {}
    BY <2>3 DEF PoolInv, EachTaskOnce
  <2>8. \A v \in Busy' : worker'[v] = "running" => held'[v] \notin ready'
    BY <1>3, <2>2, <2>3, <2>4 DEF PoolInv, EachTaskOnce
  <2>. QED BY <1>2, <2>5, <2>6, <2>7, <2>8 DEF PoolInv, EachTaskOnce
<1>9. StopAfterClients'
  BY DEF PoolInv, StopAfterClients
<1>10. NoLostWakeup'
  <2>1. worker'[w] = "running"
    BY DEF PoolInv, TypeOK
  <2>2. ~AllDone'
    <3>1. pendingTasks > 0
      BY <1>1, OutstandingIsPositive DEF PoolInv
    <3>. QED BY <3>1 DEF AllDone, PoolInv, TypeOK
  <2>. QED BY <2>1, <2>2 DEF PoolInv, NoLostWakeup, TypeOK
<1>11. StopDrains'
  BY <1>1 DEF PoolInv, StopDrains, StopAfterClients, TypeOK
<1>. QED BY <1>5, <1>6, <1>7, <1>8, <1>9, <1>10, <1>11 DEF PoolInv

(* Running a task moves it from its worker to the finished ones. *)
LEMMA RunInv ==
  ASSUME PoolInv, NEW w \in Workers, Run(w)
  PROVE  PoolInv'
<1>. USE DEF Run
<1>1. w \in Busy /\ held[w] \in Tasks /\ Busy' = Busy
  BY DEF PoolInv, HeldIffBusy, TypeOK, Busy
<1>2. TypeOK'
  BY <1>1 DEF PoolInv, TypeOK
<1>3. HeldIffBusy' /\ PendingIsOutstanding'
  BY <1>1 DEF PoolInv, HeldIffBusy, PendingIsOutstanding
<1>4. EachTaskOnce'
  <2>1. queued' = queued /\ held[w] \notin queued
    BY <1>1 DEF PoolInv, EachTaskOnce, queued
  <2>2. \A v \in Busy' : worker'[v] = "running" => v # w /\ worker[v] = "running"
    BY <1>1 DEF PoolInv, TypeOK, Busy
  <2>3. \A v \in Busy' : worker'[v] = "running" => held'[v] \notin ready'
    BY <1>1, <2>2 DEF PoolInv, EachTaskOnce
  <2>. QED BY <1>1, <2>1, <2>3 DEF PoolInv, EachTaskOnce
<1>5. StopAfterClients' /\ StopDrains'
  BY DEF PoolInv, StopAfterClients, StopDrains, TypeOK
<1>6. NoLostWakeup'
  BY DEF PoolInv, NoLostWakeup, TypeOK, AllDone
<1>. QED BY <1>2, <1>3, <1>4, <1>5, <1>6 DEF PoolInv

(* The counter goes down when the hand is empty. *)
LEMMA FinishInv ==
  ASSUME PoolInv, NEW w \in Workers, Finish(w)
  PROVE  PoolInv'
<1>. USE DEF Finish
<1>1. w \in Busy /\ Busy' = Busy \ {w}
  BY DEF PoolInv, TypeOK, Busy
<1>2. Cardinality(Busy') = Cardinality(Busy) - 1
  BY <1>1, BusyFinite, FS_RemoveElement
<1>3. pendingTasks > 0
  BY <1>1, OutstandingIsPositive DEF PoolInv
<1>4. TypeOK'
  <2>1. client' \in [Clients -> {"idle", "notifying", "checking", "asleep"}]
    BY DEF PoolInv, TypeOK
  <2>. QED BY <1>3, <2>1 DEF PoolInv, TypeOK
<1>5. HeldIffBusy'
  BY <1>1, ThreadPoolAssumption DEF PoolInv, HeldIffBusy, TypeOK, Busy
<1>6. PendingIsOutstanding'
  BY <1>2, <1>3, BusyFinite, LenProperties DEF PoolInv, TypeOK, PendingIsOutstanding
<1>7. EachTaskOnce'
  BY <1>1 DEF PoolInv, EachTaskOnce, queued, TypeOK, Busy
<1>8. StopAfterClients' /\ StopDrains'
  <2>1. destructor # "alive" => client' = client
    BY DEF PoolInv, TypeOK, StopAfterClients
  <2>2. destructor # "joined"
    BY <1>1 DEF PoolInv, StopAfterClients, Busy
  <2>. QED BY <2>1, <2>2 DEF PoolInv, StopAfterClients, StopDrains, TypeOK
<1>9. NoLostWakeup'
  <2>1. worker'[w] = "ready"
    BY DEF PoolInv, TypeOK
  <2>2. (\E c \in Clients : client'[c] = "asleep") => ~AllDone'
    BY DEF AllDone, PoolInv, TypeOK
  <2>3. destructor' \in {"joining", "joined"} => \A v \in Workers : worker'[v] # "asleep"
    BY DEF PoolInv, NoLostWakeup, TypeOK
  <2>. QED BY <2>1, <2>2, <2>3 DEF NoLostWakeup
<1>. QED BY <1>4, <1>5, <1>6, <1>7, <1>8, <1>9 DEF PoolInv

(* A worker that waits, leaves, or wakes up. *)
LEMMA SleepInv ==
  ASSUME PoolInv, NEW w \in Workers, Sleep(w)
  PROVE  PoolInv'
<1>. USE DEF Sleep
<1>1. \A v \in Workers : /\ (v \in Busy)' <=> v \in Busy
                         /\ worker'[v] = "running" <=> worker[v] = "running"
                         /\ worker'[v] = "exited" <=> worker[v] = "exited"
  BY DEF PoolInv, TypeOK, Busy
<1>2. HeldIffBusy' /\ PendingIsOutstanding' /\ EachTaskOnce'
  BY <1>1, FrameInv
<1>3. TypeOK' /\ StopAfterClients'
  BY <1>1 DEF PoolInv, TypeOK, StopAfterClients
<1>4. NoLostWakeup'
  BY DEF PoolInv, NoLostWakeup, StopAfterClients, AllDone
<1>5. StopDrains'
  BY <1>1 DEF PoolInv, StopDrains, StopAfterClients
<1>. QED BY <1>2, <1>3, <1>4, <1>5 DEF PoolInv

(* A worker only goes when the queue is empty. *)
LEMMA ExitInv ==
  ASSUME PoolInv, NEW w \in Workers, Exit(w)
  PROVE  PoolInv'
<1>. USE DEF Exit
<1>1. \A v \in Workers : /\ (v \in Busy)' <=> v \in Busy
                         /\ worker'[v] = "running" <=> worker[v] = "running"
                         /\ worker'[v] = "asleep" <=> worker[v] = "asleep"
                         /\ worker[v] = "exited" => worker'[v] = "exited"
  BY DEF PoolInv, TypeOK, Busy
<1>2. HeldIffBusy' /\ PendingIsOutstanding' /\ EachTaskOnce'
  BY <1>1, FrameInv
<1>3. TypeOK' /\ StopAfterClients'
  BY <1>1 DEF PoolInv, TypeOK, StopAfterClients
<1>4. NoLostWakeup'
  BY <1>1 DEF PoolInv, NoLostWakeup, AllDone
<1>5. StopDrains'
  <2>1. submitted' = submitted
    <3>1. Busy' = Busy
      BY <1>1 DEF Busy
    <3>. QED BY <3>1 DEF submitted, queued
  <2>. QED BY <2>1 DEF PoolInv, StopDrains
<1>. QED BY <1>2, <1>3, <1>4, <1>5 DEF PoolInv

(* Waking up changes where a thread is, and nothing else. *)
LEMMA WakeInv ==
  ASSUME PoolInv, NEW w \in Workers, worker[w] = "asleep",
         worker' = [worker EXCEPT ![w] = "ready"],
         NEW cl \in [Clients -> {"idle", "notifying", "checking", "asleep"}],
         client' = cl,
         \A c \in Clients : client[c] = "idle" => client'[c] = "idle",
         \A c \in Clients : client'[c] = "asleep" => client[c] = "asleep",
         UNCHANGED <<tasks, pendingTasks, stop, held, destructor, ready>>
  PROVE  PoolInv'
<1>1. \A v \in Workers : /\ (v \in Busy)' <=> v \in Busy
                         /\ worker'[v] = "running" <=> worker[v] = "running"
                         /\ worker'[v] = "asleep" => worker[v] = "asleep"
                         /\ worker'[v] = "exited" <=> worker[v] = "exited"
  BY DEF PoolInv, TypeOK, Busy
<1>2. HeldIffBusy' /\ PendingIsOutstanding' /\ EachTaskOnce'
  BY <1>1, FrameInv
<1>3. TypeOK' /\ StopAfterClients'
  BY <1>1 DEF PoolInv, TypeOK, StopAfterClients
<1>4. NoLostWakeup'
  <2>1. worker'[w] = "ready"
    BY DEF PoolInv, TypeOK
  <2>. QED BY <1>1, <2>1 DEF PoolInv, NoLostWakeup, AllDone
<1>5. StopDrains'
  BY <1>1 DEF PoolInv, StopDrains, StopAfterClients
<1>. QED BY <1>2, <1>3, <1>4, <1>5 DEF PoolInv

(* A client that moves while no worker does. *)
LEMMA ClientInv ==
  ASSUME PoolInv, NEW c \in Clients, NotifyOne(c) \/ WaitForAllTasks(c) \/ CheckAllDone(c)
                                   \/ SpuriousClient(c)
  PROVE  PoolInv'
<1>1. CASE NotifyOne(c) /\ \E w \in Workers : worker[w] = "asleep"
  <2>1. PICK w \in Workers : /\ worker[w] = "asleep"
                             /\ worker' = [worker EXCEPT ![w] = "ready"]
    BY <1>1 DEF NotifyOne
  <2>2. client' \in [Clients -> {"idle", "notifying", "checking", "asleep"}]
    BY <1>1 DEF NotifyOne, PoolInv, TypeOK
  <2>3. /\ \A d \in Clients : client[d] = "idle" => client'[d] = "idle"
        /\ \A d \in Clients : client'[d] = "asleep" => client[d] = "asleep"
    BY <1>1 DEF NotifyOne, PoolInv, TypeOK
  <2>. QED BY <1>1, <2>1, <2>2, <2>3, WakeInv DEF NotifyOne
<1>2. CASE NotifyOne(c) /\ ~ \E w \in Workers : worker[w] = "asleep"
  <2>1. UNCHANGED <<tasks, pendingTasks, stop, worker, held, destructor, ready>>
    BY <1>2 DEF NotifyOne
  <2>2. HeldIffBusy' /\ PendingIsOutstanding' /\ EachTaskOnce'
    BY <2>1, FrameInv DEF Busy
  <2>3. TypeOK' /\ StopAfterClients' /\ StopDrains'
    BY <1>2, <2>1 DEF NotifyOne, PoolInv, TypeOK, StopAfterClients, StopDrains,
                       submitted, queued, Busy
  <2>4. NoLostWakeup'
    <3>1. tasks # <<>> => \E w \in Workers : worker[w] \notin {"asleep", "exited"}
      BY <1>2, ThreadPoolAssumption DEF PoolInv, StopDrains
    <3>2. \A d \in Clients : client'[d] = "asleep" => client[d] = "asleep"
      BY <1>2 DEF NotifyOne, PoolInv, TypeOK
    <3>. QED BY <1>2, <2>1, <3>1, <3>2 DEF PoolInv, NoLostWakeup, AllDone
  <2>. QED BY <2>2, <2>3, <2>4 DEF PoolInv
<1>3. CASE WaitForAllTasks(c) \/ CheckAllDone(c) \/ SpuriousClient(c)
  <2>1. UNCHANGED <<tasks, pendingTasks, stop, worker, held, destructor, ready>>
    BY <1>3 DEF WaitForAllTasks, CheckAllDone, SpuriousClient
  <2>2. HeldIffBusy' /\ PendingIsOutstanding' /\ EachTaskOnce'
    BY <2>1, FrameInv DEF Busy
  <2>3. destructor = "alive"
    BY <1>3 DEF WaitForAllTasks, CheckAllDone, SpuriousClient, PoolInv, StopAfterClients
  <2>4. TypeOK' /\ StopAfterClients' /\ StopDrains'
    BY <1>3, <2>1, <2>3 DEF WaitForAllTasks, CheckAllDone, SpuriousClient, PoolInv, TypeOK,
                            StopAfterClients, StopDrains
  <2>5. NoLostWakeup'
    <3>1. \A d \in Clients : /\ client[d] = "notifying" => client'[d] = "notifying"
                             /\ client'[d] = "asleep" => client[d] = "asleep" \/ ~AllDone
      BY <1>3 DEF WaitForAllTasks, CheckAllDone, SpuriousClient, PoolInv, TypeOK
    <3>. QED BY <2>1, <3>1 DEF PoolInv, NoLostWakeup, AllDone
  <2>. QED BY <2>2, <2>4, <2>5 DEF PoolInv
<1>. QED BY <1>1, <1>2, <1>3

(* The steps of stop(). *)
LEMMA StopInv ==
  ASSUME PoolInv, BeginStop \/ NotifyAll \/ JoinAll
  PROVE  PoolInv'
<1>1. \A v \in Workers : /\ (v \in Busy)' <=> v \in Busy
                         /\ worker'[v] = "running" <=> worker[v] = "running"
                         /\ worker'[v] = "exited" <=> worker[v] = "exited"
  BY DEF BeginStop, NotifyAll, JoinAll, PoolInv, TypeOK, Busy
<1>2. HeldIffBusy' /\ PendingIsOutstanding' /\ EachTaskOnce'
  BY <1>1, FrameInv DEF BeginStop, NotifyAll, JoinAll
<1>3. TypeOK' /\ StopAfterClients'
  BY <1>1 DEF BeginStop, NotifyAll, JoinAll, PoolInv, TypeOK, StopAfterClients
<1>4. NoLostWakeup'
  <2>1. CASE BeginStop
    BY <2>1 DEF BeginStop, PoolInv, NoLostWakeup, AllDone
  <2>2. CASE NotifyAll
    <3>1. \A w \in Workers : worker'[w] # "asleep"
      BY <2>2 DEF NotifyAll, PoolInv, TypeOK
    <3>2. tasks # <<>> => \E w \in Workers : worker'[w] \notin {"asleep", "exited"}
      BY <1>1, <2>2, <3>1, ThreadPoolAssumption DEF NotifyAll, PoolInv, StopDrains
    <3>. QED BY <2>2, <3>1, <3>2 DEF NotifyAll, PoolInv, NoLostWakeup, AllDone
  <2>3. CASE JoinAll
    BY <2>3 DEF JoinAll, PoolInv, NoLostWakeup, AllDone
  <2>. QED BY <2>1, <2>2, <2>3
<1>5. StopDrains'
  <2>1. CASE BeginStop \/ NotifyAll
    BY <1>1, <2>1 DEF BeginStop, NotifyAll, PoolInv, StopDrains
  <2>2. CASE JoinAll
    <3>1. tasks = <<>> /\ Busy = {}
      BY <2>2, ThreadPoolAssumption DEF JoinAll, PoolInv, StopDrains, Busy
    <3>2. pendingTasks = 0
      BY <3>1, OutstandingIsPositive DEF PoolInv, AllDone
    <3>3. submitted \subseteq ready
      BY <3>1 DEF submitted, queued
    <3>4. submitted' = submitted
      BY <2>2 DEF JoinAll, submitted, queued, Busy
    <3>. QED BY <2>2, <3>1, <3>2, <3>3, <3>4 DEF JoinAll, PoolInv, StopDrains
  <2>. QED BY <2>1, <2>2
<1>. QED BY <1>2, <1>3, <1>4, <1>5 DEF PoolInv

(* Nothing changes. *)
LEMMA StutterInv ==
  ASSUME PoolInv, UNCHANGED vars
  PROVE  PoolInv'
BY DEF PoolInv, vars, TypeOK, HeldIffBusy, PendingIsOutstanding, EachTaskOnce,
       StopAfterClients, NoLostWakeup, StopDrains, AllDone, submitted, queued, Busy

(* Every step keeps the invariant. *)
LEMMA PoolNextInv == PoolInv /\ [Next]_vars => PoolInv'
<1>. SUFFICES ASSUME PoolInv, [Next]_vars PROVE PoolInv'
  OBVIOUS
<1>1. ASSUME NEW c \in Clients, NEW t \in Tasks, Enqueue(c, t) PROVE PoolInv'
  BY <1>1, EnqueueInv
<1>2. ASSUME NEW c \in Clients, NotifyOne(c) \/ WaitForAllTasks(c) \/ CheckAllDone(c)
                                  \/ SpuriousClient(c)
      PROVE PoolInv'
  BY <1>2, ClientInv
<1>3. ASSUME NEW w \in Workers, WorkerStep(w) PROVE PoolInv'
  BY <1>3, SleepInv, ExitInv, TakeInv, RunInv, FinishInv DEF WorkerStep
<1>4. ASSUME NEW w \in Workers, SpuriousWorker(w) PROVE PoolInv'
  <2>1. client \in [Clients -> {"idle", "notifying", "checking", "asleep"}]
    BY DEF PoolInv, TypeOK
  <2>. QED BY <1>4, <2>1, WakeInv DEF SpuriousWorker
<1>5. ASSUME BeginStop \/ NotifyAll \/ JoinAll PROVE PoolInv'
  BY <1>5, StopInv
<1>6. CASE Ended \/ UNCHANGED vars
  BY <1>6, StutterInv DEF Ended
<1>. QED BY <1>1, <1>2, <1>3, <1>4, <1>5, <1>6 DEF Next

----------------------------------------
(* The pool's fields keep their types and its bookkeeping stays consistent
   in every reachable state: the outstanding count is exact, no task is in
   two places, no wake-up is lost and stopping drains the queue. *)
THEOREM PoolInvariant == Spec => []PoolInv
<1>1. Init => PoolInv
  BY PoolInitInv
<1>2. PoolInv /\ [Next]_vars => PoolInv'
  BY PoolNextInv
<1>. QED BY <1>1, <1>2, PTL DEF Spec

(* The pool's fields and the thread positions keep their types. *)
THEOREM PoolTypeCorrect == Spec => []TypeOK
BY PoolInvariant, PTL DEF PoolInv

(* _pendingTasks is the number of tasks queued or in a worker's hands. *)
THEOREM PendingCorrect == Spec => []PendingIsOutstanding
BY PoolInvariant, PTL DEF PoolInv

(* No task is run twice or by two workers. *)
THEOREM TasksRunOnce == Spec => []EachTaskOnce
BY PoolInvariant, PTL DEF PoolInv

(* notify_one after the unlock never leaves a task behind with all workers
   asleep. *)
THEOREM WakeupsAreKept == Spec => []NoLostWakeup
BY PoolInvariant, PTL DEF PoolInv

(* The destructor runs every accepted task before it returns. *)
THEOREM DestructorDrains == Spec => []StopDrains
BY PoolInvariant, PTL DEF PoolInv

(* All of it together: what the pool's threads share is sound, for every
   number of workers, clients and tasks. *)
THEOREM PoolKeepsItsBooks == Spec => []PoolIsSafe
BY PoolInvariant, PTL DEF PoolInv, PoolIsSafe

(* waitForAllTasks returns only when every task handed in has run: between
   the check of its predicate and its return nothing is outstanding. *)
THEOREM WaitIsExact == Spec => WaitReturnsWhenDone
<1> DEFINE WaitsForAll == \A c \in Clients : client[c] = "checking" /\ client'[c] = "idle"
                       => submitted \subseteq ready
<1>1. PoolInv /\ [Next]_vars => [WaitsForAll]_vars
  <2>. SUFFICES ASSUME PoolInv, Next, NEW c \in Clients,
                       client[c] = "checking", client'[c] = "idle"
                PROVE  submitted \subseteq ready
    BY DEF WaitReturnsWhenDone
  <2>1. AllDone
    <3>1. ~ \E d \in Clients, t \in Tasks : Enqueue(d, t)
      BY DEF Enqueue, PoolInv, TypeOK
    <3>2. ~ \E d \in Clients : NotifyOne(d) \/ WaitForAllTasks(d) \/ SpuriousClient(d)
      BY DEF NotifyOne, WaitForAllTasks, SpuriousClient, PoolInv, TypeOK
    <3>3. ~ \E w \in Workers : WorkerStep(w) \/ SpuriousWorker(w)
      BY DEF WorkerStep, Sleep, Exit, Take, Run, Finish, SpuriousWorker, PoolInv, TypeOK
    <3>4. ~ (BeginStop \/ NotifyAll \/ JoinAll \/ Ended)
      BY DEF BeginStop, NotifyAll, JoinAll, Ended, vars
    <3>5. PICK d \in Clients : CheckAllDone(d)
      BY <3>1, <3>2, <3>3, <3>4 DEF Next
    <3>. QED BY <3>5 DEF CheckAllDone, PoolInv, TypeOK
  <2>2. tasks = <<>> /\ Busy = {}
    BY <2>1, OutstandingIsPositive DEF PoolInv
  <2>. QED BY <2>2 DEF submitted, queued
<1>. QED BY <1>1, PoolInvariant, PTL DEF Spec, WaitReturnsWhenDone

----------------------------------------
(* Refinement of the abstract pool. *)

Running == {w \in Workers : worker[w] = "running"}
InHand  == {held[w] : w \in Running}
Phase   == CASE destructor = "alive"  -> "open"
             [] destructor = "joined" -> "closed"
             [] OTHER                 -> "closing"

(* Fewer tasks are in hand than there are workers while one is not running. *)
LEMMA InHandBound ==
  ASSUME NEW w \in Workers, worker[w] # "running"
  PROVE  Cardinality(InHand) < Cardinality(Workers)
<1>1. /\ IsFiniteSet(Workers \ {w})
      /\ Cardinality(Workers \ {w}) = Cardinality(Workers) - 1
      /\ Cardinality(Workers) \in Nat
  BY ThreadPoolAssumption, FS_RemoveElement, FS_CardinalityType
<1>2. /\ IsFiniteSet(Running)
      /\ Cardinality(Running) <= Cardinality(Workers \ {w})
      /\ Cardinality(Running) \in Nat
  <2>1. Running \in SUBSET (Workers \ {w})
    BY DEF Running
  <2>. QED BY <1>1, <2>1, FS_Subset, FS_CardinalityType
<1>3. Cardinality(InHand) <= Cardinality(Running) /\ Cardinality(InHand) \in Nat
  <2> DEFINE f == [v \in Running |-> held[v]]
  <2>1. f \in Surjection(Running, InHand)
    BY DEF InHand, Surjection
  <2>. HIDE DEF f
  <2>2. IsFiniteSet(InHand) /\ Cardinality(InHand) <= Cardinality(Running)
    BY <1>2, <2>1, FS_Surjection
  <2>. QED BY <2>2, FS_CardinalityType
<1>. QED BY <1>1, <1>2, <1>3

(* The pool starts as the abstract one does. *)
LEMMA InitRefines == Init => Service!Init
BY DEF Init, Service!Init

(* The steps the abstract pool does not see. *)
LEMMA InternalStep ==
  ASSUME UNCHANGED <<tasks, ready>>, InHand' = InHand, Phase' = Phase
  PROVE  UNCHANGED Service!vars
BY DEF Service!vars, InHand, Running, Phase

(* Every step is one of the abstract pool or changes nothing of it. *)
LEMMA StepRefines == PoolInv /\ [Next]_vars => [Service!Next]_(Service!vars)
<1>. SUFFICES ASSUME PoolInv, [Next]_vars PROVE [Service!Next]_(Service!vars)
  OBVIOUS
<1>1. ASSUME NEW c \in Clients, NEW t \in Tasks, Enqueue(c, t)
      PROVE  Service!Next
  <2>1. Service!Submit(t)
    BY <1>1 DEF Enqueue, Service!Submit, Service!Accepted, submitted, queued, Busy
  <2>. QED BY <2>1 DEF Service!Next
<1>2. ASSUME NEW w \in Workers, Take(w)
      PROVE  Service!Next
  <2>1. worker[w] = "ready" /\ destructor # "joined" /\ tasks # <<>>
    BY <1>2 DEF Take, PoolInv, StopAfterClients
  <2>2. Cardinality(InHand) < Cardinality(Workers)
    BY <2>1, InHandBound
  <2>3. Running' = Running \cup {w} /\ w \notin Running
    BY <1>2 DEF Take, Running, PoolInv, TypeOK
  <2>4. held'[w] = Head(tasks) /\ \A v \in Running : held'[v] = held[v]
    BY <1>2, <2>3 DEF Take, Running, PoolInv, TypeOK
  <2>5. InHand' = InHand \cup {Head(tasks)}
    BY <2>3, <2>4 DEF InHand
  <2>6. Phase # "closed" /\ Phase' = Phase
    BY <1>2, <2>1 DEF Phase, Take, PoolInv, TypeOK
  <2>7. Service!Start
    <3>1. Service!Cardinality(InHand) < Cardinality(Workers)
      BY <2>2 DEF Cardinality, Service!Cardinality
    <3>. QED
      BY <1>2, <2>1, <3>1, <2>5, <2>6 DEF Service!Start, Take, InHand, Running, Phase
  <2>. QED BY <2>7 DEF Service!Next
<1>3. ASSUME NEW w \in Workers, Run(w)
      PROVE  Service!Next
  <2>1. w \in Running /\ held[w] \in Tasks /\ held[w] \in InHand
    BY <1>3 DEF Run, Running, InHand, PoolInv, HeldIffBusy, Busy
  <2>2. Running' = Running \ {w} /\ held' = held
    BY <1>3 DEF Run, Running, PoolInv, TypeOK
  <2>3. \A v \in Running : held[v] = held[w] => v = w
    BY <2>1 DEF Running, Busy, PoolInv, EachTaskOnce
  <2>4. InHand' = InHand \ {held[w]}
    BY <2>1, <2>2, <2>3 DEF InHand
  <2>5. Phase' = Phase
    BY <1>3 DEF Phase, Run
  <2>6. PICK t \in Tasks : t = held[w]
    BY <2>1
  <2>7. Service!Complete(t)
    BY <1>3, <2>1, <2>4, <2>5, <2>6 DEF Service!Complete, Run, InHand, Running, Phase
  <2>. QED BY <2>7 DEF Service!Next
<1>4. CASE BeginStop
  <2>1. Service!BeginClose
    BY <1>4 DEF BeginStop, Service!BeginClose
  <2>. QED BY <2>1 DEF Service!Next
<1>5. CASE JoinAll
  <2>1. tasks = <<>> /\ Running = {}
    BY <1>5, ThreadPoolAssumption DEF JoinAll, PoolInv, StopDrains, Running
  <2>2. InHand = {}
    BY <2>1 DEF InHand
  <2>3. Service!EndClose
    BY <1>5, <2>1, <2>2 DEF JoinAll, Service!EndClose, InHand, Running
  <2>. QED BY <2>3 DEF Service!Next
<1>6. ASSUME NEW w \in Workers, Finish(w)
      PROVE  UNCHANGED Service!vars
  <2>1. Running' = Running /\ \A v \in Running : held'[v] = held[v]
    BY <1>6 DEF Finish, Running, PoolInv, TypeOK
  <2>2. InHand' = InHand
    BY <2>1 DEF InHand
  <2>. QED BY <1>6, <2>2, InternalStep DEF Finish, Phase
<1>7. ASSUME NEW w \in Workers, Sleep(w) \/ Exit(w) \/ SpuriousWorker(w)
      PROVE  UNCHANGED Service!vars
  <2>1. Running' = Running
    BY <1>7 DEF Sleep, Exit, SpuriousWorker, Running, PoolInv, TypeOK
  <2>2. InHand' = InHand
    BY <1>7, <2>1 DEF InHand, Sleep, Exit, SpuriousWorker
  <2>. QED BY <1>7, <2>2, InternalStep DEF Sleep, Exit, SpuriousWorker, Phase
<1>8. ASSUME NEW c \in Clients, NotifyOne(c) \/ WaitForAllTasks(c) \/ CheckAllDone(c)
                                  \/ SpuriousClient(c)
      PROVE  UNCHANGED Service!vars
  <2>1. Running' = Running
    BY <1>8 DEF NotifyOne, WaitForAllTasks, CheckAllDone, SpuriousClient, Running,
                PoolInv, TypeOK
  <2>2. InHand' = InHand
    BY <1>8, <2>1 DEF InHand, NotifyOne, WaitForAllTasks, CheckAllDone, SpuriousClient
  <2>. QED BY <1>8, <2>2, InternalStep DEF NotifyOne, WaitForAllTasks, CheckAllDone,
                                            SpuriousClient, Phase
<1>9. CASE NotifyAll
  <2>1. Running' = Running
    BY <1>9 DEF NotifyAll, Running, PoolInv, TypeOK
  <2>2. InHand' = InHand
    BY <1>9, <2>1 DEF InHand, NotifyAll
  <2>. QED BY <1>9, <2>2, InternalStep DEF NotifyAll, Phase
<1>10. CASE Ended \/ UNCHANGED vars
  BY <1>10 DEF Ended, vars, Service!vars
<1>. QED BY <1>1, <1>2, <1>3, <1>4, <1>5, <1>6, <1>7, <1>8, <1>9, <1>10
          DEF Next, WorkerStep

(* The safety half of ImplementsService: whatever the threads do, callers
   see FIFO starts, at most one task per worker at a time, each task run
   exactly once, and a close that waits for the last task. *)
THEOREM PoolRefinesService == Spec => Service!Spec
<1>1. Init => Service!Init
  BY InitRefines
<1>2. PoolInv /\ [Next]_vars => [Service!Next]_(Service!vars)
  BY StepRefines
<1>. QED BY <1>1, <1>2, PoolInvariant, PTL DEF Spec, Service!Spec

----------------------------------------
(* Frames. *)

(* The slots of a frame that a function can name, and the shapes of what
   the variables hold. *)
Places == {"local", "first", "second"}
Maybe == Values \union {Nil}
CodesOrNone == Codes \union {"none"}
FrameShape ==
  [ret : Maybe, params : [Params -> Maybe], local : Maybe, err : [code : CodesOrNone, message : Maybe]]
CallShape ==
  [to : Addresses, args : [Params -> {"temporary"} \union Places], values : [Params -> Maybe],
   mutable : [Params -> BOOLEAN], catches : BOOLEAN]
ActivationShape ==
  [frame : Addresses, size : Nat, next : 0..Capacity, mutable : [Params -> BOOLEAN], declared : BOOLEAN,
   call : CallShape \union {NoCall}, caught : Addresses \union {NoFrame}, expected : CodesOrNone]

(* What the variables are: the type invariant of a program that runs. *)
CallsTypes ==
  /\ frames \in [Addresses -> FrameShape]
  /\ activations \in Seq(ActivationShape)
  /\ outcome \in {"none", "ok", "error", "aborted", "ended"}
  /\ raised \in CodesOrNone
  /\ steps \in 0..MaxSteps
  /\ thread_stack \in [stack_ptr : 0..Capacity, callable : {FALSE}]

(* The functions that run, from main's caller at 1 to the one on top. *)
Depth == Len(activations)
Levels == 1..Depth

(* Frames that are on the thread's stack lie one behind the other and fit,
   and each function that runs has one of its own. *)
Stacking ==
  /\ \A k \in Levels : activations[k].frame \notin Callables =>
       activations[k].size >= 1 /\ activations[k].frame + activations[k].size <= Capacity
  /\ \A k \in Levels : \A j \in 1..k : activations[j].frame \notin Callables =>
       activations[j].frame + activations[j].size <= activations[k].next
  /\ \A j, k \in Levels : activations[j].frame = activations[k].frame => j = k
  /\ Depth > 0 => activations[1].frame = 0 /\ \A i \in Params : activations[1].mutable[i] = FALSE

(* A call that is under way was made as the analyzer asks for: what a
   mutable parameter got is a slot of the caller that may be changed and
   that no other argument names. *)
CallIsCareful(k) ==
  LET call == activations[k].call
  IN  /\ \A i, j \in Params : i # j /\ call.mutable[i] => call.args[i] # call.args[j]
      /\ \A i \in Params :
           /\ call.mutable[i] => call.args[i] # "temporary"
           /\ call.mutable[i] /\ call.args[i] \in Params => activations[k].mutable[call.args[i]]
           /\ call.args[i] \in Params => k > 1
           /\ call.args[i] = "local" => activations[k].declared
      /\ call.to \in Callables /\ call.mutable["second"] => call.mutable["first"]
      /\ call.catches => activations[k].caught = NoFrame
      /\ activations[k].caught \in Callables \union {NoFrame}

(* An activation has called and waits. *)
Pending(k) == activations[k].call # NoCall

(* Exactly the activations below the top wait for the one above them, and
   the top waits for one that has just ended. *)
Calling ==
  /\ \A k \in Levels : Pending(k) <=> (k < Depth \/ outcome # "none")
  /\ \A k \in Levels : k < Depth =>
       /\ activations[k].call.to = activations[k + 1].frame
       /\ activations[k].call.mutable = activations[k + 1].mutable
  /\ \A k \in Levels : Pending(k) => CallIsCareful(k)
  /\ outcome \in {"ok", "error"} /\ Depth > 0 => \A k \in Levels : activations[k].frame # Top.call.to
  /\ outcome \in {"aborted", "ended"} => Depth = 0
  /\ outcome = "none" => Depth > 0

(* The error a catch handles is in the frame of a callable or function
   that runs no more and is called by no one as long as the handler runs,
   and its code is still the one it was caught with. *)
Catching ==
  /\ \A k \in Levels : activations[k].caught # NoFrame =>
       /\ \A j \in Levels : activations[j].frame # activations[k].caught
       /\ \A j \in Levels : activations[j].caught = activations[k].caught => j = k
       /\ outcome # "none" => Top.call.to # activations[k].caught
       /\ frames[activations[k].caught].err.code = activations[k].expected
  /\ outcome = "error" /\ Depth > 0 => frames[Top.call.to].err.code = raised

----------------------------------------
(* Values. *)

LentTo(k, s, i) == Pending(k) /\ activations[k].call.args[i] = s /\ activations[k].call.mutable[i]
Lent(k, s) == \E i \in Params : LentTo(k, s, i)
Raw(k, s) == Slot(frames[activations[k].frame], s)

(* cur says of every slot what it stands for: what is in the frame, unless
   the slot was lent to a mutable parameter of the function that runs
   above. *)
IsCurrent(cur) ==
  \A k \in Levels : \A s \in Places :
    /\ ~Lent(k, s) => cur[k][s] = Raw(k, s)
    /\ \A i \in Params : LentTo(k, s, i) =>
         cur[k][s] = IF k = Depth THEN frames[activations[k].call.to].params[i] ELSE cur[k + 1][i]

(* What lives and was not left behind. *)
Kept == live \ leaked

(* A slot that was never given a value. *)
Unset(k, s) == (s = "local" /\ ~activations[k].declared) \/ (s \in Params /\ k = 1)

(* Nothing that is kept can be found in slots that were never set, nor in
   the frames of functions that ended, except by the caller who is about
   to take the result. *)
StaleIsGone ==
  /\ \A k \in Levels : \A s \in Places : Unset(k, s) => Raw(k, s) \notin Kept
  /\ \A a \in Addresses :
       Depth > 0 /\ (\A k \in Levels : activations[k].frame # a) /\ ~(outcome = "ok" /\ a = Top.call.to)
         => frames[a].local \notin Kept

(* Who may keep a value: a local variable, an argument that is a
   temporary, the handler of an error, and the result that is on its way. *)
Kinds == {"local", "first", "second", "caught", "result"}
Keepers == Nat \X Kinds

(* hold says who keeps what, alive and lost what lives and what was left
   behind: no value has two keepers, and what lives is kept or was left
   behind. *)
Books(hold, alive, lost) ==
  /\ lost \subseteq alive
  /\ \A o, p \in Keepers : hold[o] = hold[p] /\ hold[o] # Nil => o = p
  /\ \A v \in Values : v \in alive \ lost <=> \E o \in Keepers : hold[o] = v

(* The frame in which a result or an error is on its way, and the value it
   carries. *)
ResultFrame == IF Depth = 0 THEN frames[0] ELSE frames[Top.call.to]
ResultValue == IF outcome = "ok" THEN ResultFrame.ret ELSE ResultFrame.err.message

(* What the keepers of level k keep is what its slots stand for. *)
KeepsAt(k, cur, hold) ==
  /\ IF k \in Levels /\ activations[k].declared
       THEN hold[<<k, "local">>] = cur[k]["local"] /\ cur[k]["local"] # Nil ELSE hold[<<k, "local">>] = Nil
  /\ IF k \in Levels /\ activations[k].caught # NoFrame
       THEN /\ hold[<<k, "caught">>] = frames[activations[k].caught].err.message
            /\ frames[activations[k].caught].err.message # Nil
       ELSE hold[<<k, "caught">>] = Nil
  /\ \A i \in Params :
       IF k \in Levels /\ Pending(k) /\ activations[k].call.args[i] = "temporary"
         THEN hold[<<k, i>>] = activations[k].call.values[i] /\ activations[k].call.values[i] # Nil
         ELSE hold[<<k, i>>] = Nil

(* So it is of the result. *)
KeepsResult(hold) ==
  IF outcome \in {"ok", "error"} THEN hold[<<0, "result">>] = ResultValue /\ ResultValue # Nil
                                 ELSE hold[<<0, "result">>] = Nil

(* hold is about this program: every level, and the result. *)
Holding(cur, hold) ==
  /\ \A k \in Nat : KeepsAt(k, cur, hold)
  /\ KeepsResult(hold)
  /\ \A k \in Nat : k > 0 => hold[<<k, "result">>] = Nil

(* A parameter stands for a value that a caller keeps, one that may be
   changed for the local variable of a caller. *)
Backing(cur, hold) ==
  \A k \in Levels : k > 1 => \A i \in Params :
    /\ cur[k][i] # Nil
    /\ \E j \in 1..(k - 1), x \in Places :
         hold[<<j, x>>] = cur[k][i] /\ (activations[k].mutable[i] => x = "local")

(* The value of a parameter that may be changed has no other name in the
   function or further down, but for the slots that were lent to make it. *)
NoAlias(cur) ==
  \A k \in Levels : k > 1 => \A i \in Params : activations[k].mutable[i] =>
    \A k2 \in 1..k : \A s \in Places :
      cur[k2][s] = cur[k][i] /\ <<k2, s>> # <<k, i>> => k2 < k /\ Lent(k2, s)

(* All that concerns the frames, *)
Frames == CallsTypes /\ Stacking /\ Calling /\ Catching

(* and what is in them. *)
Contents(cur, hold) ==
  /\ cur \in [Nat -> [Places -> Maybe]]
  /\ IsCurrent(cur)
  /\ StaleIsGone
  /\ Holding(cur, hold)
  /\ Backing(cur, hold)
  /\ NoAlias(cur)

(* The first values of a set of numbers, in order. *)
Smallest(T, n) == {v \in T : Cardinality({w \in T : w < v}) < n}

(* The first one is the least. *)
LEMMA SmallestOne ==
  ASSUME NEW M \in Nat, NEW T \in SUBSET (1..M), Cardinality(T) >= 1
  PROVE  \E a \in T : Smallest(T, 1) = {a} /\ \A w \in T : a <= w
<1>0. IsFiniteSet(1..M)
  BY FS_Interval
<1>1. IsFiniteSet(T) /\ \A w \in T : w \in Nat
  <2>1. \A w \in T : w \in Nat
    OBVIOUS
  <2>2. IsFiniteSet(T)
    BY <1>0, FS_Subset
  <2>. QED BY <2>1, <2>2
<1>2. T # {}
  BY FS_EmptySet
<1>3. PICK a \in T : \A w \in T : a <= w
  <2>1. T \subseteq Nat
    BY <1>1
  <2>. QED BY <2>1, <1>2, LeastNatural
<1>4. ASSUME NEW v \in T
      PROVE  Cardinality({w \in T : w < v}) < 1 <=> v = a
  <2>1. IsFiniteSet({w \in T : w < v}) /\ Cardinality({w \in T : w < v}) \in Nat
    BY <1>1, FS_Subset, FS_CardinalityType
  <2>2. Cardinality({w \in T : w < v}) = 0 <=> {w \in T : w < v} = {}
    BY <2>1, FS_EmptySet
  <2>3. {w \in T : w < v} = {} <=> v = a
    <3>1. ASSUME v = a
          PROVE  {w \in T : w < v} = {}
      <4>1. \A w \in T : ~(w < v)
        BY <3>1, <1>1, <1>3
      <4>. QED BY <4>1
    <3>2. ASSUME v # a
          PROVE  a \in {w \in T : w < v}
      BY <3>2, <1>1, <1>3
    <3>. QED BY <3>1, <3>2
  <2>. QED BY <2>1, <2>2, <2>3
<1>. QED BY <1>3, <1>4 DEF Smallest

(* The first two are the least, and the least of the others. *)
LEMMA SmallestTwo ==
  ASSUME NEW M \in Nat, NEW T \in SUBSET (1..M), Cardinality(T) >= 2
  PROVE  \E a, b \in T : a < b /\ Smallest(T, 1) = {a} /\ Smallest(T, 2) = {a, b}
<1>0. IsFiniteSet(1..M)
  BY FS_Interval
<1>1. IsFiniteSet(T) /\ \A w \in T : w \in Nat
  <2>1. \A w \in T : w \in Nat
    OBVIOUS
  <2>2. IsFiniteSet(T)
    BY <1>0, FS_Subset
  <2>. QED BY <2>1, <2>2
<1>2. Cardinality(T) \in Nat
  BY <1>1, FS_CardinalityType
<1>3. PICK a \in T : Smallest(T, 1) = {a} /\ \A w \in T : a <= w
  <2>1. Cardinality(T) >= 1
    BY <1>2
  <2>. QED BY <2>1, SmallestOne
<1>4. T \ {a} # {} /\ T \ {a} \subseteq Nat
  <2>1. Cardinality({a}) = 1
    BY FS_Singleton
  <2>. QED BY <1>1, <2>1, <1>2
<1>5. PICK b \in T \ {a} : \A w \in T \ {a} : b <= w
  BY <1>4, LeastNatural
<1>6. a < b
  BY <1>1, <1>3, <1>5
<1>7. ASSUME NEW v \in T
      PROVE  Cardinality({w \in T : w < v}) < 2 <=> v \in {a, b}
  <2>1. IsFiniteSet({w \in T : w < v}) /\ Cardinality({w \in T : w < v}) \in Nat
    BY <1>1, FS_Subset, FS_CardinalityType
  <2>2. CASE v = a
    <3>1. {w \in T : w < v} = {}
      <4>1. \A w \in T : ~(w < v)
        BY <2>2, <1>1, <1>3
      <4>. QED BY <4>1
    <3>. QED BY <3>1, <2>2, FS_EmptySet
  <2>3. CASE v = b
    <3>1. {w \in T : w < v} = {a}
      <4>1. \A w \in T : w < v <=> w = a
        BY <2>3, <1>1, <1>3, <1>5, <1>6
      <4>. QED BY <4>1, <1>3
    <3>. QED BY <3>1, <2>3, FS_Singleton
  <2>4. CASE v \notin {a, b}
    <3>1. a < v /\ b < v
      BY <2>4, <1>1, <1>3, <1>5
    <3>2. {a, b} \subseteq {w \in T : w < v}
      BY <3>1
    <3>3. Cardinality({a, b}) = 2
      <4>1. Cardinality({a} \cup {b}) = Cardinality({a}) + 1
        BY <1>6, <1>1, FS_Singleton, FS_AddElement
      <4>2. {a, b} = {a} \cup {b} /\ Cardinality({a}) = 1
        BY FS_Singleton
      <4>. QED BY <4>1, <4>2
    <3>4. Cardinality({a, b}) <= Cardinality({w \in T : w < v})
      BY <2>1, <3>2, FS_Subset
    <3>. QED BY <2>1, <2>4, <3>3, <3>4
  <2>. QED BY <2>2, <2>3, <2>4
<1>8. Smallest(T, 2) = {a, b}
  BY <1>5, <1>7 DEF Smallest
<1>. QED BY <1>3, <1>5, <1>6, <1>8

(* A sequence with another last element, without it, and with one more. *)
LEMMA Popping ==
  ASSUME NEW S, NEW q \in Seq(S), q # <<>>
  PROVE  LET r == SubSeq(q, 1, Len(q) - 1)
         IN  /\ r \in Seq(S) /\ Len(r) = Len(q) - 1
             /\ \A k \in 1..(Len(q) - 1) : r[k] = q[k]
  OBVIOUS

LEMMA Replacing ==
  ASSUME NEW S, NEW q \in Seq(S), q # <<>>, NEW x \in S
  PROVE  LET r == Append(SubSeq(q, 1, Len(q) - 1), x)
         IN  /\ r \in Seq(S) /\ Len(r) = Len(q) /\ r[Len(q)] = x
             /\ \A k \in 1..(Len(q) - 1) : r[k] = q[k]
<1>. DEFINE p == SubSeq(q, 1, Len(q) - 1)
<1>1. p \in Seq(S) /\ Len(p) = Len(q) - 1 /\ \A k \in 1..(Len(q) - 1) : p[k] = q[k]
  BY Popping
<1>2. Len(q) \in Nat
  OBVIOUS
<1>. HIDE DEF p
<1>3. /\ Append(p, x) \in Seq(S) /\ Len(Append(p, x)) = Len(q) /\ Append(p, x)[Len(q)] = x
      /\ \A k \in 1..(Len(q) - 1) : Append(p, x)[k] = p[k]
  BY <1>1, <1>2
<1>. QED BY <1>1, <1>3 DEF p

LEMMA Pushing ==
  ASSUME NEW S, NEW q \in Seq(S), NEW x \in S
  PROVE  LET r == Append(q, x)
         IN  /\ r \in Seq(S) /\ Len(r) = Len(q) + 1 /\ r[Len(q) + 1] = x
             /\ \A k \in 1..Len(q) : r[k] = q[k]
  OBVIOUS

(* Books about the values of a program. *)
AreBooks(hold, alive, lost) == hold \in [Keepers -> Maybe] /\ alive \subseteq Values /\ Books(hold, alive, lost)

(* No value is Nil. *)
LEMMA ValuesArePositive == Nil \notin Values
  BY CallsAssumption DEF Values, Nil

(* What is kept lives. *)
LEMMA KeptIsHeld ==
  ASSUME NEW hold, NEW alive, NEW lost, AreBooks(hold, alive, lost), NEW o \in Keepers, hold[o] # Nil
  PROVE  hold[o] \in Values /\ hold[o] \in alive /\ hold[o] \notin lost
<1>1. hold[o] \in Values
  BY DEF AreBooks, Maybe
<1>. QED BY <1>1 DEF AreBooks, Books

(* A keeper who has nothing takes a new value. *)
LEMMA Adding ==
  ASSUME NEW hold, NEW alive, NEW lost, AreBooks(hold, alive, lost),
         NEW o \in Keepers, hold[o] = Nil, NEW v \in Values, v \notin alive
  PROVE  AreBooks([hold EXCEPT ![o] = v], alive \union {v}, lost)
<1>. DEFINE h == [hold EXCEPT ![o] = v]
<1>1. h \in [Keepers -> Maybe] /\ h[o] = v /\ \A p \in Keepers : p # o => h[p] = hold[p]
  BY DEF AreBooks, Maybe
<1>2. \A p \in Keepers : hold[p] # v
  BY KeptIsHeld, ValuesArePositive
<1>. HIDE DEF h
<1>3. Books(h, alive \union {v}, lost)
  <2>1. lost \subseteq alive \union {v} /\ v \notin lost
    BY DEF AreBooks, Books
  <2>2. \A p, q \in Keepers : h[p] = h[q] /\ h[p] # Nil => p = q
    BY <1>1, <1>2 DEF AreBooks, Books
  <2>3. ASSUME NEW w \in Values
        PROVE  w \in (alive \union {v}) \ lost <=> \E p \in Keepers : h[p] = w
    <3>1. CASE w = v
      BY <3>1, <2>1, <1>1
    <3>2. CASE w # v
      <4>1. (\E p \in Keepers : h[p] = w) <=> \E p \in Keepers : hold[p] = w
        BY <3>2, <1>1, ValuesArePositive
      <4>2. w \in alive \ lost <=> \E p \in Keepers : hold[p] = w
        BY DEF AreBooks, Books
      <4>. QED BY <4>1, <4>2, <3>2
    <3>. QED BY <3>1, <3>2
  <2>. QED BY <2>1, <2>2, <2>3 DEF Books
<1>. QED BY <1>1, <1>3 DEF AreBooks, h

(* A keeper's value is freed. *)
LEMMA Dropping ==
  ASSUME NEW hold, NEW alive, NEW lost, AreBooks(hold, alive, lost), NEW o \in Keepers
  PROVE  AreBooks([hold EXCEPT ![o] = Nil], alive \ {hold[o]}, lost)
<1>. DEFINE h == [hold EXCEPT ![o] = Nil]
<1>1. h \in [Keepers -> Maybe] /\ h[o] = Nil /\ \A p \in Keepers : p # o => h[p] = hold[p]
  BY DEF AreBooks, Maybe
<1>2. hold[o] \notin lost
  BY KeptIsHeld, ValuesArePositive DEF AreBooks, Books
<1>. HIDE DEF h
<1>3. Books(h, alive \ {hold[o]}, lost)
  <2>1. lost \subseteq alive \ {hold[o]}
    BY <1>2 DEF AreBooks, Books
  <2>2. \A p, q \in Keepers : h[p] = h[q] /\ h[p] # Nil => p = q
    BY <1>1 DEF AreBooks, Books
  <2>3. ASSUME NEW w \in Values
        PROVE  w \in (alive \ {hold[o]}) \ lost <=> \E p \in Keepers : h[p] = w
    <3>1. w \in alive \ lost <=> \E p \in Keepers : hold[p] = w
      BY DEF AreBooks, Books
    <3>2. CASE w = hold[o]
      <4>1. \A p \in Keepers : p # o => hold[p] # w
        BY <3>2, ValuesArePositive DEF AreBooks, Books
      <4>. QED BY <4>1, <3>2, <1>1, ValuesArePositive
    <3>3. CASE w # hold[o]
      BY <3>1, <3>3, <1>1, ValuesArePositive
    <3>. QED BY <3>2, <3>3
  <2>. QED BY <2>1, <2>2, <2>3 DEF Books
<1>. QED BY <1>1, <1>3 DEF AreBooks, h

(* A keeper leaves its value behind, to nobody. *)
LEMMA Leaking ==
  ASSUME NEW hold, NEW alive, NEW lost, AreBooks(hold, alive, lost), NEW o \in Keepers
  PROVE  AreBooks([hold EXCEPT ![o] = Nil], alive, lost \union ({hold[o]} \ {Nil}))
<1>. DEFINE h == [hold EXCEPT ![o] = Nil]
            gone == lost \union ({hold[o]} \ {Nil})
<1>1. h \in [Keepers -> Maybe] /\ h[o] = Nil /\ \A p \in Keepers : p # o => h[p] = hold[p]
  BY DEF AreBooks, Maybe
<1>. HIDE DEF h
<1>3. Books(h, alive, gone)
  <2>1. gone \subseteq alive
    BY KeptIsHeld DEF AreBooks, Books
  <2>2. \A p, q \in Keepers : h[p] = h[q] /\ h[p] # Nil => p = q
    BY <1>1 DEF AreBooks, Books
  <2>3. ASSUME NEW w \in Values
        PROVE  w \in alive \ gone <=> \E p \in Keepers : h[p] = w
    <3>1. w \in alive \ lost <=> \E p \in Keepers : hold[p] = w
      BY DEF AreBooks, Books
    <3>2. CASE w = hold[o]
      <4>1. \A p \in Keepers : p # o => hold[p] # w
        BY <3>2, ValuesArePositive DEF AreBooks, Books
      <4>. QED BY <4>1, <3>2, <1>1, ValuesArePositive
    <3>3. CASE w # hold[o]
      BY <3>1, <3>3, <1>1, ValuesArePositive
    <3>. QED BY <3>2, <3>3
  <2>. QED BY <2>1, <2>2, <2>3 DEF Books
<1>. QED BY <1>1, <1>3 DEF AreBooks, h

(* A keeper hands its value to one who has none. *)
LEMMA Moving ==
  ASSUME NEW hold, NEW alive, NEW lost, AreBooks(hold, alive, lost),
         NEW o \in Keepers, NEW r \in Keepers, o # r, hold[r] = Nil
  PROVE  AreBooks([hold EXCEPT ![r] = hold[o], ![o] = Nil], alive, lost)
<1>. DEFINE h == [hold EXCEPT ![r] = hold[o], ![o] = Nil]
<1>1. /\ h \in [Keepers -> Maybe] /\ h[o] = Nil /\ h[r] = hold[o]
      /\ \A p \in Keepers : p # o /\ p # r => h[p] = hold[p]
  BY DEF AreBooks, Maybe
<1>. HIDE DEF h
<1>3. Books(h, alive, lost)
  <2>1. lost \subseteq alive
    BY DEF AreBooks, Books
  <2>2. \A p, q \in Keepers : h[p] = h[q] /\ h[p] # Nil => p = q
    BY <1>1 DEF AreBooks, Books
  <2>3. ASSUME NEW w \in Values
        PROVE  w \in alive \ lost <=> \E p \in Keepers : h[p] = w
    <3>1. w \in alive \ lost <=> \E p \in Keepers : hold[p] = w
      BY DEF AreBooks, Books
    <3>2. (\E p \in Keepers : hold[p] = w) <=> \E p \in Keepers : h[p] = w
      BY <1>1, ValuesArePositive
    <3>. QED BY <3>1, <3>2
  <2>. QED BY <2>1, <2>2, <2>3 DEF Books
<1>. QED BY <1>1, <1>3 DEF AreBooks, h

(* A keeper's value is freed and replaced with a new one. *)
LEMMA Changing ==
  ASSUME NEW hold, NEW alive, NEW lost, AreBooks(hold, alive, lost),
         NEW o \in Keepers, hold[o] # Nil, NEW v \in Values, v \notin alive
  PROVE  AreBooks([hold EXCEPT ![o] = v], (alive \ {hold[o]}) \union {v}, lost)
<1>. DEFINE h == [hold EXCEPT ![o] = Nil]
<1>1. AreBooks(h, alive \ {hold[o]}, lost)
  BY Dropping
<1>2. h[o] = Nil /\ [h EXCEPT ![o] = v] = [hold EXCEPT ![o] = v]
  BY DEF AreBooks
<1>. HIDE DEF h
<1>3. v \notin alive \ {hold[o]}
  OBVIOUS
<1>4. AreBooks([h EXCEPT ![o] = v], (alive \ {hold[o]}) \union {v}, lost)
  BY <1>1, <1>2, <1>3, Adding
<1>. QED BY <1>4, <1>2

(* A new value is left behind at once. *)
LEMMA Losing ==
  ASSUME NEW hold, NEW alive, NEW lost, AreBooks(hold, alive, lost), NEW v \in Values, v \notin alive
  PROVE  AreBooks(hold, alive \union {v}, lost \union {v})
<1>1. (alive \union {v}) \ (lost \union {v}) = alive \ lost
  BY DEF AreBooks, Books
<1>. QED BY <1>1 DEF AreBooks, Books

(* What is on top, when anything runs. *)
LEMMA OnTop ==
  ASSUME CallsTypes, activations # <<>>
  PROVE  /\ Depth \in Nat /\ Depth >= 1 /\ Depth \in Levels
         /\ \A k \in Levels : activations[k] \in ActivationShape
         /\ Top \in ActivationShape /\ Top = activations[Depth]
         /\ Frame \in FrameShape /\ Top.frame \in Addresses
<1>1. Depth \in Nat /\ Depth >= 1 /\ \A k \in Levels : activations[k] \in ActivationShape
  BY DEF CallsTypes, Depth, Levels
<1>2. Depth \in Levels /\ Top = activations[Depth]
  BY <1>1 DEF Levels, Top, Depth
<1>3. Top \in ActivationShape
  BY <1>1, <1>2
<1>4. Top.frame \in Addresses
  BY <1>3 DEF ActivationShape
<1>. QED BY <1>1, <1>2, <1>3, <1>4 DEF CallsTypes, Frame

(* No error is caught without a frame. *)
LEMMA NoFrameIsNone == NoFrame \notin Addresses /\ NoFrame \notin Callables
  BY CallsAssumption DEF NoFrame, Addresses

(* A call is not the absence of one. *)
LEMMA CallsAreCalls ==
  ASSUME NEW c \in CallShape
  PROVE  c # NoCall
<1>1. c.to \in Addresses /\ NoCall.to = NoFrame
  BY DEF CallShape, NoCall
<1>. QED BY <1>1, NoFrameIsNone

(* New is a value nobody has. *)
LEMMA FreshValue ==
  ASSUME HasFreshValues(1)
  PROVE  New \in Unused
<1>1. Unused \in SUBSET (1..MaxValues) /\ MaxValues \in Nat
  BY CallsAssumption DEF Unused, Values
<1>2. PICK a \in Unused : Smallest(Unused, 1) = {a}
  BY <1>1, SmallestOne DEF HasFreshValues
<1>. QED BY <1>2 DEF New, FreshValues, Smallest

(* Two fresh values are New and one more. *)
LEMMA FreshPair ==
  ASSUME HasFreshValues(2)
  PROVE  \E a, b \in Unused : a < b /\ New = a /\ FreshValues(2) = {a, b} /\ a \in Int /\ b \in Int
<1>1. Unused \in SUBSET (1..MaxValues) /\ MaxValues \in Nat
  BY CallsAssumption DEF Unused, Values
<1>2. PICK a, b \in Unused : a < b /\ Smallest(Unused, 1) = {a} /\ Smallest(Unused, 2) = {a, b}
  BY <1>1, SmallestTwo DEF HasFreshValues
<1>. QED BY <1>1, <1>2 DEF New, FreshValues, Smallest

(* The activation on top is replaced, or leaves. *)
LEMMA TopReplaced ==
  ASSUME CallsTypes, activations # <<>>, NEW x \in ActivationShape, activations' = Replace(x)
  PROVE  /\ activations' \in Seq(ActivationShape) /\ Depth' = Depth /\ Levels' = Levels
         /\ activations'[Depth] = x /\ activations' # <<>> /\ Top' = x
         /\ \A k \in Levels : k # Depth => activations'[k] = activations[k]
<1>1. /\ activations' \in Seq(ActivationShape) /\ Len(activations') = Len(activations)
      /\ activations'[Len(activations)] = x
      /\ \A k \in 1..(Len(activations) - 1) : activations'[k] = activations[k]
  BY Replacing DEF CallsTypes, Replace, Pop
<1>2. Len(activations) \in Nat /\ Len(activations) >= 1
  BY OnTop DEF Depth
<1>. QED BY <1>1, <1>2 DEF Depth, Levels, Top

(* The activation on top leaves. *)
LEMMA TopPopped ==
  ASSUME CallsTypes, activations # <<>>, activations' = Pop
  PROVE  /\ activations' \in Seq(ActivationShape) /\ Depth' = Depth - 1 /\ Levels' = 1..(Depth - 1)
         /\ \A k \in Levels' : k \in Levels /\ k # Depth /\ activations'[k] = activations[k]
         /\ Depth = 1 <=> activations' = <<>>
<1>1. /\ activations' \in Seq(ActivationShape) /\ Len(activations') = Len(activations) - 1
      /\ \A k \in 1..(Len(activations) - 1) : activations'[k] = activations[k]
  BY Popping DEF CallsTypes, Pop
<1>2. Len(activations) \in Nat /\ Len(activations) >= 1
  BY OnTop DEF Depth
<1>. QED BY <1>1, <1>2 DEF Depth, Levels

(* The frames of the functions that go on running. *)
LEMMA StackingStays ==
  ASSUME CallsTypes, Stacking, Depth' \in Nat, Depth' <= Depth,
         \A k \in Levels' :
           /\ activations'[k].frame = activations[k].frame
           /\ activations'[k].size = activations[k].size
           /\ activations'[k].next = activations[k].next
           /\ activations'[k].mutable = activations[k].mutable
  PROVE  Stacking'
<1>1. Levels' \subseteq Levels /\ Depth \in Nat
  BY DEF Levels, Depth, CallsTypes
<1>2. \A k \in Levels' : activations'[k].frame \notin Callables =>
       activations'[k].size >= 1 /\ activations'[k].frame + activations'[k].size <= Capacity
  BY <1>1 DEF Stacking
<1>3. \A k \in Levels' : \A j \in 1..k : activations'[j].frame \notin Callables =>
       activations'[j].frame + activations'[j].size <= activations'[k].next
  <2>1. \A k \in Levels' : \A j \in 1..k : j \in Levels'
    BY <1>1 DEF Levels
  <2>. QED BY <1>1, <2>1 DEF Stacking
<1>4. \A j, k \in Levels' : activations'[j].frame = activations'[k].frame => j = k
  BY <1>1 DEF Stacking
<1>5. Depth' > 0 => activations'[1].frame = 0 /\ \A i \in Params : activations'[1].mutable[i] = FALSE
  <2>1. Depth' > 0 => 1 \in Levels' /\ Depth > 0 /\ Depth \in Nat
    BY <1>1 DEF Levels, Depth, CallsTypes
  <2>. QED BY <1>1, <2>1 DEF Stacking
<1>. QED BY <1>2, <1>3, <1>4, <1>5 DEF Stacking

(* A statement that neither calls nor returns. *)
LEMMA CallsStay ==
  ASSUME CallsTypes, Calling, Catching, activations # <<>>, outcome' = outcome, outcome = "none",
         Depth' = Depth,
         \A k \in Levels :
           /\ activations'[k].frame = activations[k].frame
           /\ activations'[k].mutable = activations[k].mutable
           /\ activations'[k].call = activations[k].call
           /\ activations[k].declared => activations'[k].declared
           /\ activations'[k].caught = activations[k].caught
           /\ activations'[k].expected = activations[k].expected,
         \A k \in Levels : activations[k].caught # NoFrame =>
           frames'[activations[k].caught].err = frames[activations[k].caught].err
  PROVE  Calling' /\ Catching'
<1>1. Levels' = Levels /\ Depth' = Depth /\ Depth \in Nat /\ Depth > 0
  BY OnTop DEF Levels, Depth
<1>2. \A k \in Levels : CallIsCareful(k) => CallIsCareful(k)'
  BY DEF CallIsCareful
<1>3. \A k \in Levels : k < Depth => k + 1 \in Levels
  BY <1>1 DEF Levels
<1>4. Calling'
  BY <1>1, <1>2, <1>3 DEF Calling, Pending
<1>5. Catching'
  BY <1>1 DEF Catching
<1>. QED BY <1>4, <1>5

(* A declaration leaves the frames in order. *)
LEMMA DeclareLocalFrames ==
  ASSUME Frames, DeclareLocal
  PROVE  Frames'
<1>1. CallsTypes /\ Stacking /\ Calling /\ Catching
  BY DEF Frames
<1>2. activations # <<>> /\ outcome = "none" /\ outcome' = outcome
  BY DEF DeclareLocal, Step, Ready, InFunction
<1>3. [Top EXCEPT !.declared = TRUE] \in ActivationShape
  BY <1>1, <1>2, OnTop DEF ActivationShape
<1>4. /\ activations' \in Seq(ActivationShape) /\ Depth' = Depth /\ Levels' = Levels
      /\ activations'[Depth] = [Top EXCEPT !.declared = TRUE]
      /\ \A k \in Levels : k # Depth => activations'[k] = activations[k]
  BY <1>1, <1>2, <1>3, TopReplaced DEF DeclareLocal
<1>5. \A k \in Levels :
        /\ activations'[k].frame = activations[k].frame
        /\ activations'[k].size = activations[k].size
        /\ activations'[k].next = activations[k].next
        /\ activations'[k].mutable = activations[k].mutable
        /\ activations'[k].call = activations[k].call
        /\ activations[k].declared => activations'[k].declared
        /\ activations'[k].caught = activations[k].caught
        /\ activations'[k].expected = activations[k].expected
  BY <1>1, <1>2, <1>4, OnTop, SMTT(30) DEF ActivationShape
<1>6. CallsTypes'
  <2>1. New \in Maybe
    BY FreshValue DEF DeclareLocal, Unused, Maybe
  <2>2. [Frame EXCEPT !.local = New] \in FrameShape
    BY <2>1, <1>1, <1>2, OnTop DEF FrameShape
  <2>3. frames' \in [Addresses -> FrameShape]
    BY <2>2, <1>1, <1>2, OnTop DEF CallsTypes, DeclareLocal, Frame
  <2>4. steps' \in 0..MaxSteps
    BY <1>1, CallsAssumption DEF CallsTypes, DeclareLocal, Step, Ready
  <2>. QED BY <2>3, <2>4, <1>1, <1>2, <1>4 DEF CallsTypes, DeclareLocal
<1>7. Stacking'
  BY <1>1, <1>2, <1>4, <1>5, OnTop, StackingStays
<1>8. \A k \in Levels : activations[k].caught # NoFrame =>
        frames'[activations[k].caught].err = frames[activations[k].caught].err
  BY <1>1, <1>2, OnTop DEF CallsTypes, DeclareLocal, FrameShape, ActivationShape
<1>. QED BY <1>1, <1>2, <1>4, <1>5, <1>6, <1>7, <1>8, CallsStay DEF Frames

(* So does an assignment to a parameter, *)
LEMMA AssignParameterFrames ==
  ASSUME Frames, NEW i \in Params, AssignParameter(i)
  PROVE  Frames'
<1>1. CallsTypes /\ Stacking /\ Calling /\ Catching
  BY DEF Frames
<1>2. activations # <<>> /\ outcome = "none" /\ outcome' = outcome /\ activations' = activations
  BY DEF AssignParameter, Step, Ready, InFunction
<1>6. CallsTypes'
  <2>1. New \in Maybe
    BY FreshValue DEF AssignParameter, Unused, Maybe
  <2>2. [Frame EXCEPT !.params[i] = New] \in FrameShape
    BY <2>1, <1>1, <1>2, OnTop DEF FrameShape
  <2>3. frames' \in [Addresses -> FrameShape]
    BY <2>2, <1>1, <1>2, OnTop DEF CallsTypes, AssignParameter, Frame
  <2>4. steps' \in 0..MaxSteps
    BY <1>1, CallsAssumption DEF CallsTypes, AssignParameter, Step, Ready
  <2>. QED BY <2>3, <2>4, <1>1, <1>2 DEF CallsTypes, AssignParameter
<1>7. Stacking'
  BY <1>1, <1>2 DEF Stacking, Levels, Depth
<1>8. \A k \in Levels : activations[k].caught # NoFrame =>
        frames'[activations[k].caught].err = frames[activations[k].caught].err
  BY <1>1, <1>2, OnTop DEF CallsTypes, AssignParameter, FrameShape, ActivationShape
<1>9. Depth' = Depth
  BY <1>2 DEF Depth
<1>10. Calling' /\ Catching'
  BY <1>1, <1>2, <1>8, <1>9, CallsStay
<1>. QED BY <1>6, <1>7, <1>10 DEF Frames

(* and the end of a handler. *)
LEMMA EndCatchFrames ==
  ASSUME Frames, EndCatch
  PROVE  Frames'
<1>1. CallsTypes /\ Stacking /\ Calling /\ Catching
  BY DEF Frames
<1>2. activations # <<>> /\ outcome = "none" /\ outcome' = outcome
  BY DEF EndCatch, InFunction
<1>3. [Top EXCEPT !.caught = NoFrame, !.expected = "none"] \in ActivationShape
  BY <1>1, <1>2, OnTop DEF ActivationShape, CodesOrNone
<1>4. /\ activations' \in Seq(ActivationShape) /\ Depth' = Depth /\ Levels' = Levels
      /\ activations'[Depth] = [Top EXCEPT !.caught = NoFrame, !.expected = "none"]
      /\ \A k \in Levels : k # Depth => activations'[k] = activations[k]
  BY <1>1, <1>2, <1>3, TopReplaced DEF EndCatch
<1>13. /\ activations'[Depth].frame = Top.frame /\ activations'[Depth].size = Top.size
       /\ activations'[Depth].next = Top.next /\ activations'[Depth].mutable = Top.mutable
       /\ activations'[Depth].declared = Top.declared /\ activations'[Depth].call = Top.call
       /\ activations'[Depth].caught = NoFrame
  BY <1>1, <1>2, <1>4, OnTop DEF ActivationShape
<1>5. \A k \in Levels :
        /\ activations'[k].frame = activations[k].frame
        /\ activations'[k].size = activations[k].size
        /\ activations'[k].next = activations[k].next
        /\ activations'[k].mutable = activations[k].mutable
        /\ activations'[k].declared = activations[k].declared
        /\ activations'[k].call = activations[k].call
        /\ k # Depth => activations'[k].caught = activations[k].caught
        /\ k # Depth => activations'[k].expected = activations[k].expected
        /\ k = Depth => activations'[k].caught = NoFrame
  BY <1>1, <1>2, <1>4, <1>13, OnTop
<1>6. DefaultFrame \in FrameShape
  BY DEF DefaultFrame, FrameShape, Maybe, DefaultError, CodesOrNone
<1>7. frames' \in [Addresses -> FrameShape]
  BY <1>1, <1>2, <1>6, OnTop DEF CallsTypes, EndCatch, Back
<1>8. CallsTypes'
  BY <1>1, <1>2, <1>4, <1>7 DEF CallsTypes, EndCatch
<1>9. Stacking'
  BY <1>1, <1>2, <1>4, <1>5, OnTop, StackingStays
<1>10. Levels' = Levels /\ Depth' = Depth /\ Depth \in Nat /\ Depth > 0 /\ Depth \in Levels
  BY <1>1, <1>2, <1>4, OnTop
<1>11. Calling'
  <2>1. \A k \in Levels : k # Depth /\ CallIsCareful(k) => CallIsCareful(k)'
    BY <1>5 DEF CallIsCareful
  <2>2. \A k \in Levels : k < Depth => k + 1 \in Levels
    BY <1>10 DEF Levels
  <2>3. \A k \in Levels : Pending(k) => k # Depth
    BY <1>1, <1>2, <1>10 DEF Calling
  <2>. QED BY <1>1, <1>2, <1>5, <1>10, <2>1, <2>2, <2>3 DEF Calling, Pending
<1>12. Catching'
  <2>1. \A k \in Levels : k # Depth /\ activations[k].caught # NoFrame =>
          frames'[activations[k].caught] = frames[activations[k].caught]
    <3>1. frames' = [frames EXCEPT ![Top.frame] = Frame, ![Top.caught] = DefaultFrame]
      BY DEF EndCatch, Back
    <3>2. ASSUME NEW k \in Levels, k # Depth, activations[k].caught # NoFrame
          PROVE  /\ activations[k].caught \in Addresses
                 /\ activations[k].caught # Top.frame /\ activations[k].caught # Top.caught
      BY <3>2, <1>1, <1>2, <1>10, OnTop DEF ActivationShape, Catching
    <3>. QED BY <3>1, <3>2, <1>1 DEF CallsTypes
  <2>. QED BY <1>1, <1>2, <1>5, <1>10, <2>1 DEF Catching
<1>. QED BY <1>8, <1>9, <1>11, <1>12 DEF Frames

(* The function on top leaves. *)
LEMMA PoppedFrames ==
  ASSUME Frames, activations # <<>>, activations' = Pop, outcome' \in {"ok", "error"},
         frames' \in [Addresses -> FrameShape], raised' \in CodesOrNone,
         outcome' = "error" => frames'[Top.frame].err.code = raised',
         \A k \in Levels : k # Depth /\ activations[k].caught # NoFrame =>
           frames'[activations[k].caught].err = frames[activations[k].caught].err,
         steps' = steps, thread_stack' = thread_stack
  PROVE  Frames'
<1>1. CallsTypes /\ Stacking /\ Calling /\ Catching
  BY DEF Frames
<1>2. /\ activations' \in Seq(ActivationShape) /\ Depth' = Depth - 1 /\ Levels' = 1..(Depth - 1)
      /\ \A k \in Levels' : k \in Levels /\ k # Depth /\ activations'[k] = activations[k]
  BY <1>1, TopPopped
<1>3. Depth \in Nat /\ Depth >= 1 /\ Depth \in Levels /\ Top = activations[Depth] /\ Top.frame \in Addresses
  BY <1>1, OnTop
<1>4. CallsTypes'
  BY <1>1, <1>2 DEF CallsTypes
<1>5. Stacking'
  BY <1>1, <1>2, <1>3, StackingStays
<1>6. Depth' > 0 => /\ Depth - 1 \in Levels /\ Depth - 1 \in Levels' /\ Top' = activations[Depth - 1]
                    /\ Top'.call.to = Top.frame
  <2>1. ASSUME Depth' > 0
        PROVE  Depth - 1 \in Levels' /\ Top' = activations'[Depth - 1] /\ Depth - 1 + 1 = Depth
    BY <2>1, <1>2, <1>3 DEF Top, Depth
  <2>. QED BY <2>1, <1>1, <1>2, <1>3 DEF Calling
<1>7. Calling'
  <2>1. \A k \in Levels' : CallIsCareful(k) => CallIsCareful(k)'
    BY <1>2 DEF CallIsCareful
  <2>2. \A k \in Levels' : k < Depth /\ Pending(k) /\ Pending(k)'
    BY <1>1, <1>2, <1>3 DEF Calling, Pending
  <2>3. \A k \in Levels' : k < Depth' => k + 1 \in Levels'
    BY <1>2, <1>3
  <2>4. Depth' > 0 => \A k \in Levels' : activations'[k].frame # Top'.call.to
    BY <1>1, <1>2, <1>3, <1>6 DEF Stacking
  <2>. QED BY <1>1, <1>2, <2>1, <2>2, <2>3, <2>4, ZenonT(60) DEF Calling
<1>8. Catching'
  BY <1>1, <1>2, <1>3, <1>6, SMTT(30) DEF Catching
<1>. QED BY <1>4, <1>5, <1>7, <1>8 DEF Frames

(* However a function ends, the frames below are in order. *)
LEMMA LeaveFrames ==
  ASSUME Frames, InFunction, NEW fr \in FrameShape, NEW created, NEW freed, NEW how \in {"ok", "error"},
         Leave(fr, created, freed, how), raised' \in CodesOrNone,
         how = "error" => fr.err.code = raised'
  PROVE  Frames'
<1>1. CallsTypes /\ activations # <<>> /\ Catching
  BY DEF Frames, InFunction
<1>2. frames' = [frames EXCEPT ![Top.frame] = fr] /\ activations' = Pop /\ outcome' = how
      /\ steps' = steps /\ thread_stack' = thread_stack
  BY DEF Leave
<1>3. Depth \in Levels /\ Top = activations[Depth] /\ Top.frame \in Addresses
  BY <1>1, OnTop
<1>4. frames' \in [Addresses -> FrameShape] /\ frames'[Top.frame] = fr
  BY <1>1, <1>2, <1>3 DEF CallsTypes
<1>5. \A k \in Levels : k # Depth /\ activations[k].caught # NoFrame =>
        frames'[activations[k].caught].err = frames[activations[k].caught].err
  <2>1. ASSUME NEW k \in Levels, activations[k].caught # NoFrame
        PROVE  activations[k].caught # Top.frame /\ activations[k].caught \in Addresses
    BY <2>1, <1>1, <1>3, OnTop DEF Catching, ActivationShape
  <2>. QED BY <2>1, <1>1, <1>2, <1>3 DEF CallsTypes
<1>. QED BY <1>1, <1>2, <1>4, <1>5, PoppedFrames

(* A function returns. *)
LEMMA ReturnFrames ==
  ASSUME Frames, NEW what \in {"local", "other"}, Return(what)
  PROVE  Frames'
<1>1. CallsTypes /\ InFunction /\ activations # <<>> /\ raised' = raised
  BY DEF Frames, InFunction, Return
<1>2. PICK v : /\ v = IF what = "local" THEN Frame.local ELSE New
               /\ Leave([Frame EXCEPT !.ret = v, !.err = DefaultError], {v}, Cleanup({v}), "ok")
  BY DEF Return
<1>3. v \in Maybe
  <2>1. Frame.local \in Maybe
    BY <1>1, OnTop DEF FrameShape
  <2>2. what # "local" => New \in Maybe
    BY FreshValue DEF Return, Unused, Maybe
  <2>. QED BY <1>2, <2>1, <2>2
<1>4. [Frame EXCEPT !.ret = v, !.err = DefaultError] \in FrameShape
  BY <1>1, <1>3, OnTop DEF FrameShape, DefaultError, Maybe, CodesOrNone
<1>5. raised' \in CodesOrNone
  BY <1>1 DEF CallsTypes
<1>. QED BY <1>1, <1>2, <1>4, <1>5, LeaveFrames

(* A function throws an error of its own. *)
LEMMA ThrowLiteralFrames ==
  ASSUME Frames, NEW code \in Codes, throw_literal(code)
  PROVE  Frames'
<1>1. CallsTypes /\ InFunction /\ activations # <<>> /\ raised' = code /\ HasFreshValues(2)
  BY DEF Frames, InFunction, throw_literal
<1>2. PICK v : /\ v = CHOOSE w \in FreshValues(2) : w # New
               /\ Leave([Frame EXCEPT !.err = [code |-> code, message |-> v]], {New, v}, Cleanup({}), "error")
  BY DEF throw_literal
<1>3. v \in Maybe
  <2>1. PICK a, b \in Unused : a < b /\ New = a /\ FreshValues(2) = {a, b} /\ a \in Int /\ b \in Int
    BY <1>1, FreshPair
  <2>. QED BY <1>2, <2>1 DEF Unused, Maybe
<1>4. [Frame EXCEPT !.err = [code |-> code, message |-> v]] \in FrameShape
  BY <1>1, <1>3, OnTop DEF FrameShape, CodesOrNone
<1>5. [Frame EXCEPT !.err = [code |-> code, message |-> v]].err.code = raised' /\ raised' \in CodesOrNone
  BY <1>1, OnTop DEF FrameShape, CodesOrNone
<1>. QED BY <1>1, <1>2, <1>4, <1>5, LeaveFrames

(* A function throws the error it handles. *)
LEMMA ThrowCaughtFrames ==
  ASSUME Frames, throw_caught
  PROVE  Frames'
<1>1. CallsTypes /\ InFunction /\ activations # <<>> /\ Top.caught # NoFrame /\ HasFreshValues(1)
  BY DEF Frames, InFunction, throw_caught
<1>2. PICK c : /\ c = frames[Top.caught].err.code
               /\ Leave([Frame EXCEPT !.err = [code |-> c, message |-> New]], {New}, Cleanup({}), "error")
               /\ raised' = c
  BY DEF throw_caught
<1>3. New \in Maybe /\ c \in CodesOrNone
  <2>1. New \in Maybe
    BY <1>1, FreshValue DEF Unused, Maybe
  <2>2. Top.caught \in Addresses
    BY <1>1, OnTop DEF ActivationShape
  <2>3. frames[Top.caught] \in FrameShape
    BY <2>2, <1>1 DEF CallsTypes
  <2>. QED BY <2>1, <2>3, <1>2 DEF FrameShape
<1>4. [Frame EXCEPT !.err = [code |-> c, message |-> New]] \in FrameShape
  BY <1>1, <1>3, OnTop DEF FrameShape
<1>5. [Frame EXCEPT !.err = [code |-> c, message |-> New]].err.code = raised'
  BY <1>1, <1>2, OnTop DEF FrameShape
<1>. QED BY <1>1, <1>2, <1>3, <1>4, <1>5, LeaveFrames

(* A local variable and the parameters. *)
LEMMA PlacesAre == Places = {"local"} \union Params /\ "local" \notin Params /\ Params = {"first", "second"}
  BY DEF Places, Params

(* A slot holds a value or nothing. *)
LEMMA SlotTypes ==
  ASSUME NEW f \in FrameShape, NEW s \in Places
  PROVE  Slot(f, s) \in Maybe
  BY PlacesAre DEF FrameShape, Slot

(* Back in the caller. *)
LEMMA OnReturn ==
  ASSUME Frames, Returned
  PROVE  /\ CallsTypes /\ activations # <<>> /\ Pending(Depth) /\ CallIsCareful(Depth)
         /\ Top.call \in CallShape /\ Top.call.to \in Addresses /\ Top.call.to # Top.frame
         /\ Callee \in FrameShape /\ Callee = frames[Top.call.to]
<1>1. CallsTypes /\ activations # <<>> /\ Calling /\ outcome \in {"ok", "error"}
  BY DEF Frames, Returned
<1>2. Depth \in Levels /\ Depth > 0 /\ Top = activations[Depth] /\ Top \in ActivationShape
  BY <1>1, OnTop
<1>3. Pending(Depth) /\ CallIsCareful(Depth) /\ Top.call.to # Top.frame
  BY <1>1, <1>2 DEF Calling
<1>4. Top.call \in CallShape
  BY <1>2, <1>3 DEF ActivationShape, Pending
<1>5. Top.call.to \in Addresses
  BY <1>4 DEF CallShape
<1>. QED BY <1>1, <1>3, <1>4, <1>5 DEF CallsTypes, Callee

(* What comes back to the caller is what the callee has in the parameters
   that the caller's slots were lent to. *)
LEMMA WhatIsStoredBack ==
  ASSUME Frames, Returned
  PROVE  /\ StoredBack \in FrameShape /\ StoredBack.ret = Frame.ret /\ StoredBack.err = Frame.err
         /\ \A s \in Places :
              /\ ~Lent(Depth, s) => Slot(StoredBack, s) = Slot(Frame, s)
              /\ \A i \in Params : LentTo(Depth, s, i) => Slot(StoredBack, s) = Callee.params[i]
<1>. DEFINE From(form) == {i \in Params : IsStoredBack(Top.call, i) /\ Top.call.args[i] = form}
            Now(form, old) ==
              IF From(form) = {} THEN old
              ELSE Callee.params[Found(Top.call, IF "second" \in From(form) THEN "second" ELSE "first")]
<1>1. /\ CallsTypes /\ activations # <<>> /\ Pending(Depth) /\ CallIsCareful(Depth)
      /\ Top.call \in CallShape /\ Callee \in FrameShape
  BY OnReturn
<1>2. Depth \in Levels /\ Top = activations[Depth] /\ Frame \in FrameShape
  BY <1>1, OnTop
<1>3. StoredBack = [Frame EXCEPT !.local = Now("local", Frame.local),
                                 !.params = [i \in Params |-> Now(i, Frame.params[i])]]
  BY DEF StoredBack
<1>4. ASSUME NEW s \in Places
      PROVE  From(s) = {i \in Params : LentTo(Depth, s, i)}
  BY <1>1, <1>2, PlacesAre DEF IsStoredBack, LentTo, Params, CallIsCareful
<1>5. ASSUME NEW i \in Params, IsStoredBack(Top.call, i)
      PROVE  Found(Top.call, i) = i
  BY <1>5, <1>1, <1>2, PlacesAre DEF Found, IsStoredBack, CallIsCareful, CallShape, Params
<1>6. ASSUME NEW s \in Places, NEW old
      PROVE  /\ ~Lent(Depth, s) => Now(s, old) = old
             /\ \A i \in Params : LentTo(Depth, s, i) => Now(s, old) = Callee.params[i]
  <2>1. ~Lent(Depth, s) => From(s) = {}
    BY <1>4 DEF Lent
  <2>2. ASSUME NEW i \in Params, LentTo(Depth, s, i)
        PROVE  Now(s, old) = Callee.params[i]
    <3>1. i \in From(s)
      BY <2>2, <1>4
    <3>2. \A j \in Params : j \in From(s) => j = i
      BY <2>2, <1>1, <1>2, <1>4 DEF LentTo, CallIsCareful
    <3>3. From(s) # {} /\ (IF "second" \in From(s) THEN "second" ELSE "first") = i
      BY <3>1, <3>2, PlacesAre
    <3>4. Found(Top.call, i) = i
      BY <3>1, <1>5
    <3>. QED BY <3>3, <3>4
  <2>. QED BY <2>1, <2>2
<1>7. ASSUME NEW s \in Places
      PROVE  Now(s, Slot(Frame, s)) \in Maybe
  <2>1. Slot(Frame, s) \in Maybe
    BY <1>2, SlotTypes
  <2>2. \A i \in Params : Callee.params[i] \in Maybe
    BY <1>1 DEF FrameShape
  <2>3. CASE Lent(Depth, s)
    <3>1. PICK i \in Params : LentTo(Depth, s, i)
      BY <2>3 DEF Lent
    <3>2. Now(s, Slot(Frame, s)) = Callee.params[i]
      BY <3>1, <1>6
    <3>. HIDE DEF Now, From
    <3>. QED BY <3>2, <2>2
  <2>4. CASE ~Lent(Depth, s)
    <3>1. Now(s, Slot(Frame, s)) = Slot(Frame, s)
      BY <2>4, <1>6
    <3>. HIDE DEF Now, From
    <3>. QED BY <3>1, <2>1
  <2>. QED BY <2>3, <2>4
<1>. HIDE DEF Now, From
<1>8. Slot(StoredBack, "local") = Now("local", Frame.local) /\ Slot(Frame, "local") = Frame.local
  BY <1>2, <1>3 DEF Slot, FrameShape
<1>9. ASSUME NEW i \in Params
      PROVE  Slot(StoredBack, i) = Now(i, Frame.params[i]) /\ Slot(Frame, i) = Frame.params[i]
  BY <1>2, <1>3, PlacesAre DEF Slot, FrameShape
<1>10. ASSUME NEW s \in Places
       PROVE  Slot(StoredBack, s) = Now(s, Slot(Frame, s))
  BY <1>8, <1>9, PlacesAre
<1>11. StoredBack \in FrameShape
  <2>1. Now("local", Frame.local) \in Maybe
    BY <1>7, <1>8, PlacesAre
  <2>2. \A i \in Params : Now(i, Frame.params[i]) \in Maybe
    BY <1>7, <1>9, PlacesAre
  <2>. QED BY <1>2, <1>3, <2>1, <2>2 DEF FrameShape
<1>12. StoredBack.ret = Frame.ret /\ StoredBack.err = Frame.err
  BY <1>2, <1>3 DEF FrameShape
<1>. QED BY <1>6, <1>10, <1>11, <1>12

(* The default values make a frame. *)
LEMMA DefaultFrameType == DefaultFrame \in FrameShape
  BY DEF DefaultFrame, FrameShape, Maybe, DefaultError, CodesOrNone

(* The caller's frame and the callee's are all that changes. *)
LEMMA CaughtStays ==
  ASSUME Frames, Returned, NEW fr, Back(fr, Top.call.to)
  PROVE  \A k \in Levels : activations[k].caught # NoFrame =>
           /\ activations[k].caught \in Addresses /\ activations[k].caught # Top.call.to
           /\ activations[k].caught # Top.frame
           /\ frames'[activations[k].caught] = frames[activations[k].caught]
<1>1. CallsTypes /\ activations # <<>> /\ Catching /\ outcome # "none"
  BY DEF Frames, Returned
<1>2. frames' = [frames EXCEPT ![Top.frame] = fr, ![Top.call.to] = DefaultFrame]
  BY DEF Back
<1>3. ASSUME NEW k \in Levels, activations[k].caught # NoFrame
      PROVE  /\ activations[k].caught \in Addresses /\ activations[k].caught # Top.call.to
             /\ activations[k].caught # Top.frame
  BY <1>1, <1>3, OnTop DEF Catching, ActivationShape
<1>. QED BY <1>1, <1>2, <1>3 DEF CallsTypes

(* The caller goes on with the result, *)
LEMMA TakeResultFrames ==
  ASSUME Frames, NEW store \in BOOLEAN, TakeResult(store)
  PROVE  Frames'
<1>1. /\ CallsTypes /\ Stacking /\ Calling /\ Catching /\ Returned /\ activations # <<>>
      /\ outcome' = "none" /\ raised' = raised /\ steps' = steps /\ thread_stack' = thread_stack
  BY DEF Frames, TakeResult, Returned
<1>2. /\ Top.call.to \in Addresses /\ Top.call.to # Top.frame /\ Callee \in FrameShape /\ StoredBack \in FrameShape
  BY <1>1, OnReturn, WhatIsStoredBack
<1>3. [Top EXCEPT !.call = NoCall, !.declared = @ \/ store] \in ActivationShape
  BY <1>1, OnTop DEF ActivationShape
<1>4. /\ activations' \in Seq(ActivationShape) /\ Depth' = Depth /\ Levels' = Levels
      /\ activations'[Depth] = [Top EXCEPT !.call = NoCall, !.declared = @ \/ store]
      /\ activations' # <<>>
      /\ \A k \in Levels : k # Depth => activations'[k] = activations[k]
  BY <1>1, <1>3, TopReplaced DEF TakeResult
<1>5. /\ activations'[Depth].frame = Top.frame /\ activations'[Depth].size = Top.size
      /\ activations'[Depth].next = Top.next /\ activations'[Depth].mutable = Top.mutable
      /\ activations'[Depth].caught = Top.caught /\ activations'[Depth].call = NoCall
      /\ activations'[Depth].expected = Top.expected
  BY <1>1, <1>4, OnTop DEF ActivationShape
<1>6. PICK fr \in FrameShape : Back(fr, Top.call.to)
  <2>1. PICK fr : Back(fr, Top.call.to) /\ fr = IF store THEN [StoredBack EXCEPT !.local = Callee.ret] ELSE StoredBack
    BY DEF TakeResult
  <2>2. fr \in FrameShape
    BY <2>1, <1>2 DEF FrameShape
  <2>. QED BY <2>1, <2>2
<1>7. frames' \in [Addresses -> FrameShape]
  BY <1>1, <1>2, <1>6, OnTop, DefaultFrameType DEF CallsTypes, Back
<1>8. CallsTypes'
  BY <1>1, <1>4, <1>7 DEF CallsTypes
<1>9. \A k \in Levels :
        /\ activations'[k].frame = activations[k].frame
        /\ activations'[k].size = activations[k].size
        /\ activations'[k].next = activations[k].next
        /\ activations'[k].mutable = activations[k].mutable
        /\ activations'[k].caught = activations[k].caught
        /\ activations'[k].expected = activations[k].expected
  BY <1>1, <1>4, <1>5, OnTop
<1>10. Stacking'
  BY <1>1, <1>4, <1>9, OnTop, StackingStays
<1>11. Depth \in Nat /\ Depth >= 1 /\ Depth \in Levels /\ \A k \in Levels : k # Depth <=> k < Depth
  BY <1>1, OnTop DEF Levels
<1>12. Calling'
  <2>1. \A k \in Levels : k # Depth /\ CallIsCareful(k) => CallIsCareful(k)'
    BY <1>4 DEF CallIsCareful
  <2>2. \A k \in Levels : k < Depth => k + 1 \in Levels
    BY <1>11 DEF Levels
  <2>3. \A k \in Levels : k < Depth => Pending(k) /\ CallIsCareful(k) /\ activations'[k] = activations[k]
    BY <1>1, <1>4, <1>11 DEF Calling
  <2>4. \A k \in Levels : Pending(k)' <=> k < Depth
    BY <1>4, <1>5, <1>11, <2>3 DEF Pending
  <2>5. \A k \in Levels : k < Depth =>
          /\ activations'[k].call.to = activations'[k + 1].frame
          /\ activations'[k].call.mutable = activations'[k + 1].mutable
    BY <1>1, <1>9, <2>2, <2>3 DEF Calling
  <2>6. \A k \in Levels : Pending(k)' => CallIsCareful(k)'
    BY <1>11, <2>1, <2>3, <2>4
  <2>. QED BY <1>1, <1>4, <1>11, <2>4, <2>5, <2>6 DEF Calling
<1>13. Catching'
  BY <1>1, <1>4, <1>6, <1>9, CaughtStays DEF Catching
<1>. QED BY <1>8, <1>10, <1>12, <1>13 DEF Frames

(* or handles the error, whose frame is not used for anything else before
   the handler ends, *)
LEMMA EnterCatchFrames ==
  ASSUME Frames, EnterCatch
  PROVE  Frames'
<1>1. /\ CallsTypes /\ Stacking /\ Calling /\ Catching /\ Returned /\ activations # <<>>
      /\ outcome = "error" /\ Top.call.catches
      /\ outcome' = "none" /\ raised' = raised /\ steps' = steps /\ thread_stack' = thread_stack
      /\ frames' = [frames EXCEPT ![Top.frame] = StoredBack]
  BY DEF Frames, EnterCatch, Returned
<1>2. /\ Top.call.to \in Addresses /\ Top.call.to # Top.frame /\ Callee \in FrameShape /\ StoredBack \in FrameShape
      /\ CallIsCareful(Depth)
  BY <1>1, OnReturn, WhatIsStoredBack
<1>3. [Top EXCEPT !.caught = Top.call.to, !.call = NoCall, !.expected = raised] \in ActivationShape
  BY <1>1, <1>2, OnTop DEF ActivationShape, CallsTypes
<1>4. /\ activations' \in Seq(ActivationShape) /\ Depth' = Depth /\ Levels' = Levels
      /\ activations'[Depth] = [Top EXCEPT !.caught = Top.call.to, !.call = NoCall, !.expected = raised]
      /\ activations' # <<>>
      /\ \A k \in Levels : k # Depth => activations'[k] = activations[k]
  BY <1>1, <1>3, TopReplaced DEF EnterCatch
<1>5. /\ activations'[Depth].frame = Top.frame /\ activations'[Depth].size = Top.size
      /\ activations'[Depth].next = Top.next /\ activations'[Depth].mutable = Top.mutable
      /\ activations'[Depth].caught = Top.call.to /\ activations'[Depth].call = NoCall
      /\ activations'[Depth].expected = raised
  BY <1>1, <1>4, OnTop DEF ActivationShape
<1>7. frames' \in [Addresses -> FrameShape]
  BY <1>1, <1>2, OnTop DEF CallsTypes
<1>8. CallsTypes'
  BY <1>1, <1>4, <1>7 DEF CallsTypes
<1>9. \A k \in Levels :
        /\ activations'[k].frame = activations[k].frame
        /\ activations'[k].size = activations[k].size
        /\ activations'[k].next = activations[k].next
        /\ activations'[k].mutable = activations[k].mutable
  BY <1>1, <1>4, <1>5, OnTop
<1>10. Stacking'
  BY <1>1, <1>4, <1>9, OnTop, StackingStays
<1>11. Depth \in Nat /\ Depth >= 1 /\ Depth \in Levels /\ \A k \in Levels : k # Depth <=> k < Depth
  BY <1>1, OnTop DEF Levels
<1>12. Calling'
  <2>1. \A k \in Levels : k # Depth /\ CallIsCareful(k) => CallIsCareful(k)'
    BY <1>4 DEF CallIsCareful
  <2>2. \A k \in Levels : k < Depth => k + 1 \in Levels
    BY <1>11 DEF Levels
  <2>3. \A k \in Levels : k < Depth => Pending(k) /\ CallIsCareful(k) /\ activations'[k] = activations[k]
    BY <1>1, <1>4, <1>11 DEF Calling
  <2>4. \A k \in Levels : Pending(k)' <=> k < Depth
    BY <1>4, <1>5, <1>11, <2>3 DEF Pending
  <2>5. \A k \in Levels : k < Depth =>
          /\ activations'[k].call.to = activations'[k + 1].frame
          /\ activations'[k].call.mutable = activations'[k + 1].mutable
    BY <1>1, <1>9, <2>2, <2>3 DEF Calling
  <2>6. \A k \in Levels : Pending(k)' => CallIsCareful(k)'
    BY <1>11, <2>1, <2>3, <2>4
  <2>. QED BY <1>1, <1>4, <1>11, <2>4, <2>5, <2>6 DEF Calling
<1>13. Catching'
  <2>1. \A k \in Levels : activations[k].caught # Top.call.to /\ activations[k].frame # Top.call.to
    <3>1. \A k \in Levels : activations[k].caught # NoFrame => activations[k].caught # Top.call.to
      BY <1>1 DEF Catching
    <3>2. \A k \in Levels : activations[k].frame # Top.call.to
      BY <1>1, <1>11 DEF Calling
    <3>. QED BY <3>1, <3>2, <1>2, NoFrameIsNone
  <2>2. \A k \in Levels : k # Depth /\ activations[k].caught # NoFrame =>
          frames'[activations[k].caught] = frames[activations[k].caught]
    <3>1. ASSUME NEW k \in Levels, activations[k].caught # NoFrame
          PROVE  activations[k].caught \in Addresses /\ activations[k].caught # Top.frame
      BY <3>1, <1>1, OnTop DEF Catching, ActivationShape
    <3>. QED BY <3>1, <1>1 DEF CallsTypes
  <2>3. frames'[Top.call.to] = frames[Top.call.to] /\ frames[Top.call.to].err.code = raised
    BY <1>1, <1>2, <1>11 DEF Catching, CallsTypes
  <2>4. \A k \in Levels : IF k = Depth THEN /\ activations'[k].caught = Top.call.to
                                            /\ activations'[k].expected = raised
                           ELSE /\ activations'[k].caught = activations[k].caught
                                /\ activations'[k].expected = activations[k].expected
    BY <1>4, <1>5
  <2>5. ASSUME NEW k \in Levels, activations'[k].caught # NoFrame
        PROVE  /\ \A j \in Levels : activations'[j].frame # activations'[k].caught
               /\ \A j \in Levels : activations'[j].caught = activations'[k].caught => j = k
               /\ frames'[activations'[k].caught].err.code = activations'[k].expected
    <3>1. CASE k = Depth
      <4>1. \A j \in Levels : activations'[j].frame # Top.call.to
        BY <1>9, <2>1
      <4>2. \A j \in Levels : j # Depth => activations'[j].caught # Top.call.to
        BY <2>1, <2>4
      <4>. QED BY <3>1, <4>1, <4>2, <2>3, <2>4
    <3>2. CASE k # Depth
      <4>1. activations[k].caught # NoFrame /\ activations'[k].caught = activations[k].caught
        BY <2>4, <2>5, <3>2
      <4>2. \A j \in Levels : activations'[j].frame # activations[k].caught
        BY <1>1, <1>9, <4>1 DEF Catching
      <4>3. \A j \in Levels : activations'[j].caught = activations[k].caught => j = k
        BY <1>1, <2>1, <2>4, <4>1 DEF Catching
      <4>. QED BY <1>1, <2>2, <2>4, <3>2, <4>1, <4>2, <4>3 DEF Catching
    <3>. QED BY <3>1, <3>2
  <2>. QED BY <1>1, <1>4, <2>5 DEF Catching
<1>. QED BY <1>8, <1>10, <1>12, <1>13 DEF Frames

(* or ends with the same error. *)
LEMMA RethrowFrames ==
  ASSUME Frames, generate_rethrow
  PROVE  Frames'
<1>1. /\ CallsTypes /\ Catching /\ Returned /\ activations # <<>> /\ outcome = "error" /\ activations' = Pop
      /\ outcome' = outcome /\ raised' = raised /\ steps' = steps /\ thread_stack' = thread_stack
  BY DEF Frames, generate_rethrow, Returned
<1>2. /\ Top.call.to \in Addresses /\ Top.call.to # Top.frame /\ Callee \in FrameShape /\ StoredBack \in FrameShape
      /\ Callee = frames[Top.call.to]
  BY <1>1, OnReturn, WhatIsStoredBack
<1>3. PICK fr : fr = [StoredBack EXCEPT !.err = Callee.err] /\ Back(fr, Top.call.to)
  BY DEF generate_rethrow
<1>4. fr \in FrameShape /\ fr.err = Callee.err
  BY <1>2, <1>3 DEF FrameShape
<1>5. frames' \in [Addresses -> FrameShape] /\ frames'[Top.frame] = fr
  BY <1>1, <1>2, <1>3, <1>4, OnTop, DefaultFrameType DEF CallsTypes, Back
<1>6. Callee.err.code = raised
  BY <1>1, <1>2, OnTop DEF Catching
<1>7. \A k \in Levels : k # Depth /\ activations[k].caught # NoFrame =>
        frames'[activations[k].caught].err = frames[activations[k].caught].err
  BY <1>1, <1>3, CaughtStays
<1>8. raised' \in CodesOrNone
  BY <1>1 DEF CallsTypes
<1>. QED BY <1>1, <1>4, <1>5, <1>6, <1>7, <1>8, PoppedFrames

(* A call for which there is no room ends the program. *)
LEMMA OverflowFrames ==
  ASSUME Frames, NEW size \in Sizes, Overflow(size)
  PROVE  Frames'
<1>1. CallsTypes /\ activations' = <<>> /\ outcome' = "aborted" /\ frames' = frames /\ raised' = raised
      /\ steps' = steps /\ thread_stack' = thread_stack
  BY DEF Frames, Overflow
<1>2. Depth' = 0 /\ Levels' = {} /\ activations' \in Seq(ActivationShape)
  BY <1>1 DEF Depth, Levels
<1>3. CallsTypes'
  BY <1>1, <1>2 DEF CallsTypes
<1>4. Stacking' /\ Calling' /\ Catching'
  BY <1>1, <1>2 DEF Stacking, Calling, Catching
<1>. QED BY <1>3, <1>4 DEF Frames

(* The generated main ends the program when its call came back. *)
LEMMA MainFrames ==
  ASSUME Frames, generate_builtin_main
  PROVE  Frames'
<1>1. CallsTypes /\ activations = <<>> /\ activations' = <<>> /\ outcome' = "ended" /\ frames' = frames
      /\ raised' = raised /\ steps' = steps /\ thread_stack' = thread_stack
  BY DEF Frames, generate_builtin_main
<1>2. Depth' = 0 /\ Levels' = {} /\ activations' \in Seq(ActivationShape)
  BY <1>1 DEF Depth, Levels
<1>3. CallsTypes'
  BY <1>1, <1>2 DEF CallsTypes
<1>4. Stacking' /\ Calling' /\ Catching'
  BY <1>1, <1>2 DEF Stacking, Calling, Catching
<1>. QED BY <1>3, <1>4 DEF Frames

(* What an argument can be. *)
ArgumentForms == {"temporary"} \union Places

(* What is passed: fresh values for the temporaries, each its own, and
   what is in the slots otherwise. *)
LEMMA PassedValues ==
  ASSUME CallsTypes, activations # <<>>, NEW args \in [Params -> ArgumentForms],
         HasFreshValues(Cardinality(Temporaries(args)))
  PROVE  /\ Passed(args) \in [Params -> Maybe]
         /\ \A i \in Params : IF args[i] = "temporary" THEN Passed(args)[i] \in Unused
                              ELSE args[i] \in Places /\ Passed(args)[i] = Slot(Frame, args[i])
         /\ Passed(args)["first"] = Passed(args)["second"] =>
              args["first"] # "temporary" \/ args["second"] # "temporary"
<1>. DEFINE n == Cardinality(Temporaries(args))
            fresh == FreshValues(n)
            least == CHOOSE v \in fresh : \A w \in fresh : v <= w
            most == CHOOSE v \in fresh : \A w \in fresh : v >= w
            passed == Passed(args)
<1>1. passed = [i \in Params |-> IF args[i] # "temporary" THEN Slot(Frame, args[i])
                                 ELSE IF i = "first" \/ args["first"] # "temporary" THEN least ELSE most]
  BY DEF Passed
<1>2. Params = {"first", "second"} /\ "first" # "second"
  BY DEF Params
<1>3. Unused \in SUBSET (1..MaxValues) /\ MaxValues \in Nat /\ Unused \subseteq Maybe
  BY CallsAssumption DEF Unused, Values, Maybe
<1>4. ASSUME n = 1
      PROVE  least \in Unused
  <2>1. PICK a \in Unused : Smallest(Unused, 1) = {a}
    BY <1>3, <1>4, SmallestOne DEF HasFreshValues
  <2>2. fresh = {a}
    BY <1>4, <2>1 DEF FreshValues, Smallest
  <2>. HIDE DEF fresh
  <2>3. least = a
    BY <2>2, <2>1, <1>3
  <2>. QED BY <2>1, <2>3
<1>5. ASSUME n = 2
      PROVE  least \in Unused /\ most \in Unused /\ least # most
  <2>1. PICK a, b \in Unused : a < b /\ fresh = {a, b} /\ a \in Int /\ b \in Int
    BY <1>5, FreshPair
  <2>. HIDE DEF fresh
  <2>2. least = a /\ most = b
    BY <2>1
  <2>. QED BY <2>1, <2>2
<1>6. \A i \in Params : args[i] # "temporary" => args[i] \in Places /\ Slot(Frame, args[i]) \in Maybe
  <2>1. Frame \in FrameShape
    BY OnTop
  <2>. QED BY <2>1, SlotTypes DEF ArgumentForms
<1>7. CASE args["first"] = "temporary" /\ args["second"] = "temporary"
  <2>1. n = 2
    <3>1. Temporaries(args) = {"first"} \union {"second"}
      BY <1>7, <1>2 DEF Temporaries
    <3>2. Cardinality({"first"} \union {"second"}) = Cardinality({"first"}) + 1 /\ Cardinality({"first"}) = 1
      BY <1>2, FS_Singleton, FS_AddElement
    <3>. QED BY <3>1, <3>2
  <2>. HIDE DEF least, most, n, passed
  <2>2. passed["first"] = least /\ passed["second"] = most
    BY <1>1, <1>2, <1>7
  <2>. QED BY <2>1, <2>2, <1>1, <1>2, <1>3, <1>5, <1>7 DEF passed
<1>8. CASE args["first"] = "temporary" /\ args["second"] # "temporary"
  <2>1. n = 1
    <3>1. Temporaries(args) = {"first"}
      BY <1>8, <1>2 DEF Temporaries
    <3>. QED BY <3>1, FS_Singleton
  <2>. HIDE DEF least, most, n, passed
  <2>2. passed["first"] = least /\ passed["second"] = Slot(Frame, args["second"])
    BY <1>1, <1>2, <1>8
  <2>. QED BY <2>1, <2>2, <1>1, <1>2, <1>3, <1>4, <1>6, <1>8 DEF passed
<1>9. CASE args["first"] # "temporary" /\ args["second"] = "temporary"
  <2>1. n = 1
    <3>1. Temporaries(args) = {"second"}
      BY <1>9, <1>2 DEF Temporaries
    <3>. QED BY <3>1, FS_Singleton
  <2>. HIDE DEF least, most, n, passed
  <2>2. passed["second"] = least /\ passed["first"] = Slot(Frame, args["first"])
    BY <1>1, <1>2, <1>9
  <2>. QED BY <2>1, <2>2, <1>1, <1>2, <1>3, <1>4, <1>6, <1>9 DEF passed
<1>10. CASE args["first"] # "temporary" /\ args["second"] # "temporary"
  <2>. HIDE DEF least, most, n, passed
  <2>. QED BY <1>1, <1>2, <1>6, <1>10 DEF passed
<1>. QED BY <1>7, <1>8, <1>9, <1>10

(* What a call comes to, be it of a function or of a callable. *)
Enters(to, callee, fr) ==
  /\ to \in Addresses
  /\ \A k \in Levels : activations[k].frame # to /\ activations[k].caught # to
  /\ callee \in ActivationShape /\ callee.frame = to /\ callee.declared = FALSE
  /\ callee.call = NoCall /\ callee.caught = NoFrame
  /\ to \notin Callables =>
       callee.size >= 1 /\ to + callee.size <= Capacity /\ to + callee.size <= callee.next
  /\ \A k \in Levels : activations[k].frame \notin Callables =>
       activations[k].frame + activations[k].size <= callee.next
  /\ fr \in FrameShape
  /\ fr.local = Nil \/ fr.local = frames[to].local

(* What CallIsCareful says, of a call that is made now. *)
IsCareful(to, args, mutable, catches) ==
  /\ \A i, j \in Params : i # j /\ mutable[i] => args[i] # args[j]
  /\ \A i \in Params :
       /\ mutable[i] => args[i] # "temporary"
       /\ mutable[i] /\ args[i] \in Params => Top.mutable[args[i]]
       /\ args[i] \in Params => Depth > 1
       /\ args[i] = "local" => Top.declared
  /\ to \in Callables /\ mutable["second"] => mutable["first"]
  /\ catches => Top.caught = NoFrame
  /\ Top.caught \in Callables \union {NoFrame}

(* Without the calls of CallsCareless every call is careful. *)
LEMMA CarefulCalls ==
  ASSUME CallsCareless = {}, CallsTypes, NEW to, NEW list \in ArgumentLists, NEW catches \in BOOLEAN,
         MayCall(to, list.args, list.mutable, catches)
  PROVE  /\ IsCareful(to, list.args, list.mutable, catches)
         /\ activations # <<>> /\ outcome = "none"
         /\ list.args \in [Params -> ArgumentForms] /\ list.mutable \in [Params -> BOOLEAN]
         /\ Passed(list.args) \in [Params -> Maybe]
         /\ steps' \in 0..MaxSteps
<1>1. activations # <<>> /\ outcome = "none" /\ steps < MaxSteps /\ steps' = steps + 1
  BY DEF MayCall, Step, Ready, InFunction
<1>2. list.args \in [Params -> ArgumentForms] /\ list.mutable \in [Params -> BOOLEAN]
  BY CallsAssumption DEF ArgumentForms, Places, Params
<1>3. \A i \in Params : list.args[i] \in Forms
  BY DEF MayCall
<1>4. /\ \A i \in Params : list.args[i] \in Params => Depth > 1
      /\ \A i \in Params : list.args[i] = "local" => Top.declared
  BY <1>3 DEF Forms, Params, Depth
<1>5. /\ \A i \in Params : list.mutable[i] => list.args[i] # "temporary"
      /\ \A i \in Params : list.mutable[i] /\ list.args[i] \in Params => Top.mutable[list.args[i]]
  BY DEF MayCall, Sound
<1>6. \A i, j \in Params : i # j /\ list.mutable[i] => list.args[i] # list.args[j]
  BY <1>5 DEF MayCall, Sound
<1>7. to \in Callables /\ list.mutable["second"] => list.mutable["first"]
  BY <1>5 DEF MayCall, Params
<1>8. (catches => Top.caught = NoFrame) /\ Top.caught \in Callables \union {NoFrame}
  BY DEF MayCall
<1>9. Passed(list.args) \in [Params -> Maybe]
  BY <1>1, <1>2, PassedValues DEF MayCall
<1>10. steps' \in 0..MaxSteps
  BY <1>1, CallsAssumption DEF CallsTypes
<1>. QED BY <1>1, <1>2, <1>4, <1>5, <1>6, <1>7, <1>8, <1>9, <1>10 DEF IsCareful

(* A call of a function enters a frame behind that of the caller, *)
LEMMA FunctionsEnter ==
  ASSUME CallsCareless = {}, Frames, NEW list \in ArgumentLists, NEW catches \in BOOLEAN, NEW size \in Sizes,
         generate_call(size, list.args, list.mutable, catches)
  PROVE  \E callee, fr :
           /\ Enters(Top.next, callee, fr) /\ callee.mutable = list.mutable /\ fr.params = Passed(list.args)
           /\ Invoke(Top.next, callee, fr, list.args, list.mutable, catches)
           /\ MayCall(Top.next, list.args, list.mutable, catches)
           /\ thread_stack' \in [stack_ptr : 0..Capacity, callable : {FALSE}]
<1>1. CallsTypes /\ Stacking /\ MayCall(Top.next, list.args, list.mutable, catches) /\ HasSpace(size)
  BY DEF Frames, generate_call
<1>2. /\ activations # <<>> /\ list.mutable \in [Params -> BOOLEAN] /\ Passed(list.args) \in [Params -> Maybe]
      /\ Top.caught \in Callables \union {NoFrame}
  BY <1>1, CarefulCalls DEF IsCareful
<1>3. /\ Depth \in Levels /\ Top = activations[Depth] /\ Top \in ActivationShape
      /\ \A k \in Levels : activations[k] \in ActivationShape /\ k \in 1..Depth
  BY <1>1, <1>2, OnTop DEF Levels
<1>4. Capacity \in Nat /\ size \in Nat /\ size >= 1 /\ Top.next \in Nat /\ Top.next + size <= Capacity
  BY <1>1, <1>3, CallsAssumption DEF ActivationShape, HasSpace
<1>5. Top.next \in Addresses /\ Top.next \notin Callables
  BY <1>4, CallsAssumption DEF Addresses
<1>. DEFINE ts == [thread_stack EXCEPT !.callable = FALSE]
            callee == Entered(Top.next, size, list.mutable, ts)
            fr == [DefaultFrame EXCEPT !.params = Passed(list.args)]
<1>6. ts \in [stack_ptr : 0..Capacity, callable : {FALSE}] /\ ts.callable = FALSE
  BY <1>1 DEF CallsTypes
<1>7. callee = [frame |-> Top.next, size |-> size, next |-> Top.next + size, mutable |-> list.mutable,
                declared |-> FALSE, call |-> NoCall, caught |-> NoFrame, expected |-> "none"]
  BY <1>6 DEF Entered
<1>8. fr \in FrameShape /\ fr.local = Nil /\ fr.params = Passed(list.args)
  BY <1>2, DefaultFrameType DEF FrameShape, DefaultFrame
<1>9. Invoke(Top.next, callee, fr, list.args, list.mutable, catches) /\ thread_stack' = ts
  BY DEF generate_call
<1>. HIDE DEF callee, fr, ts
<1>10. callee \in ActivationShape
  BY <1>2, <1>4, <1>5, <1>7 DEF ActivationShape, CodesOrNone
<1>11. \A k \in Levels : activations[k].frame \notin Callables =>
         /\ activations[k].size >= 1 /\ activations[k].frame + activations[k].size <= Top.next
  BY <1>1, <1>3 DEF Stacking
<1>12. ASSUME NEW k \in Levels
       PROVE  /\ activations[k].frame # Top.next
              /\ activations[k].frame \notin Callables => activations[k].frame + activations[k].size <= callee.next
  <2>1. activations[k].frame \notin Callables => activations[k].frame \in Nat /\ activations[k].size \in Nat
    BY <1>3, CallsAssumption DEF ActivationShape, Addresses
  <2>. QED BY <2>1, <1>11, <1>4, <1>5, <1>7
<1>13. \A k \in Levels : activations[k].caught # Top.next
  <2>1. \A k \in Levels : activations[k].caught \in Callables \union {NoFrame}
    BY <1>1, <1>2, <1>3 DEF Frames, Calling, CallIsCareful
  <2>. QED BY <2>1, <1>5, NoFrameIsNone
<1>14. Enters(Top.next, callee, fr)
  BY <1>4, <1>5, <1>7, <1>8, <1>10, <1>12, <1>13 DEF Enters
<1>. QED BY <1>1, <1>6, <1>7, <1>8, <1>9, <1>14

(* that of a callable its own. *)
LEMMA CallablesEnter ==
  ASSUME CallsCareless = {}, Frames, NEW list \in ArgumentLists, NEW catches \in BOOLEAN,
         NEW callable \in Callables, generate_callable_call(callable, list.args, list.mutable, catches)
  PROVE  \E callee, fr :
           /\ Enters(callable, callee, fr) /\ callee.mutable = list.mutable /\ fr.params = Passed(list.args)
           /\ Invoke(callable, callee, fr, list.args, list.mutable, catches)
           /\ MayCall(callable, list.args, list.mutable, catches)
           /\ thread_stack' \in [stack_ptr : 0..Capacity, callable : {FALSE}]
<1>1. CallsTypes /\ Stacking /\ MayCall(callable, list.args, list.mutable, catches) /\ Idle(callable)
  BY DEF Frames, generate_callable_call
<1>2. /\ activations # <<>> /\ list.mutable \in [Params -> BOOLEAN] /\ Passed(list.args) \in [Params -> Maybe]
  BY <1>1, CarefulCalls
<1>3. /\ Depth \in Levels /\ Top = activations[Depth] /\ Top \in ActivationShape
      /\ \A k \in Levels : activations[k] \in ActivationShape /\ k \in 1..Depth
  BY <1>1, <1>2, OnTop DEF Levels
<1>4. Top.next \in 0..Capacity /\ Capacity \in Nat /\ callable \in Addresses
  BY <1>3, CallsAssumption DEF ActivationShape, Addresses
<1>. DEFINE ts == [stack_ptr |-> Top.next, callable |-> TRUE]
            callee == Entered(callable, 0, list.mutable, ts)
            fr == [frames[callable] EXCEPT !.params = Passed(list.args)]
<1>5. callee = [frame |-> callable, size |-> 0, next |-> Top.next, mutable |-> list.mutable,
                declared |-> FALSE, call |-> NoCall, caught |-> NoFrame, expected |-> "none"]
  BY DEF Entered
<1>6. fr \in FrameShape /\ fr.local = frames[callable].local /\ fr.params = Passed(list.args)
  BY <1>1, <1>2, <1>4 DEF FrameShape, CallsTypes
<1>7. /\ Invoke(callable, callee, fr, list.args, list.mutable, catches)
      /\ thread_stack' = [stack_ptr |-> Top.next, callable |-> FALSE]
  BY DEF generate_callable_call
<1>. HIDE DEF callee, fr, ts
<1>8. callee \in ActivationShape
  BY <1>2, <1>4, <1>5 DEF ActivationShape, CodesOrNone
<1>9. \A k \in Levels : activations[k].frame \notin Callables =>
        activations[k].frame + activations[k].size <= callee.next
  BY <1>1, <1>3, <1>5 DEF Stacking
<1>10. \A k \in Levels : activations[k].frame # callable /\ activations[k].caught # callable
  BY <1>1 DEF Idle, Levels, Depth, CallsTypes
<1>11. Enters(callable, callee, fr)
  BY <1>4, <1>5, <1>6, <1>8, <1>9, <1>10 DEF Enters
<1>. QED BY <1>1, <1>4, <1>5, <1>6, <1>7, <1>11

(* The activations after a call. *)
CallRecord(to, args, mutable, catches) ==
  [to |-> to, args |-> args, values |-> Passed(args), mutable |-> mutable, catches |-> catches]

(* The call c is on its way from the activation that was on top. *)
IsPushed(c, callee) ==
  /\ c \in CallShape /\ c # NoCall
  /\ activations' \in Seq(ActivationShape) /\ activations' # <<>>
  /\ Depth' = Depth + 1 /\ Levels' = Levels \union {Depth + 1} /\ Top' = callee
  /\ activations'[Depth + 1] = callee /\ Depth + 1 \notin Levels
  /\ \A k \in Levels : k # Depth => activations'[k] = activations[k]
  /\ \A k \in Levels :
       /\ activations'[k].frame = activations[k].frame
       /\ activations'[k].size = activations[k].size
       /\ activations'[k].next = activations[k].next
       /\ activations'[k].mutable = activations[k].mutable
       /\ activations'[k].declared = activations[k].declared
       /\ activations'[k].caught = activations[k].caught
       /\ activations'[k].expected = activations[k].expected
       /\ activations'[k].call = IF k = Depth THEN c ELSE activations[k].call

(* Nothing else changes among the activations. *)
LEMMA TopPushed ==
  ASSUME CallsCareless = {}, CallsTypes, NEW to, NEW callee, NEW fr, NEW list \in ArgumentLists, NEW catches \in BOOLEAN,
         Enters(to, callee, fr), Invoke(to, callee, fr, list.args, list.mutable, catches),
         MayCall(to, list.args, list.mutable, catches)
  PROVE  IsPushed(CallRecord(to, list.args, list.mutable, catches), callee)
<1>. DEFINE c == CallRecord(to, list.args, list.mutable, catches)
            x == [Top EXCEPT !.call = c]
<1>1. /\ activations # <<>> /\ list.args \in [Params -> ArgumentForms] /\ list.mutable \in [Params -> BOOLEAN]
      /\ Passed(list.args) \in [Params -> Maybe] /\ to \in Addresses
  BY CarefulCalls DEF Enters
<1>2. c \in CallShape
  BY <1>1 DEF CallRecord, CallShape, ArgumentForms
<1>3. c # NoCall
  BY <1>2, CallsAreCalls
<1>4. activations' = Append(Replace(x), callee)
  BY DEF Invoke, CallRecord
<1>. HIDE DEF c
<1>5. x \in ActivationShape
  BY <1>1, <1>2, OnTop DEF ActivationShape
<1>6. Depth \in Nat /\ Depth >= 1 /\ Depth \in Levels /\ Top = activations[Depth] /\ Levels = 1..Depth
      /\ Top \in ActivationShape
  BY <1>1, OnTop DEF Levels
<1>. DEFINE q == Append(Pop, x)
<1>7. /\ q \in Seq(ActivationShape) /\ Len(q) = Depth /\ q[Depth] = x
      /\ \A k \in 1..(Depth - 1) : q[k] = activations[k]
  BY <1>1, <1>5, Replacing DEF CallsTypes, Pop, Depth
<1>8. activations' = Append(q, callee)
  BY <1>4 DEF Replace
<1>. HIDE DEF q
<1>9. /\ activations' \in Seq(ActivationShape) /\ Len(activations') = Depth + 1 /\ activations'[Depth + 1] = callee
      /\ \A k \in 1..Depth : activations'[k] = q[k]
  BY <1>7, <1>8, Pushing DEF Enters
<1>10. Depth' = Depth + 1 /\ Levels' = Levels \union {Depth + 1} /\ Top' = callee /\ Depth + 1 \notin Levels
       /\ activations' # <<>>
  BY <1>6, <1>9 DEF Depth, Levels, Top
<1>11. activations'[Depth] = x /\ \A k \in Levels : k # Depth => activations'[k] = activations[k]
  BY <1>6, <1>7, <1>9
<1>12. /\ x.frame = Top.frame /\ x.size = Top.size /\ x.next = Top.next /\ x.mutable = Top.mutable
       /\ x.declared = Top.declared /\ x.caught = Top.caught /\ x.expected = Top.expected /\ x.call = c
  BY <1>6 DEF ActivationShape
<1>. HIDE DEF x
<1>13. \A k \in Levels :
         /\ activations'[k].frame = activations[k].frame
         /\ activations'[k].size = activations[k].size
         /\ activations'[k].next = activations[k].next
         /\ activations'[k].mutable = activations[k].mutable
         /\ activations'[k].declared = activations[k].declared
         /\ activations'[k].caught = activations[k].caught
         /\ activations'[k].expected = activations[k].expected
         /\ activations'[k].call = IF k = Depth THEN c ELSE activations[k].call
  BY <1>6, <1>11, <1>12
<1>. QED BY <1>2, <1>3, <1>9, <1>10, <1>11, <1>13 DEF c, IsPushed

(* A call leaves the frames in order, *)
LEMMA InvokeFrames ==
  ASSUME CallsCareless = {}, Frames, NEW to, NEW callee, NEW fr, NEW list \in ArgumentLists, NEW catches \in BOOLEAN,
         Enters(to, callee, fr), Invoke(to, callee, fr, list.args, list.mutable, catches),
         MayCall(to, list.args, list.mutable, catches), callee.mutable = list.mutable,
         thread_stack' \in [stack_ptr : 0..Capacity, callable : {FALSE}]
  PROVE  Frames'
<1>. DEFINE c == CallRecord(to, list.args, list.mutable, catches)
<1>0. CallsTypes /\ Stacking /\ Calling /\ Catching
  BY DEF Frames
<1>1. /\ CallsTypes /\ Stacking /\ Calling /\ Catching /\ activations # <<>> /\ outcome = "none"
      /\ IsCareful(to, list.args, list.mutable, catches) /\ steps' \in 0..MaxSteps
  <2>1. /\ IsCareful(to, list.args, list.mutable, catches)
        /\ activations # <<>> /\ outcome = "none"
        /\ list.args \in [Params -> ArgumentForms] /\ list.mutable \in [Params -> BOOLEAN]
        /\ Passed(list.args) \in [Params -> Maybe]
        /\ steps' \in 0..MaxSteps
    BY <1>0, CarefulCalls
  <2>. QED BY <1>0, <2>1
<1>14. IsPushed(c, callee)
  BY <1>0, TopPushed
<1>2. /\ c \in CallShape /\ c # NoCall
      /\ activations' \in Seq(ActivationShape) /\ activations' # <<>>
      /\ Depth' = Depth + 1 /\ Levels' = Levels \union {Depth + 1} /\ Top' = callee
      /\ activations'[Depth + 1] = callee /\ Depth + 1 \notin Levels
  BY <1>14 DEF IsPushed
<1>3. \A k \in Levels :
        /\ activations'[k].frame = activations[k].frame
        /\ activations'[k].size = activations[k].size
        /\ activations'[k].next = activations[k].next
        /\ activations'[k].mutable = activations[k].mutable
        /\ activations'[k].declared = activations[k].declared
        /\ activations'[k].caught = activations[k].caught
        /\ activations'[k].expected = activations[k].expected
        /\ activations'[k].call = IF k = Depth THEN c ELSE activations[k].call
  BY <1>14 DEF IsPushed
<1>4. /\ c.to = to /\ c.args = list.args /\ c.mutable = list.mutable /\ c.catches = catches
  BY DEF CallRecord
<1>. HIDE DEF c
<1>5. /\ Depth \in Nat /\ Depth >= 1 /\ Depth \in Levels /\ Top = activations[Depth] /\ Levels = 1..Depth
      /\ \A k \in Levels : activations[k] \in ActivationShape
  BY <1>1, OnTop DEF Levels
<1>. PICK d \in Nat : d = Depth
  BY <1>5
<1>6. /\ frames' = [frames EXCEPT ![to] = fr] /\ outcome' = outcome /\ raised' = raised
  BY DEF Invoke
<1>7. CallsTypes'
  <2>1. frames' \in [Addresses -> FrameShape]
    BY <1>1, <1>6 DEF Enters, CallsTypes
  <2>. QED BY <2>1, <1>1, <1>2, <1>6 DEF CallsTypes
<1>8. Stacking'
  <2>1. \A k \in Levels' : activations'[k].frame \notin Callables =>
          activations'[k].size >= 1 /\ activations'[k].frame + activations'[k].size <= Capacity
    BY <1>1, <1>2, <1>3 DEF Stacking, Enters
  <2>2. ASSUME NEW k \in Levels', NEW j \in 1..k, activations'[j].frame \notin Callables
        PROVE  activations'[j].frame + activations'[j].size <= activations'[k].next
    <3>1. CASE k \in Levels
      <4>1. j \in Levels /\ j \in 1..k
        BY <3>1, <1>5
      <4>. QED BY <4>1, <3>1, <2>2, <1>1, <1>3 DEF Stacking
    <3>2. CASE k = Depth + 1 /\ j \in Levels
      BY <3>2, <2>2, <1>2, <1>3 DEF Enters
    <3>3. CASE k = Depth + 1 /\ j = Depth + 1
      BY <3>3, <2>2, <1>2 DEF Enters
    <3>. QED BY <3>1, <3>2, <3>3, <1>2, <1>5
  <2>3. \A j, k \in Levels' : activations'[j].frame = activations'[k].frame => j = k
    BY <1>1, <1>2, <1>3 DEF Stacking, Enters
  <2>4. activations'[1].frame = 0 /\ \A i \in Params : activations'[1].mutable[i] = FALSE
    <3>1. 1 \in Levels
      BY <1>5
    <3>. QED BY <3>1, <1>1, <1>3, <1>5 DEF Stacking
  <2>. QED BY <2>1, <2>2, <2>3, <2>4 DEF Stacking
<1>9. Calling'
  <2>1. \A k \in Levels : k # Depth => Pending(k) /\ CallIsCareful(k)
    BY <1>1, <1>5 DEF Calling
  <2>2. \A k \in Levels : k # Depth => CallIsCareful(k)'
    BY <1>3, <2>1 DEF CallIsCareful
  <2>3. CallIsCareful(d)'
    <3>1. /\ activations'[d].call = c /\ activations'[d].mutable = Top.mutable
          /\ activations'[d].declared = Top.declared /\ activations'[d].caught = Top.caught
      BY <1>3, <1>5
    <3>. QED BY <3>1, <1>1, <1>4 DEF CallIsCareful, IsCareful
  <2>4. \A k \in Levels : Pending(k)'
    BY <1>2, <1>3, <2>1 DEF Pending
  <2>5. ~Pending(d + 1)'
    BY <1>2 DEF Pending, Enters
  <2>6. \A k \in Levels : /\ activations'[k].call.to = activations'[k + 1].frame
                          /\ activations'[k].call.mutable = activations'[k + 1].mutable
    <3>1. \A k \in Levels : k # Depth => k < Depth /\ k + 1 \in Levels
      BY <1>5
    <3>2. /\ activations'[Depth].call.to = activations'[Depth + 1].frame
          /\ activations'[Depth].call.mutable = activations'[Depth + 1].mutable
      BY <1>2, <1>3, <1>4, <1>5 DEF Enters
    <3>3. ASSUME NEW k \in Levels, k # Depth
          PROVE  /\ activations'[k].call.to = activations'[k + 1].frame
                 /\ activations'[k].call.mutable = activations'[k + 1].mutable
      <4>1. k < Depth /\ k + 1 \in Levels
        BY <3>1, <3>3
      <4>2. /\ activations[k].call.to = activations[k + 1].frame
            /\ activations[k].call.mutable = activations[k + 1].mutable
        BY <4>1, <1>1 DEF Calling
      <4>. QED BY <4>1, <4>2, <1>3, <3>3
    <3>. QED BY <3>2, <3>3
  <2>7. \A k \in Levels' : Pending(k)' <=> k < Depth' \/ outcome' # "none"
    BY <1>1, <1>2, <1>5, <1>6, <2>4, <2>5
  <2>8. \A k \in Levels' : Pending(k)' => CallIsCareful(k)'
    BY <1>2, <2>2, <2>3, <2>5
  <2>9. \A k \in Levels' : k < Depth' =>
          /\ activations'[k].call.to = activations'[k + 1].frame
          /\ activations'[k].call.mutable = activations'[k + 1].mutable
    BY <1>2, <2>6
  <2>. QED BY <1>1, <1>2, <1>5, <1>6, <2>7, <2>8, <2>9 DEF Calling
<1>10. Catching'
  <2>1. \A k \in Levels : activations[k].caught # NoFrame =>
          /\ activations[k].caught # to /\ frames'[activations[k].caught] = frames[activations[k].caught]
    BY <1>1, <1>5, <1>6 DEF Enters, ActivationShape, CallsTypes
  <2>2. activations'[Depth + 1].caught = NoFrame /\ activations'[Depth + 1].frame = to
    BY <1>2 DEF Enters
  <2>3. ASSUME NEW k \in Levels', activations'[k].caught # NoFrame
        PROVE  /\ \A j \in Levels' : activations'[j].frame # activations'[k].caught
               /\ \A j \in Levels' : activations'[j].caught = activations'[k].caught => j = k
               /\ frames'[activations'[k].caught].err.code = activations'[k].expected
    <3>1. k \in Levels /\ activations'[k].caught = activations[k].caught
      BY <2>2, <2>3, <1>2, <1>3
    <3>. QED BY <3>1, <2>1, <2>2, <2>3, <1>1, <1>2, <1>3 DEF Catching
  <2>. QED BY <1>1, <1>6, <2>3 DEF Catching
<1>. QED BY <1>7, <1>8, <1>9, <1>10 DEF Frames

(* of a function *)
LEMMA FunctionCallFrames ==
  ASSUME CallsCareless = {}, Frames, NEW list \in ArgumentLists, NEW catches \in BOOLEAN, NEW size \in Sizes,
         generate_call(size, list.args, list.mutable, catches)
  PROVE  Frames'
<1>1. PICK callee, fr :
        /\ Enters(Top.next, callee, fr) /\ callee.mutable = list.mutable /\ fr.params = Passed(list.args)
        /\ Invoke(Top.next, callee, fr, list.args, list.mutable, catches)
        /\ MayCall(Top.next, list.args, list.mutable, catches)
        /\ thread_stack' \in [stack_ptr : 0..Capacity, callable : {FALSE}]
  BY FunctionsEnter
<1>. QED BY <1>1, InvokeFrames

(* as well as of a callable. *)
LEMMA CallableCallFrames ==
  ASSUME CallsCareless = {}, Frames, NEW list \in ArgumentLists, NEW catches \in BOOLEAN,
         NEW callable \in Callables, generate_callable_call(callable, list.args, list.mutable, catches)
  PROVE  Frames'
<1>1. PICK callee, fr :
        /\ Enters(callable, callee, fr) /\ callee.mutable = list.mutable /\ fr.params = Passed(list.args)
        /\ Invoke(callable, callee, fr, list.args, list.mutable, catches)
        /\ MayCall(callable, list.args, list.mutable, catches)
        /\ thread_stack' \in [stack_ptr : 0..Capacity, callable : {FALSE}]
  BY CallablesEnter
<1>. QED BY <1>1, InvokeFrames

(* The values of a program are accounted for. *)
Accounts(cur, hold) ==
  /\ Contents(cur, hold)
  /\ AreBooks(hold, live, leaked)
  /\ misfreed = FALSE

(* Every level is an activation with a frame. *)
LEMMA LevelsAre ==
  ASSUME CallsTypes, NEW k \in Levels
  PROVE  activations[k] \in ActivationShape /\ activations[k].frame \in Addresses /\ k \in Nat /\ k >= 1 /\ k <= Depth
<1>1. activations[k] \in ActivationShape /\ k \in Nat /\ k >= 1 /\ k <= Depth
  BY DEF CallsTypes, Levels, Depth
<1>. QED BY <1>1 DEF ActivationShape

(* Every level has keepers of every kind. *)
LEMMA KeepersAre ==
  ASSUME NEW k \in Nat, NEW x \in Kinds
  PROVE  <<k, x>> \in Keepers
  BY DEF Keepers

(* The slots among the kinds of keepers. *)
LEMMA KindsAre == /\ Places \subseteq Kinds /\ Params \subseteq Places /\ Params \subseteq Kinds
                  /\ "caught" \in Kinds /\ "result" \in Kinds /\ "local" \in Kinds
                  /\ "caught" \notin Places /\ "result" \notin Places /\ "local" \in Places
  BY DEF Kinds, Places, Params

(* A parameter of a function that runs stands for something that a caller
   keeps, and a local variable for something of its own. *)
LEMMA ParametersAreKept ==
  ASSUME Frames, NEW cur, NEW hold, Accounts(cur, hold), NEW k \in Levels, NEW i \in Params, k > 1
  PROVE  /\ cur[k][i] # Nil /\ cur[k][i] \in Values /\ cur[k][i] \in live /\ cur[k][i] \notin leaked
         /\ \E j \in 1..(k - 1), x \in Places :
              /\ hold[<<j, x>>] = cur[k][i] /\ <<j, x>> \in Keepers
              /\ activations[k].mutable[i] => x = "local"
<1>1. k \in Nat
  BY DEF Levels
<1>2. PICK j \in 1..(k - 1), x \in Places :
        hold[<<j, x>>] = cur[k][i] /\ (activations[k].mutable[i] => x = "local")
  BY DEF Accounts, Contents, Backing
<1>3. cur[k][i] # Nil
  BY DEF Accounts, Contents, Backing
<1>4. <<j, x>> \in Keepers
  BY <1>1, KeepersAre, KindsAre
<1>. QED BY <1>2, <1>3, <1>4, KeptIsHeld DEF Accounts

(* What a declared variable stands for, it keeps. *)
LEMMA LocalsAreKept ==
  ASSUME NEW cur, NEW hold, Accounts(cur, hold), NEW k \in Levels, activations[k].declared
  PROVE  /\ hold[<<k, "local">>] = cur[k]["local"] /\ <<k, "local">> \in Keepers
         /\ cur[k]["local"] # Nil /\ cur[k]["local"] \in Values
         /\ cur[k]["local"] \in live /\ cur[k]["local"] \notin leaked
<1>1. <<k, "local">> \in Keepers /\ k \in Nat
  BY KeepersAre, KindsAre DEF Levels
<1>2. hold[<<k, "local">>] = cur[k]["local"] /\ cur[k]["local"] # Nil
  BY <1>1 DEF Accounts, Contents, Holding, KeepsAt
<1>. QED BY <1>1, <1>2, KeptIsHeld DEF Accounts

(* What is in a slot that was never given a value. *)
LEMMA IdleSlots ==
  ASSUME Frames, NEW cur, NEW hold, Accounts(cur, hold), NEW k \in Levels, NEW s \in Places, Unset(k, s)
  PROVE  ~Lent(k, s) /\ cur[k][s] = Raw(k, s) /\ cur[k][s] \notin Kept
<1>1. ~Lent(k, s)
  <2>1. Pending(k) => CallIsCareful(k)
    BY DEF Frames, Calling
  <2>. QED BY <2>1, PlacesAre DEF Lent, LentTo, CallIsCareful, Unset
<1>. QED BY <1>1 DEF Accounts, Contents, IsCurrent, StaleIsGone

(* A fresh value is in no frame. *)
LEMMA FramesMention ==
  ASSUME CallsTypes, NEW v \in Unused, NEW a \in Addresses
  PROVE  /\ v \in Values /\ v # Nil /\ v \notin live
         /\ frames[a].ret # v /\ frames[a].err.message # v
         /\ \A s \in Places : Slot(frames[a], s) # v
<1>1. v \in Values /\ v \notin Mentioned /\ v # Nil
  BY ValuesArePositive DEF Unused
<1>2. frames[a] \in {frames[b] : b \in Addresses}
  OBVIOUS
<1>3. {frames[a].ret, frames[a].local, frames[a].err.message} \union {frames[a].params[i] : i \in Params} \subseteq Mentioned
  <2>. DEFINE Of(f) == {f.ret, f.local, f.err.message} \union {f.params[i] : i \in Params}
              All == {Of(f) : f \in {frames[b] : b \in Addresses}}
  <2>1. UNION All \subseteq Mentioned
    BY Zenon DEF Mentioned
  <2>2. Of(frames[a]) \in All
    BY <1>2
  <2>. HIDE DEF All
  <2>. QED BY <2>1, <2>2
<1>4. v \notin live
  BY <1>1 DEF Mentioned
<1>5. \A s \in Places : Slot(frames[a], s) # v
  BY <1>1, <1>3, PlacesAre DEF Slot
<1>. QED BY <1>1, <1>3, <1>4, <1>5

(* A fresh value is nowhere. *)
LEMMA FreshIsNowhere ==
  ASSUME Frames, NEW cur, NEW hold, Accounts(cur, hold), NEW v \in Unused
  PROVE  /\ v \in Values /\ v # Nil /\ v \notin live
         /\ \A a \in Addresses : frames[a].local # v
         /\ \A k \in Levels : \A s \in Places : cur[k][s] # v
<1>1. v \in Values /\ v # Nil /\ v \notin live
  BY ValuesArePositive DEF Unused, Mentioned
<1>2. CallsTypes
  BY DEF Frames
<1>3. \A a \in Addresses : frames[a].local # v
  BY <1>2, FramesMention, PlacesAre DEF Slot
<1>4. ASSUME NEW k \in Levels, NEW s \in Places
      PROVE  cur[k][s] # v
  <2>1. CASE s \in Params /\ k > 1
    BY <2>1, <1>1, ParametersAreKept
  <2>2. CASE s = "local" /\ activations[k].declared
    BY <2>2, <1>1, LocalsAreKept
  <2>3. CASE ~(s \in Params /\ k > 1) /\ ~(s = "local" /\ activations[k].declared)
    <3>1. Unset(k, s)
      BY <2>3, PlacesAre DEF Levels, Unset
    <3>2. cur[k][s] = Raw(k, s)
      BY <3>1, IdleSlots
    <3>3. activations[k].frame \in Addresses
      BY <1>2, LevelsAre
    <3>. QED BY <3>2, <3>3, <1>2, FramesMention DEF Raw
  <2>. QED BY <2>1, <2>2, <2>3
<1>. QED BY <1>1, <1>3, <1>4

(* One value, one keeper. *)
LEMMA KeepersDiffer ==
  ASSUME NEW hold, NEW alive, NEW lost, AreBooks(hold, alive, lost), NEW o \in Keepers, NEW p \in Keepers,
         hold[o] = hold[p], hold[o] # Nil
  PROVE  o = p
  BY DEF AreBooks, Books

(* A function below keeps what a parameter stands for. *)
HasKeeper(cur, hold, k, i) ==
  \E j \in 1..(k - 1), x \in Places : hold[<<j, x>>] = cur[k][i] /\ <<j, x>> \in Keepers

LEMMA ParametersHaveKeepers ==
  ASSUME Frames, NEW cur, NEW hold, Accounts(cur, hold), NEW k \in Levels, NEW i \in Params, k > 1
  PROVE  HasKeeper(cur, hold, k, i)
<1>1. k \in Nat
  BY DEF Levels
<1>2. PICK j \in 1..(k - 1), x \in Places :
        hold[<<j, x>>] = cur[k][i] /\ (activations[k].mutable[i] => x = "local")
  BY DEF Accounts, Contents, Backing
<1>3. <<j, x>> \in Keepers
  BY <1>1, KeepersAre, KindsAre
<1>. QED BY <1>2, <1>3 DEF HasKeeper

(* A local variable shares its value with no other slot so far. *)
LEMMA LocalsAreAlone ==
  ASSUME Frames, NEW cur, NEW hold, Accounts(cur, hold), NEW k \in Levels, activations[k].declared,
         NEW k2 \in 1..k, NEW s \in Places, cur[k2][s] = cur[k]["local"]
  PROVE  k2 = k /\ s = "local"
<1>1. k2 \in Levels /\ k \in Nat /\ k2 \in Nat /\ AreBooks(hold, live, leaked)
  BY DEF Levels, Accounts, Frames, CallsTypes, Depth
<1>2. /\ hold[<<k, "local">>] = cur[k]["local"] /\ <<k, "local">> \in Keepers /\ cur[k]["local"] # Nil
      /\ cur[k]["local"] \in Kept
  BY LocalsAreKept DEF Kept
<1>3. CASE s \in Params /\ k2 > 1
  <2>. k2 \in Levels /\ s \in Params /\ k2 > 1
    BY <1>1, <1>3
  <2>1. PICK j \in 1..(k2 - 1), x \in Places : hold[<<j, x>>] = cur[k2][s] /\ <<j, x>> \in Keepers
    <3>1. HasKeeper(cur, hold, k2, s)
      BY ParametersHaveKeepers
    <3>. QED BY <3>1 DEF HasKeeper
  <2>2. <<j, x>> = <<k, "local">>
    BY <1>1, <1>2, <2>1, KeepersDiffer
  <2>. QED BY <2>2, <1>1
<1>4. CASE s = "local" /\ activations[k2].declared
  <2>1. hold[<<k2, "local">>] = cur[k2]["local"] /\ <<k2, "local">> \in Keepers
    BY <1>1, <1>4, LocalsAreKept
  <2>2. <<k2, "local">> = <<k, "local">>
    BY <1>1, <1>2, <1>4, <2>1, KeepersDiffer
  <2>. QED BY <1>4, <2>2
<1>5. CASE Unset(k2, s)
  BY <1>1, <1>2, <1>5, IdleSlots
<1>. QED BY <1>1, <1>3, <1>4, <1>5, PlacesAre DEF Unset

(* Where nothing is lent, a slot is what is in the frame. *)
LEMMA TopIsRaw ==
  ASSUME Frames, NEW cur, NEW hold, Accounts(cur, hold), InFunction, NEW s \in Places
  PROVE  ~Lent(Depth, s) /\ cur[Depth][s] = Slot(Frame, s)
<1>1. CallsTypes /\ activations # <<>> /\ outcome = "none" /\ Calling
  BY DEF Frames, InFunction
<1>2. Depth \in Levels /\ Depth \in Nat /\ Top = activations[Depth]
  BY <1>1, OnTop
<1>3. ~Pending(Depth)
  BY <1>1, <1>2 DEF Calling
<1>4. ~Lent(Depth, s)
  BY <1>3 DEF Lent, LentTo
<1>. QED BY <1>2, <1>4 DEF Accounts, Contents, IsCurrent, Raw, Frame

(* What the caller's slots stand for is what generate_call stores back. *)
LEMMA TopIsStoredBack ==
  ASSUME Frames, NEW cur, NEW hold, Accounts(cur, hold), Returned, NEW s \in Places
  PROVE  cur[Depth][s] = Slot(StoredBack, s)
<1>1. CallsTypes /\ activations # <<>> /\ Callee = frames[Top.call.to]
  BY OnReturn
<1>2. Depth \in Levels /\ Top = activations[Depth]
  BY <1>1, OnTop
<1>3. CASE ~Lent(Depth, s)
  BY <1>2, <1>3, WhatIsStoredBack DEF Accounts, Contents, IsCurrent, Raw, Frame
<1>4. ASSUME NEW i \in Params, LentTo(Depth, s, i)
      PROVE  cur[Depth][s] = Slot(StoredBack, s)
  BY <1>1, <1>2, <1>4, WhatIsStoredBack DEF Accounts, Contents, IsCurrent
<1>. QED BY <1>3, <1>4 DEF Lent

(* The frames below the top are others. *)
LEMMA OtherFrames ==
  ASSUME Frames, activations # <<>>, NEW k \in Levels, k # Depth
  PROVE  k < Depth /\ k + 1 \in Levels /\ activations[k].frame # Top.frame /\ activations[k].frame \in Addresses
<1>1. CallsTypes /\ Stacking
  BY DEF Frames
<1>2. Depth \in Levels /\ Depth \in Nat /\ Top = activations[Depth]
  BY <1>1, OnTop
<1>. QED BY <1>1, <1>2, LevelsAre DEF Stacking, Levels

(* A statement that is not the beginning or the end of a function. *)
SlotsStay(cur, cur2) ==
  /\ Depth' = Depth
  /\ \A k \in Levels : activations'[k].frame = activations[k].frame
  /\ \A k \in Levels : k # Depth => activations'[k].call = activations[k].call
  /\ activations'[Depth].call = NoCall
  /\ \A k \in Levels : k # Depth => frames'[activations[k].frame] = frames[activations[k].frame]
  /\ \A k \in Levels : \A s \in Places : k # Depth => cur2[k][s] = cur[k][s]
  /\ \A i \in Params : cur2[Depth][i] = cur[Depth][i]
  /\ \A s \in Places : cur2[Depth][s] = Slot(frames'[Top.frame], s)

LEMMA CurrentStays ==
  ASSUME Frames, activations # <<>>, NEW cur, IsCurrent(cur), NEW cur2, SlotsStay(cur, cur2)
  PROVE  IsCurrent(cur2)'
<1>. USE DEF SlotsStay
<1>1. CallsTypes
  BY DEF Frames
<1>2. Depth \in Levels /\ Depth \in Nat /\ Top = activations[Depth] /\ Levels' = Levels
  BY <1>1, OnTop DEF Levels
<1>3. ASSUME NEW k \in Levels, NEW s \in Places
      PROVE  /\ ~Lent(k, s)' => cur2[k][s] = Raw(k, s)'
             /\ \A i \in Params : LentTo(k, s, i)' =>
                  cur2[k][s] = IF k = Depth' THEN frames'[activations'[k].call.to].params[i] ELSE cur2[k + 1][i]
  <2>1. CASE k = Depth
    <3>1. \A i \in Params : ~LentTo(k, s, i)'
      BY <2>1 DEF LentTo, Pending
    <3>2. Raw(k, s)' = Slot(frames'[Top.frame], s)
      BY <2>1, <1>2 DEF Raw
    <3>. QED BY <2>1, <3>1, <3>2
  <2>2. CASE k # Depth
    <3>1. k + 1 \in Levels
      BY <2>2, OtherFrames
    <3>2. \A i \in Params : cur2[k + 1][i] = cur[k + 1][i]
      BY <3>1, PlacesAre
    <3>3. \A i \in Params : LentTo(k, s, i)' <=> LentTo(k, s, i)
      BY <2>2 DEF LentTo, Pending
    <3>4. Raw(k, s)' = Raw(k, s)
      BY <2>2 DEF Raw
    <3>5. cur2[k][s] = cur[k][s]
      BY <2>2
    <3>. QED BY <2>2, <3>2, <3>3, <3>4, <3>5 DEF IsCurrent, Lent
  <2>. QED BY <2>1, <2>2
<1>. QED BY <1>2, <1>3 DEF IsCurrent

(* The end of a function, whose frame keeps the parameters. *)
LEMMA CurrentPopped ==
  ASSUME Frames, activations # <<>>, NEW cur, IsCurrent(cur), activations' = Pop,
         \A k \in Levels : k # Depth => frames'[activations[k].frame] = frames[activations[k].frame],
         \A i \in Params : cur[Depth][i] = frames'[Top.frame].params[i]
  PROVE  IsCurrent(cur)'
<1>1. CallsTypes
  BY DEF Frames
<1>2. Depth \in Levels /\ Depth \in Nat /\ Top = activations[Depth]
  BY <1>1, OnTop DEF Levels
<1>3. /\ Depth' = Depth - 1 /\ Levels' = 1..(Depth - 1)
      /\ \A k \in Levels' : k \in Levels /\ k # Depth /\ activations'[k] = activations[k]
  BY <1>1, TopPopped
<1>4. ASSUME NEW k \in Levels', NEW s \in Places
      PROVE  /\ ~Lent(k, s)' => cur[k][s] = Raw(k, s)'
             /\ \A i \in Params : LentTo(k, s, i)' =>
                  cur[k][s] = IF k = Depth' THEN frames'[activations'[k].call.to].params[i] ELSE cur[k + 1][i]
  <2>1. \A i \in Params : LentTo(k, s, i)' <=> LentTo(k, s, i)
    BY <1>3 DEF LentTo, Pending
  <2>2. Raw(k, s)' = Raw(k, s)
    BY <1>3 DEF Raw
  <2>3. \A i \in Params : LentTo(k, s, i) => cur[k][s] = cur[k + 1][i]
    BY <1>3 DEF IsCurrent
  <2>4. CASE k = Depth'
    <3>1. k + 1 = Depth /\ activations[k].call.to = Top.frame
      BY <2>4, <1>2, <1>3 DEF Frames, Calling
    <3>. QED BY <2>1, <2>2, <2>3, <2>4, <3>1, <1>3 DEF IsCurrent, Lent
  <2>5. CASE k # Depth'
    BY <2>1, <2>2, <2>3, <2>5, <1>3 DEF IsCurrent, Lent
  <2>. QED BY <2>4, <2>5
<1>. QED BY <1>4 DEF IsCurrent

(* Neither disturbs what parameters stand for. *)
BackersStay(cur, hold, cur2, hold2) ==
  /\ Depth' \in Nat /\ Depth' <= Depth
  /\ \A k \in Levels' : activations'[k].mutable = activations[k].mutable
  /\ \A k \in Levels' : \A i \in Params : cur2[k][i] = cur[k][i]
  /\ \A j \in 1..(Depth - 1) : \A x \in Places : hold2[<<j, x>>] = hold[<<j, x>>]

LEMMA BackingStays ==
  ASSUME Frames, NEW cur, NEW hold, Backing(cur, hold), NEW cur2, NEW hold2, BackersStay(cur, hold, cur2, hold2)
  PROVE  Backing(cur2, hold2)'
<1>. USE DEF BackersStay
<1>1. Depth \in Nat /\ Levels' \subseteq Levels
  BY DEF Levels, Depth, Frames, CallsTypes
<1>2. ASSUME NEW k \in Levels', k > 1, NEW i \in Params
      PROVE  /\ cur2[k][i] # Nil
             /\ \E j \in 1..(k - 1), x \in Places :
                  hold2[<<j, x>>] = cur2[k][i] /\ (activations'[k].mutable[i] => x = "local")
  <2>1. cur[k][i] # Nil
    BY <1>1, <1>2 DEF Backing
  <2>2. PICK j \in 1..(k - 1), x \in Places :
          hold[<<j, x>>] = cur[k][i] /\ (activations[k].mutable[i] => x = "local")
    BY <1>1, <1>2 DEF Backing
  <2>3. j \in 1..(Depth - 1)
    BY <1>1 DEF Levels
  <2>4. hold2[<<j, x>>] = cur2[k][i]
    BY <2>2, <2>3
  <2>. QED BY <2>1, <2>2, <2>4
<1>. QED BY <1>2 DEF Backing

(* A parameter that may be changed gets no other name. *)
NamesApart(cur, cur2) ==
  /\ Depth' \in Nat /\ Depth' <= Depth
  /\ \A k \in Levels' : activations'[k].mutable = activations[k].mutable
  /\ \A k \in Levels' : \A i \in Params : cur2[k][i] = cur[k][i]
  /\ \A k \in Levels' : \A s \in Places : k # Depth => cur2[k][s] = cur[k][s]
  /\ \A k \in Levels' : \A s \in Places : k < Depth' /\ Lent(k, s) => Lent(k, s)'
  /\ \A i \in Params : Depth \in Levels' /\ Depth > 1 /\ activations[Depth].mutable[i] =>
       cur2[Depth]["local"] # cur2[Depth][i]

LEMMA NoAliasStays ==
  ASSUME Frames, NEW cur, NoAlias(cur), NEW cur2, NamesApart(cur, cur2)
  PROVE  NoAlias(cur2)'
<1>. USE DEF NamesApart
<1>1. Depth \in Nat /\ Levels' \subseteq Levels /\ Levels' = 1..Depth'
  BY DEF Levels, Depth, Frames, CallsTypes
<1>2. ASSUME NEW k \in Levels', k > 1, NEW i \in Params, activations'[k].mutable[i],
             NEW k2 \in 1..k, NEW s \in Places, cur2[k2][s] = cur2[k][i], <<k2, s>> # <<k, i>>
      PROVE  k2 < k /\ Lent(k2, s)'
  <2>1. k2 \in Levels' /\ k2 \in Nat /\ k \in Nat /\ k <= Depth'
    BY <1>1
  <2>2. cur[k2][s] = cur[k][i] => k2 < k /\ Lent(k2, s)
    BY <1>1, <1>2 DEF NoAlias
  <2>3. CASE k2 # Depth \/ s \in Params
    <3>1. cur2[k2][s] = cur[k2][s]
      BY <2>1, <2>3
    <3>2. k2 < k /\ Lent(k2, s)
      BY <2>2, <3>1, <1>2
    <3>. QED BY <3>2, <2>1
  <2>4. CASE k2 = Depth /\ s = "local"
    <3>1. k = Depth
      BY <2>1, <2>4, <1>1
    <3>. QED BY <3>1, <2>1, <2>4, <1>1, <1>2
  <2>. QED BY <2>3, <2>4, PlacesAre
<1>. QED BY <1>2 DEF NoAlias

(* The keepers of all levels but one go on as before. *)
HoldersStay(d, cur, hold, cur2, hold2) ==
  /\ \A k \in Nat : k # d => (k \in Levels <=> k \in Levels')
  /\ \A k \in Levels : k # d =>
       /\ activations'[k] = activations[k] /\ cur2[k]["local"] = cur[k]["local"]
       /\ activations[k].caught # NoFrame =>
            frames'[activations[k].caught].err = frames[activations[k].caught].err
  /\ \A k \in Nat : \A x \in Kinds : k # d /\ k # 0 => hold2[<<k, x>>] = hold[<<k, x>>]
  /\ \A x \in Kinds : x # "result" => hold2[<<0, x>>] = hold[<<0, x>>]
  /\ d \in Nat => KeepsAt(d, cur2, hold2)'
  /\ d \in Nat /\ d > 0 => hold2[<<d, "result">>] = Nil
  /\ KeepsResult(hold2)'

LEMMA HoldingStays ==
  ASSUME Frames, NEW cur, NEW hold, Holding(cur, hold), NEW cur2, NEW hold2,
         NEW d, HoldersStay(d, cur, hold, cur2, hold2)
  PROVE  Holding(cur2, hold2)'
<1>. USE DEF HoldersStay
<1>1. 0 \notin Levels /\ "result" \notin Places /\ "caught" \in Kinds /\ "local" \in Kinds /\ "result" \in Kinds
      /\ Params \subseteq Kinds /\ "caught" # "result" /\ "local" # "result" /\ "result" \notin Params
  BY KindsAre DEF Levels, Kinds, Params
<1>2. ASSUME NEW k \in Nat, k # d
      PROVE  KeepsAt(k, cur2, hold2)'
  <2>1. KeepsAt(k, cur, hold)
    BY DEF Holding
  <2>2. \A x \in Kinds : x # "result" => hold2[<<k, x>>] = hold[<<k, x>>]
    BY <1>2
  <2>3. /\ hold2[<<k, "local">>] = hold[<<k, "local">>] /\ hold2[<<k, "caught">>] = hold[<<k, "caught">>]
        /\ \A i \in Params : hold2[<<k, i>>] = hold[<<k, i>>]
    BY <2>2, <1>1
  <2>4. CASE k \in Levels
    <3>1. /\ k \in Levels' /\ activations'[k] = activations[k] /\ cur2[k]["local"] = cur[k]["local"]
          /\ activations[k].caught # NoFrame =>
                frames'[activations[k].caught].err = frames[activations[k].caught].err
      BY <1>2, <2>4
    <3>. QED BY <2>1, <2>3, <2>4, <3>1 DEF KeepsAt, Pending
  <2>5. CASE k \notin Levels
    <3>1. k \notin Levels'
      BY <1>2, <2>5
    <3>. QED BY <2>1, <2>3, <2>5, <3>1 DEF KeepsAt
  <2>. QED BY <2>4, <2>5
<1>3. \A k \in Nat : KeepsAt(k, cur2, hold2)'
  BY <1>2
<1>4. \A k \in Nat : k > 0 => hold2[<<k, "result">>] = Nil
  <2>1. \A k \in Nat : k > 0 => hold[<<k, "result">>] = Nil
    BY DEF Holding
  <2>2. ASSUME NEW k \in Nat, k > 0, k # d
        PROVE  hold2[<<k, "result">>] = hold[<<k, "result">>]
    BY <1>1, <2>2
  <2>. QED BY <2>1, <2>2
<1>. QED BY <1>3, <1>4 DEF Holding

(* Slots that were never set hold nothing of value. *)
LEMMA UnsetStays ==
  ASSUME Frames, NEW cur, NEW hold, Accounts(cur, hold), NEW k \in Levels, NEW s \in Places, Unset(k, s),
         Kept' \subseteq Kept \union Unused
  PROVE  Raw(k, s) \notin Kept'
<1>1. cur[k][s] \notin Kept /\ cur[k][s] = Raw(k, s)
  BY IdleSlots
<1>2. cur[k][s] \notin Unused
  BY FreshIsNowhere
<1>. QED BY <1>1, <1>2

(* There are such accounts. *)
Accounted == \E cur, hold : Accounts(cur, hold)

(* Only the level on top changes, and what is kept there. *)
OnlyTheTop(d, hold, hold2) ==
  /\ \A k \in Nat : \A x \in Kinds : k # d /\ k # 0 => hold2[<<k, x>>] = hold[<<k, x>>]
  /\ \A x \in Kinds : x # "result" => hold2[<<0, x>>] = hold[<<0, x>>]
  /\ hold2[<<d, "result">>] = Nil

(* What a statement does that neither calls nor ends a function. *)
TopChanges(d, cur, hold, cur2, hold2) ==
  /\ d = Depth /\ Depth' = Depth /\ outcome' = "none" /\ misfreed' = FALSE
  /\ \A k \in Levels : k # d => activations'[k] = activations[k]
  /\ activations'[d].frame = Top.frame /\ activations'[d].mutable = Top.mutable /\ activations'[d].call = NoCall
  /\ \A k \in Levels : k # d =>
       /\ frames'[activations[k].frame] = frames[activations[k].frame]
       /\ activations[k].caught # NoFrame =>
            frames'[activations[k].caught].err = frames[activations[k].caught].err
  /\ cur2 \in [Nat -> [Places -> Maybe]]
  /\ \A k \in Nat : k # d => cur2[k] = cur[k]
  /\ \A i \in Params : cur2[d][i] = cur[d][i]
  /\ \A s \in Places : cur2[d][s] = Slot(frames'[Top.frame], s)
  /\ d > 1 => \A i \in Params : Top.mutable[i] => cur2[d]["local"] # cur2[d][i]
  /\ AreBooks(hold2, live', leaked') /\ Kept' \subseteq Kept \union Unused
  /\ OnlyTheTop(d, hold, hold2) /\ KeepsAt(d, cur2, hold2)' /\ KeepsResult(hold2)'
  /\ \A s \in Places : Unset(d, s)' => Unset(d, s) /\ Slot(frames'[Top.frame], s) = Slot(Frame, s)
  /\ \A a \in Addresses : (\A k \in Levels : activations[k].frame # a) => frames'[a].local \notin Kept'

(* And what the end of a function does. *)
TopEnds(d, cur, hold, hold2) ==
  /\ d = Depth /\ activations' = Pop /\ outcome' \in {"ok", "error"} /\ misfreed' = FALSE
  /\ \A k \in Levels : k # d =>
       /\ frames'[activations[k].frame] = frames[activations[k].frame]
       /\ activations[k].caught # NoFrame =>
            frames'[activations[k].caught].err = frames[activations[k].caught].err
  /\ \A i \in Params : cur[d][i] = frames'[Top.frame].params[i]
  /\ AreBooks(hold2, live', leaked') /\ Kept' \subseteq Kept \union Unused
  /\ OnlyTheTop(d, hold, hold2) /\ \A x \in Kinds : hold2[<<d, x>>] = Nil
  /\ hold2[<<0, "result">>] # Nil
  /\ hold2[<<0, "result">>] =
       IF outcome' = "ok" THEN frames'[Top.frame].ret ELSE frames'[Top.frame].err.message
  /\ \A a \in Addresses :
       (\A k \in Levels : k # d => activations[k].frame # a) /\ ~(outcome' = "ok" /\ a = Top.frame)
         => frames'[a].local \notin Kept'

(* A statement of the first kind keeps the accounts, *)
LEMMA LevelStays ==
  ASSUME Frames, activations # <<>>, NEW cur, NEW hold, Accounts(cur, hold),
         NEW d \in Nat, NEW cur2, NEW hold2, TopChanges(d, cur, hold, cur2, hold2)
  PROVE  Accounted'
<1>. USE DEF TopChanges
<1>1. CallsTypes /\ Levels' = Levels
  BY DEF Frames, Levels
<1>2. d \in Levels /\ d >= 1 /\ Top = activations[d]
  BY <1>1, OnTop
<1>3. \A k \in Levels : k \in Nat /\ k >= 1
  BY <1>1, LevelsAre
<1>4. /\ cur \in [Nat -> [Places -> Maybe]] /\ IsCurrent(cur) /\ StaleIsGone /\ Holding(cur, hold)
      /\ Backing(cur, hold) /\ NoAlias(cur)
  BY DEF Accounts, Contents
<1>5. \A k \in Levels : /\ activations'[k].frame = activations[k].frame
                        /\ activations'[k].mutable = activations[k].mutable
  BY <1>2
<1>6. \A k \in Levels : \A s \in Places : k # Depth => cur2[k][s] = cur[k][s]
  BY <1>3
<1>7. \A k \in Levels : \A i \in Params : cur2[k][i] = cur[k][i]
  BY <1>3
<1>8. IsCurrent(cur2)'
  <2>1. activations'[Depth].call = NoCall /\ \A k \in Levels : k # Depth => activations'[k].call = activations[k].call
    OBVIOUS
  <2>2. \A k \in Levels : k # Depth => frames'[activations[k].frame] = frames[activations[k].frame]
    OBVIOUS
  <2>3. /\ \A i \in Params : cur2[Depth][i] = cur[Depth][i]
        /\ \A s \in Places : cur2[Depth][s] = Slot(frames'[Top.frame], s)
    OBVIOUS
  <2>4. SlotsStay(cur, cur2)
    <3>1. Depth' = Depth
      OBVIOUS
    <3>. HIDE DEF TopChanges
    <3>. QED BY <1>5, <1>6, <2>1, <2>2, <2>3, <3>1 DEF SlotsStay
  <2>. HIDE DEF TopChanges
  <2>. QED BY <1>4, <2>4, CurrentStays
<1>9. StaleIsGone'
  <2>1. ASSUME NEW k \in Levels', NEW s \in Places, Unset(k, s)'
        PROVE  Raw(k, s)' \notin Kept'
    <3>1. CASE k = d
      <4>1. Unset(d, s) /\ Slot(frames'[Top.frame], s) = Slot(Frame, s)
        BY <2>1, <3>1
      <4>2. Raw(d, s) \notin Kept'
        BY <4>1, <1>2, UnsetStays
      <4>3. Raw(k, s)' = Raw(d, s)
        BY <4>1, <3>1, <1>2 DEF Raw, Frame
      <4>. QED BY <4>2, <4>3
    <3>2. CASE k # d
      <4>1. k \in Levels /\ Unset(k, s)
        BY <2>1, <3>2, <1>1 DEF Unset
      <4>2. Raw(k, s) \notin Kept'
        BY <4>1, UnsetStays
      <4>3. Raw(k, s)' = Raw(k, s)
        BY <4>1, <3>2 DEF Raw
      <4>. QED BY <4>2, <4>3
    <3>. QED BY <3>1, <3>2
  <2>. QED BY <2>1, <1>1, <1>5 DEF StaleIsGone
<1>10. Holding(cur2, hold2)'
  <2>1. \A k \in Levels : k # d =>
          /\ activations'[k] = activations[k] /\ cur2[k]["local"] = cur[k]["local"]
          /\ activations[k].caught # NoFrame =>
               frames'[activations[k].caught].err = frames[activations[k].caught].err
    BY <1>3
  <2>2. \A k \in Nat : k # d => (k \in Levels <=> k \in Levels')
    BY <1>1
  <2>3. /\ \A k \in Nat : \A x \in Kinds : k # d /\ k # 0 => hold2[<<k, x>>] = hold[<<k, x>>]
        /\ \A x \in Kinds : x # "result" => hold2[<<0, x>>] = hold[<<0, x>>]
        /\ d \in Nat /\ d > 0 => hold2[<<d, "result">>] = Nil
    BY DEF OnlyTheTop
  <2>4. (d \in Nat => KeepsAt(d, cur2, hold2)') /\ KeepsResult(hold2)'
    OBVIOUS
  <2>. HIDE DEF TopChanges
  <2>5. HoldersStay(d, cur, hold, cur2, hold2)
    BY <2>1, <2>2, <2>3, <2>4 DEF HoldersStay
  <2>. QED BY <2>5, <1>4, HoldingStays
<1>11. Backing(cur2, hold2)'
  <2>1. \A j \in 1..(Depth - 1) : \A x \in Places : hold2[<<j, x>>] = hold[<<j, x>>]
    <3>1. \A j \in 1..(Depth - 1) : j \in Nat /\ j # d /\ j # 0
      OBVIOUS
    <3>. QED BY <3>1, KindsAre DEF OnlyTheTop
  <2>2. Depth' = Depth /\ Depth \in Nat
    BY <1>1 DEF Depth, CallsTypes
  <2>. HIDE DEF TopChanges
  <2>3. BackersStay(cur, hold, cur2, hold2)
    BY <2>1, <2>2, <1>1, <1>5, <1>7 DEF BackersStay
  <2>. QED BY <2>3, <1>4, BackingStays
<1>12. NoAlias(cur2)'
  <2>1. \A k \in Levels' : \A s \in Places : k < Depth' /\ Lent(k, s) => Lent(k, s)'
    BY <1>1 DEF Lent, LentTo, Pending
  <2>2. \A i \in Params : Depth \in Levels' /\ Depth > 1 /\ activations[Depth].mutable[i] =>
          cur2[Depth]["local"] # cur2[Depth][i]
    BY <1>2
  <2>3. /\ \A k \in Levels' : activations'[k].mutable = activations[k].mutable
        /\ \A k \in Levels' : \A i \in Params : cur2[k][i] = cur[k][i]
        /\ \A k \in Levels' : \A s \in Places : k # Depth => cur2[k][s] = cur[k][s]
        /\ Depth' \in Nat /\ Depth' <= Depth
    BY <1>1, <1>5, <1>6, <1>7
  <2>. HIDE DEF TopChanges
  <2>4. NamesApart(cur, cur2)
    BY <2>1, <2>2, <2>3 DEF NamesApart
  <2>. QED BY <2>4, <1>4, NoAliasStays
<1>13. Accounts(cur2, hold2)'
  BY <1>8, <1>9, <1>10, <1>11, <1>12 DEF Accounts, Contents
<1>. QED BY <1>13 DEF Accounted

(* and so does the end of a function. *)
LEMMA LevelEnds ==
  ASSUME Frames, activations # <<>>, NEW cur, NEW hold, Accounts(cur, hold),
         NEW d \in Nat, NEW hold2, TopEnds(d, cur, hold, hold2)
  PROVE  Accounted'
<1>. USE DEF TopEnds
<1>1. CallsTypes
  BY DEF Frames
<1>2. d \in Levels /\ d >= 1 /\ Top = activations[d]
  BY <1>1, OnTop
<1>3. \A k \in Levels : k \in Nat /\ k >= 1
  BY <1>1, LevelsAre
<1>4. /\ cur \in [Nat -> [Places -> Maybe]] /\ IsCurrent(cur) /\ StaleIsGone /\ Holding(cur, hold)
      /\ Backing(cur, hold) /\ NoAlias(cur)
  BY DEF Accounts, Contents
<1>5. /\ Depth' = d - 1 /\ Levels' = 1..(d - 1)
      /\ \A k \in Levels' : k \in Levels /\ k # d /\ activations'[k] = activations[k]
  BY <1>1, TopPopped
<1>6. Depth' \in Nat /\ Depth' <= Depth /\ d \notin Levels' /\ \A k \in Levels : k # d => k \in Levels'
  BY <1>2, <1>5 DEF Levels
<1>7. Depth' = 0 => Top.frame = 0
  BY <1>2, <1>5 DEF Frames, Stacking
<1>8. Depth' > 0 => Top'.call.to = Top.frame
  <2>1. ASSUME Depth' > 0
        PROVE  d - 1 \in Levels' /\ Top' = activations'[d - 1] /\ d - 1 + 1 = d
    BY <2>1, <1>2, <1>5 DEF Top, Depth
  <2>. QED BY <2>1, <1>2, <1>5 DEF Frames, Calling
<1>9. IsCurrent(cur)'
  BY <1>1, <1>4, CurrentPopped
<1>10. StaleIsGone'
  <2>1. ASSUME NEW k \in Levels', NEW s \in Places, Unset(k, s)'
        PROVE  Raw(k, s)' \notin Kept'
    <3>1. k \in Levels /\ k # d /\ Unset(k, s)
      BY <2>1, <1>5 DEF Unset
    <3>2. Raw(k, s) \notin Kept'
      BY <3>1, UnsetStays
    <3>3. Raw(k, s)' = Raw(k, s)
      BY <3>1, <1>5 DEF Raw
    <3>. QED BY <3>2, <3>3
  <2>2. ASSUME NEW a \in Addresses, Depth' > 0, \A k \in Levels' : activations'[k].frame # a,
               ~(outcome' = "ok" /\ a = Top'.call.to)
        PROVE  frames'[a].local \notin Kept'
    <3>1. \A k \in Levels : k # d => activations[k].frame # a
      BY <2>2, <1>5, <1>6
    <3>. QED BY <3>1, <2>2, <1>8
  <2>. QED BY <2>1, <2>2 DEF StaleIsGone
<1>11. Holding(cur, hold2)'
  <2>1. \A k \in Levels : k # d =>
          /\ activations'[k] = activations[k] /\ cur[k]["local"] = cur[k]["local"]
          /\ activations[k].caught # NoFrame =>
               frames'[activations[k].caught].err = frames[activations[k].caught].err
    BY <1>5, <1>6
  <2>2. \A k \in Nat : k # d => (k \in Levels <=> k \in Levels')
    BY <1>5, <1>6
  <2>3. KeepsAt(d, cur, hold2)'
    BY <1>6, KindsAre DEF KeepsAt
  <2>4. KeepsResult(hold2)'
    <3>1. ResultFrame' = frames'[Top.frame]
      BY <1>6, <1>7, <1>8 DEF ResultFrame
    <3>. QED BY <3>1 DEF KeepsResult, ResultValue
  <2>5. /\ \A k \in Nat : \A x \in Kinds : k # d /\ k # 0 => hold2[<<k, x>>] = hold[<<k, x>>]
        /\ \A x \in Kinds : x # "result" => hold2[<<0, x>>] = hold[<<0, x>>]
        /\ hold2[<<d, "result">>] = Nil
    BY DEF OnlyTheTop
  <2>6. HoldersStay(d, cur, hold, cur, hold2)
    <3>. HIDE DEF TopEnds
    <3>. QED BY <2>1, <2>2, <2>3, <2>4, <2>5 DEF HoldersStay
  <2>. HIDE DEF TopEnds
  <2>. QED BY <2>6, <1>4, HoldingStays
<1>12. Backing(cur, hold2)'
  <2>1. \A j \in 1..(Depth - 1) : \A x \in Places : hold2[<<j, x>>] = hold[<<j, x>>]
    <3>1. \A j \in 1..(Depth - 1) : j \in Nat /\ j # d /\ j # 0
      OBVIOUS
    <3>. QED BY <3>1, KindsAre DEF OnlyTheTop
  <2>2. \A k \in Levels' : activations'[k].mutable = activations[k].mutable
    BY <1>5
  <2>3. BackersStay(cur, hold, cur, hold2)
    BY <2>1, <2>2, <1>6 DEF BackersStay
  <2>. QED BY <2>3, <1>4, BackingStays
<1>13. NoAlias(cur)'
  <2>1. \A k \in Levels' : \A s \in Places : k < Depth' /\ Lent(k, s) => Lent(k, s)'
    BY <1>5 DEF Lent, LentTo, Pending
  <2>2. \A k \in Levels' : activations'[k].mutable = activations[k].mutable
    BY <1>5
  <2>3. ASSUME NEW i \in Params, d > 1, Top.mutable[i]
        PROVE  cur[d]["local"] # cur[d][i]
    BY <2>3, <1>2, <1>4, PlacesAre DEF NoAlias
  <2>4. NamesApart(cur, cur)
    BY <2>1, <2>2, <2>3, <1>2, <1>6 DEF NamesApart
  <2>. QED BY <2>4, <1>4, NoAliasStays
<1>14. Accounts(cur, hold2)'
  BY <1>4, <1>9, <1>10, <1>11, <1>12, <1>13 DEF Accounts, Contents
<1>. QED BY <1>14 DEF Accounted

(* A declaration: the local variable keeps a fresh value. *)
LEMMA DeclareLocalAccounts ==
  ASSUME Frames, Accounted, DeclareLocal
  PROVE  Accounted'
<1>1. PICK cur, hold : Accounts(cur, hold)
  BY DEF Accounted
<1>2. /\ InFunction /\ activations # <<>> /\ outcome = "none" /\ outcome' = "none" /\ CallsTypes
      /\ Top.declared = FALSE /\ leaked' = leaked /\ misfreed' = misfreed
      /\ frames' = [frames EXCEPT ![Top.frame].local = New] /\ live' = live \union {New}
      /\ activations' = Replace([Top EXCEPT !.declared = TRUE])
  <2>1. InFunction /\ activations # <<>> /\ outcome = "none" /\ CallsTypes
    BY DEF DeclareLocal, Step, Ready, InFunction, Frames
  <2>2. Top.declared \in BOOLEAN
    BY <2>1, OnTop DEF ActivationShape
  <2>. QED BY <2>1, <2>2 DEF DeclareLocal
<1>3. PICK d \in Nat : d = Depth
  BY <1>2, OnTop
<1>4. d \in Levels /\ d >= 1 /\ Top = activations[d] /\ Top.frame \in Addresses /\ Frame \in FrameShape
      /\ Frame = frames[Top.frame] /\ Top \in ActivationShape
  BY <1>2, <1>3, OnTop DEF Frame
<1>5. PICK n \in Values : n = New /\ n # Nil /\ n \notin live /\ n \in Unused
  BY FreshValue, ValuesArePositive DEF DeclareLocal, Unused, Mentioned
<1>6. /\ Depth' = Depth /\ Levels' = Levels
      /\ activations'[d] = [Top EXCEPT !.declared = TRUE]
      /\ \A k \in Levels : k # d => activations'[k] = activations[k]
  <2>1. [Top EXCEPT !.declared = TRUE] \in ActivationShape
    BY <1>4 DEF ActivationShape
  <2>. QED BY <2>1, <1>2, <1>3, TopReplaced
<1>7. Top.call = NoCall
  BY <1>2, <1>3, <1>4 DEF Frames, Calling, Pending
<1>8. /\ activations'[d].frame = Top.frame /\ activations'[d].mutable = Top.mutable
      /\ activations'[d].declared = TRUE /\ activations'[d].call = NoCall
      /\ activations'[d].caught = Top.caught
  BY <1>4, <1>6, <1>7 DEF ActivationShape
<1>9. /\ frames'[Top.frame] = [Frame EXCEPT !.local = n]
      /\ \A a \in Addresses : a # Top.frame => frames'[a] = frames[a]
  BY <1>2, <1>4, <1>5 DEF CallsTypes
<1>10. /\ frames'[Top.frame].local = n /\ frames'[Top.frame].params = Frame.params
       /\ frames'[Top.frame].err = Frame.err
  BY <1>4, <1>9 DEF FrameShape
<1>11. PICK cur2 : cur2 = [cur EXCEPT ![d] = [cur[d] EXCEPT !["local"] = n]]
  OBVIOUS
<1>12. PICK hold2 : hold2 = [hold EXCEPT ![<<d, "local">>] = n]
  OBVIOUS
<1>13. /\ cur \in [Nat -> [Places -> Maybe]] /\ StaleIsGone /\ KeepsAt(d, cur, hold) /\ KeepsResult(hold)
       /\ AreBooks(hold, live, leaked) /\ misfreed = FALSE /\ hold \in [Keepers -> Maybe] /\ n \in Maybe
       /\ hold[<<d, "result">>] = Nil
  BY <1>1, <1>4, <1>5 DEF Accounts, Contents, AreBooks, Maybe, Holding
<1>14. /\ cur2 \in [Nat -> [Places -> Maybe]] /\ cur2[d]["local"] = n
       /\ \A s \in Params : cur2[d][s] = cur[d][s]
       /\ \A k \in Nat : k # d => cur2[k] = cur[k]
  BY <1>11, <1>13, PlacesAre
<1>15. \A k \in Nat, x \in Kinds : hold2[<<k, x>>] = IF k = d /\ x = "local" THEN n ELSE hold[<<k, x>>]
  BY <1>3, <1>12, <1>13, KeepersAre
<1>16. AreBooks(hold2, live', leaked')
  <2>1. <<d, "local">> \in Keepers
    BY KeepersAre, KindsAre
  <2>2. hold[<<d, "local">>] = Nil
    BY <1>2, <1>4, <1>13 DEF KeepsAt
  <2>. QED BY <2>1, <2>2, <1>2, <1>5, <1>12, <1>13, Adding
<1>17. \A s \in Places : cur2[d][s] = Slot(frames'[Top.frame], s)
  <2>1. \A s \in Places : cur[d][s] = Slot(Frame, s)
    BY <1>1, <1>2, <1>3, TopIsRaw
  <2>. QED BY <2>1, <1>10, <1>14, PlacesAre DEF Slot
<1>18. Kept' \subseteq Kept \union Unused /\ Kept' \subseteq Kept \union {n}
  BY <1>2, <1>5 DEF Kept
<1>19. \A k \in Levels : k # d =>
         /\ frames'[activations[k].frame] = frames[activations[k].frame]
         /\ activations[k].caught # NoFrame =>
              frames'[activations[k].caught].err = frames[activations[k].caught].err
  <2>1. \A k \in Levels : activations[k].caught # NoFrame =>
          activations[k].caught \in Addresses /\ activations[k].caught # Top.frame
    BY <1>2, <1>4, LevelsAre DEF Frames, Catching, ActivationShape
  <2>. QED BY <2>1, <1>2, <1>3, <1>9, OtherFrames
<1>20. KeepsAt(d, cur2, hold2)'
  <2>1. hold2[<<d, "local">>] = n /\ hold2[<<d, "caught">>] = hold[<<d, "caught">>]
        /\ \A i \in Params : hold2[<<d, i>>] = hold[<<d, i>>]
    BY <1>15, KindsAre, PlacesAre
  <2>2. Top.caught # NoFrame => frames'[Top.caught] = frames[Top.caught]
    BY <1>3, <1>4, <1>9 DEF Frames, Catching, ActivationShape
  <2>3. d \in Levels' /\ ~Pending(d) /\ ~Pending(d)'
    BY <1>4, <1>6, <1>7, <1>8 DEF Pending
  <2>4. \A i \in Params : hold2[<<d, i>>] = Nil
    BY <1>13, <2>1, <2>3 DEF KeepsAt
  <2>5. IF activations'[d].caught # NoFrame
          THEN /\ hold2[<<d, "caught">>] = frames'[activations'[d].caught].err.message
               /\ frames'[activations'[d].caught].err.message # Nil
          ELSE hold2[<<d, "caught">>] = Nil
    BY <1>4, <1>8, <1>13, <2>1, <2>2 DEF KeepsAt
  <2>. QED BY <2>1, <2>3, <2>4, <2>5, <1>5, <1>8, <1>14 DEF KeepsAt
<1>21. KeepsResult(hold2)'
  <2>1. hold2[<<0, "result">>] = hold[<<0, "result">>]
    BY <1>15, KindsAre
  <2>. QED BY <2>1, <1>2, <1>13 DEF KeepsResult
<1>22. OnlyTheTop(d, hold, hold2)
  <2>1. \A k \in Nat : \A x \in Kinds : k # d \/ x = "result" => hold2[<<k, x>>] = hold[<<k, x>>]
    BY <1>15, KindsAre
  <2>2. "result" \in Kinds /\ d # 0 /\ 0 \in Nat
    BY <1>4, KindsAre
  <2>. QED BY <2>1, <2>2, <1>13 DEF OnlyTheTop
<1>23. \A s \in Places : Unset(d, s)' => Unset(d, s) /\ Slot(frames'[Top.frame], s) = Slot(Frame, s)
  BY <1>8, <1>10, PlacesAre DEF Unset, Slot
<1>24. ASSUME NEW a \in Addresses, \A k \in Levels : activations[k].frame # a
       PROVE  frames'[a].local \notin Kept'
  <2>1. frames[a].local \notin Kept /\ frames'[a] = frames[a]
    BY <1>24, <1>2, <1>3, <1>4, <1>9, <1>13 DEF StaleIsGone
  <2>2. frames[a].local # n
    BY <1>1, <1>5, FreshIsNowhere
  <2>. QED BY <2>1, <2>2, <1>18
<1>25. \A i \in Params : cur2[d]["local"] # cur2[d][i]
  BY <1>1, <1>4, <1>5, <1>14, FreshIsNowhere, PlacesAre
<1>26. misfreed' = FALSE
  BY <1>2, <1>13
<1>27. TopChanges(d, cur, hold, cur2, hold2)
  BY <1>2, <1>3, <1>6, <1>8, <1>14, <1>16, <1>17, <1>18, <1>19, <1>20, <1>21, <1>22, <1>23, <1>24, <1>25, <1>26
     DEF TopChanges
<1>. QED BY <1>1, <1>2, <1>27, LevelStays

(* The end of a handler frees the message of its error. *)
LEMMA EndCatchAccounts ==
  ASSUME Frames, Accounted, EndCatch
  PROVE  Accounted'
<1>1. PICK cur, hold : Accounts(cur, hold)
  BY DEF Accounted
<1>2. /\ InFunction /\ activations # <<>> /\ outcome = "none" /\ outcome' = "none" /\ CallsTypes
      /\ Top.caught # NoFrame /\ leaked' = leaked /\ Free({frames[Top.caught].err.message})
      /\ live' = live \ {frames[Top.caught].err.message} /\ Back(Frame, Top.caught)
      /\ activations' = Replace([Top EXCEPT !.caught = NoFrame, !.expected = "none"])
  BY DEF EndCatch, InFunction, Frames
<1>3. PICK d \in Nat : d = Depth
  BY <1>2, OnTop
<1>4. d \in Levels /\ d >= 1 /\ Top = activations[d] /\ Top.frame \in Addresses /\ Frame \in FrameShape
      /\ Frame = frames[Top.frame] /\ Top \in ActivationShape
  BY <1>2, <1>3, OnTop DEF Frame
<1>5. /\ Top.caught \in Addresses
      /\ \A k \in Levels : activations[k].frame # Top.caught
      /\ \A k \in Levels : k # d => activations[k].caught # Top.caught
  BY <1>2, <1>4 DEF Frames, Catching, ActivationShape
<1>6. /\ Depth' = Depth /\ Levels' = Levels
      /\ activations'[d] = [Top EXCEPT !.caught = NoFrame, !.expected = "none"]
      /\ \A k \in Levels : k # d => activations'[k] = activations[k]
  <2>1. [Top EXCEPT !.caught = NoFrame, !.expected = "none"] \in ActivationShape
    BY <1>4 DEF ActivationShape, CodesOrNone
  <2>. QED BY <2>1, <1>2, <1>3, TopReplaced
<1>7. Top.call = NoCall
  BY <1>2, <1>3, <1>4 DEF Frames, Calling, Pending
<1>8. /\ activations'[d].frame = Top.frame /\ activations'[d].mutable = Top.mutable
      /\ activations'[d].declared = Top.declared /\ activations'[d].call = NoCall
      /\ activations'[d].caught = NoFrame
  BY <1>4, <1>6, <1>7 DEF ActivationShape
<1>9. /\ frames'[Top.frame] = Frame /\ frames'[Top.caught] = DefaultFrame
      /\ \A a \in Addresses : a # Top.caught => frames'[a] = frames[a]
  BY <1>2, <1>4, <1>5 DEF CallsTypes, Back
<1>12. PICK hold2 : hold2 = [hold EXCEPT ![<<d, "caught">>] = Nil]
  OBVIOUS
<1>13. /\ cur \in [Nat -> [Places -> Maybe]] /\ StaleIsGone /\ KeepsAt(d, cur, hold) /\ KeepsResult(hold)
       /\ AreBooks(hold, live, leaked) /\ misfreed = FALSE /\ hold \in [Keepers -> Maybe]
       /\ hold[<<d, "result">>] = Nil /\ NoAlias(cur)
  BY <1>1, <1>4 DEF Accounts, Contents, AreBooks, Holding
<1>15. \A k \in Nat, x \in Kinds : hold2[<<k, x>>] = IF k = d /\ x = "caught" THEN Nil ELSE hold[<<k, x>>]
  BY <1>3, <1>12, <1>13, KeepersAre
<1>16. AreBooks(hold2, live', leaked') /\ misfreed' = FALSE
  <2>1. <<d, "caught">> \in Keepers
    BY KeepersAre, KindsAre
  <2>2. hold[<<d, "caught">>] = frames[Top.caught].err.message /\ hold[<<d, "caught">>] # Nil
    BY <1>2, <1>4, <1>13 DEF KeepsAt
  <2>3. AreBooks(hold2, live', leaked')
    BY <2>1, <2>2, <1>2, <1>12, <1>13, Dropping
  <2>4. frames[Top.caught].err.message \in live
    BY <2>1, <2>2, <1>13, KeptIsHeld
  <2>5. misfreed' = FALSE
    BY <2>4, <1>2, <1>13 DEF Free
  <2>. QED BY <2>3, <2>5
<1>17. \A s \in Places : cur[d][s] = Slot(frames'[Top.frame], s)
  BY <1>1, <1>2, <1>3, <1>9, TopIsRaw
<1>18. Kept' \subseteq Kept
  BY <1>2 DEF Kept
<1>19. \A k \in Levels : k # d =>
         /\ frames'[activations[k].frame] = frames[activations[k].frame]
         /\ activations[k].caught # NoFrame =>
              frames'[activations[k].caught].err = frames[activations[k].caught].err
  <2>1. \A k \in Levels : activations[k].caught # NoFrame => activations[k].caught \in Addresses
    BY <1>2, LevelsAre DEF ActivationShape
  <2>2. \A k \in Levels : activations[k].frame \in Addresses
    BY <1>2, LevelsAre
  <2>3. \A k \in Levels : frames'[activations[k].frame] = frames[activations[k].frame]
    BY <2>2, <1>5, <1>9
  <2>4. ASSUME NEW k \in Levels, k # d, activations[k].caught # NoFrame
        PROVE  frames'[activations[k].caught] = frames[activations[k].caught]
    <3>1. activations[k].caught \in Addresses /\ activations[k].caught # Top.caught
      BY <2>1, <2>4, <1>5
    <3>. QED BY <3>1, <1>9
  <2>. QED BY <2>3, <2>4
<1>20. KeepsAt(d, cur, hold2)'
  <2>1. hold2[<<d, "local">>] = hold[<<d, "local">>] /\ hold2[<<d, "caught">>] = Nil
        /\ \A i \in Params : hold2[<<d, i>>] = hold[<<d, i>>]
    BY <1>15, KindsAre, PlacesAre
  <2>2. d \in Levels' /\ ~Pending(d) /\ ~Pending(d)'
    BY <1>4, <1>6, <1>7, <1>8 DEF Pending
  <2>. QED BY <2>1, <2>2, <1>4, <1>8, <1>13 DEF KeepsAt
<1>21. KeepsResult(hold2)'
  <2>1. hold2[<<0, "result">>] = hold[<<0, "result">>]
    BY <1>15, KindsAre
  <2>. QED BY <2>1, <1>2, <1>13 DEF KeepsResult
<1>22. OnlyTheTop(d, hold, hold2)
  <2>1. \A k \in Nat : \A x \in Kinds : k # d \/ x = "result" => hold2[<<k, x>>] = hold[<<k, x>>]
    BY <1>15, KindsAre
  <2>2. "result" \in Kinds /\ d # 0 /\ 0 \in Nat
    BY <1>4, KindsAre
  <2>. QED BY <2>1, <2>2, <1>13 DEF OnlyTheTop
<1>23. \A s \in Places : Unset(d, s)' => Unset(d, s) /\ Slot(frames'[Top.frame], s) = Slot(Frame, s)
  BY <1>4, <1>8, <1>9 DEF Unset
<1>24. ASSUME NEW a \in Addresses, \A k \in Levels : activations[k].frame # a
       PROVE  frames'[a].local \notin Kept'
  <2>1. CASE a = Top.caught
    <3>1. frames'[a].local = Nil
      BY <2>1, <1>9 DEF DefaultFrame
    <3>. QED BY <3>1, <1>13, <1>18, ValuesArePositive DEF AreBooks, Kept
  <2>2. CASE a # Top.caught
    <3>1. frames[a].local \notin Kept /\ frames'[a] = frames[a]
      BY <1>24, <2>2, <1>2, <1>3, <1>4, <1>9, <1>13 DEF StaleIsGone
    <3>. QED BY <3>1, <1>18
  <2>. QED BY <2>1, <2>2
<1>25. d > 1 => \A i \in Params : Top.mutable[i] => cur[d]["local"] # cur[d][i]
  BY <1>4, <1>13, PlacesAre DEF NoAlias
<1>27. TopChanges(d, cur, hold, cur, hold2)
  BY <1>2, <1>3, <1>6, <1>8, <1>13, <1>16, <1>17, <1>18, <1>19, <1>20, <1>21, <1>22, <1>23, <1>24, <1>25
     DEF TopChanges
<1>. QED BY <1>1, <1>2, <1>27, LevelStays

(* Back in the caller: temporaries are dropped. *)
GarbageGone(d, hold, h) ==
  /\ AreBooks(h, live \ Garbage, leaked) /\ Garbage \subseteq live
  /\ \A k \in Nat, x \in Kinds : h[<<k, x>>] = IF k = d /\ x \in Params THEN Nil ELSE hold[<<k, x>>]

(* The keepers of temporaries give them up, nobody else does. *)
LEMMA GarbageIsDropped ==
  ASSUME Frames, NEW cur, NEW hold, Accounts(cur, hold), Returned, NEW d \in Nat, d = Depth
  PROVE  \E h : GarbageGone(d, hold, h)
<1>1. CallsTypes /\ activations # <<>> /\ Pending(d) /\ Top.call \in CallShape
  BY OnReturn
<1>2. d \in Levels /\ Top = activations[d]
  BY <1>1, OnTop
<1>3. AreBooks(hold, live, leaked) /\ hold \in [Keepers -> Maybe] /\ KeepsAt(d, cur, hold) /\ Nil \notin live
  BY ValuesArePositive DEF Accounts, AreBooks, Contents, Holding
<1>4. PICK h1 : h1 = [hold EXCEPT ![<<d, "first">>] = Nil]
  OBVIOUS
<1>5. PICK h : h = [h1 EXCEPT ![<<d, "second">>] = Nil]
  OBVIOUS
<1>6. <<d, "first">> \in Keepers /\ <<d, "second">> \in Keepers /\ <<d, "first">> # <<d, "second">>
  BY KeepersAre, KindsAre, PlacesAre
<1>7. AreBooks(h1, live \ {hold[<<d, "first">>]}, leaked)
  BY <1>3, <1>4, <1>6, Dropping
<1>8. AreBooks(h, (live \ {hold[<<d, "first">>]}) \ {h1[<<d, "second">>]}, leaked)
  BY <1>5, <1>6, <1>7, Dropping
<1>9. h1[<<d, "second">>] = hold[<<d, "second">>]
  BY <1>3, <1>4, <1>6
<1>10. \A i \in Params : hold[<<d, i>>] =
         IF Top.call.args[i] = "temporary" THEN Top.call.values[i] ELSE Nil
  BY <1>1, <1>2, <1>3 DEF KeepsAt
<1>11. \A v : v \in Garbage <=> \E i \in Params : v = hold[<<d, i>>] /\ v # Nil
  <2>1. \A i \in Params : Top.call.args[i] = "temporary" => Top.call.values[i] # Nil
    BY <1>1, <1>2, <1>3 DEF KeepsAt
  <2>. QED BY <2>1, <1>10 DEF Garbage, Temporaries
<1>12. Garbage \subseteq live
  <2>1. \A i \in Params : <<d, i>> \in Keepers
    BY KeepersAre, KindsAre
  <2>2. \A i \in Params : hold[<<d, i>>] # Nil => hold[<<d, i>>] \in live
    BY <2>1, <1>3, KeptIsHeld
  <2>3. ASSUME NEW v \in Garbage
        PROVE  v \in live
    <3>1. PICK i \in Params : v = hold[<<d, i>>] /\ v # Nil
      BY <1>11
    <3>. QED BY <3>1, <2>2
  <2>. QED BY <2>3
<1>13. live \ Garbage = (live \ {hold[<<d, "first">>]}) \ {h1[<<d, "second">>]}
  BY <1>3, <1>9, <1>11, PlacesAre
<1>14. \A k \in Nat, x \in Kinds : h[<<k, x>>] = IF k = d /\ x \in Params THEN Nil ELSE hold[<<k, x>>]
  <2>1. \A k \in Nat, x \in Kinds : h1[<<k, x>>] = IF k = d /\ x = "first" THEN Nil ELSE hold[<<k, x>>]
    BY <1>3, <1>4, KeepersAre
  <2>2. h1 \in [Keepers -> Maybe]
    BY <1>7 DEF AreBooks
  <2>3. \A k \in Nat, x \in Kinds : h[<<k, x>>] = IF k = d /\ x = "second" THEN Nil ELSE h1[<<k, x>>]
    BY <2>2, <1>5, KeepersAre
  <2>. QED BY <2>1, <2>3, PlacesAre
<1>15. GarbageGone(d, hold, h)
  BY <1>8, <1>12, <1>13, <1>14 DEF GarbageGone
<1>. QED BY <1>15

(* The result is kept for the caller. *)
LEMMA ResultIsKept ==
  ASSUME Frames, NEW cur, NEW hold, Accounts(cur, hold), Returned
  PROVE  /\ hold[<<0, "result">>] = IF outcome = "ok" THEN Callee.ret ELSE Callee.err.message
         /\ hold[<<0, "result">>] # Nil /\ <<0, "result">> \in Keepers
<1>1. KeepsResult(hold) /\ outcome \in {"ok", "error"} /\ Depth # 0
  BY OnReturn, OnTop DEF Accounts, Contents, Holding, Returned
<1>2. ResultFrame = Callee
  BY <1>1 DEF ResultFrame, Callee
<1>. QED BY <1>1, <1>2, KeepersAre, KindsAre DEF KeepsResult, ResultValue

(* The callee's frame is cleared, the caller's is fr, and the others are
   as they were. *)
LEMMA BackIs ==
  ASSUME Frames, Returned, NEW fr, Back(fr, Top.call.to)
  PROVE  /\ frames'[Top.frame] = fr /\ frames'[Top.call.to] = DefaultFrame
         /\ \A a \in Addresses : a # Top.frame /\ a # Top.call.to => frames'[a] = frames[a]
         /\ \A k \in Levels : k # Depth =>
              /\ frames'[activations[k].frame] = frames[activations[k].frame]
              /\ activations[k].caught # NoFrame =>
                   frames'[activations[k].caught].err = frames[activations[k].caught].err
         /\ activations[Depth].caught # NoFrame => frames'[Top.caught] = frames[Top.caught]
<1>1. CallsTypes /\ activations # <<>> /\ Top.call.to \in Addresses /\ Top.call.to # Top.frame
  BY OnReturn
<1>2. Top.frame \in Addresses /\ Top = activations[Depth] /\ Depth \in Levels
  BY <1>1, OnTop
<1>3. frames' = [frames EXCEPT ![Top.frame] = fr, ![Top.call.to] = DefaultFrame]
  BY DEF Back
<1>4. \A k \in Levels : activations[k].frame # Top.call.to
  BY <1>1, OnTop DEF Frames, Calling, Returned
<1>5. /\ frames'[Top.frame] = fr /\ frames'[Top.call.to] = DefaultFrame
      /\ \A a \in Addresses : a # Top.frame /\ a # Top.call.to => frames'[a] = frames[a]
  BY <1>1, <1>2, <1>3 DEF CallsTypes
<1>. QED BY <1>1, <1>2, <1>4, <1>5, OtherFrames, CaughtStays

(* What the caller has to go by when a call came back. *)
CallerSees(d, cur, hold) ==
  /\ CallsTypes /\ activations # <<>> /\ d \in Levels /\ d >= 1 /\ Top = activations[d]
  /\ Top \in ActivationShape /\ Top.frame \in Addresses /\ Top.call.to \in Addresses /\ Callee \in FrameShape
  /\ Frame = frames[Top.frame] /\ Frame \in FrameShape /\ StoredBack \in FrameShape
  /\ Pending(d) /\ CallIsCareful(d)
  /\ cur \in [Nat -> [Places -> Maybe]] /\ StaleIsGone /\ KeepsAt(d, cur, hold) /\ KeepsResult(hold)
  /\ AreBooks(hold, live, leaked) /\ misfreed = FALSE /\ hold \in [Keepers -> Maybe]
  /\ hold[<<d, "result">>] = Nil /\ NoAlias(cur) /\ Nil \notin live
  /\ StoredBack.local = cur[d]["local"]
  /\ \A i \in Params : StoredBack.params[i] = cur[d][i]
  /\ \A s \in Places : Unset(d, s) => Slot(StoredBack, s) = Slot(Frame, s)

(* So it is whenever a call came back. *)
LEMMA AtReturn ==
  ASSUME Frames, NEW cur, NEW hold, Accounts(cur, hold), Returned, NEW d \in Nat, d = Depth
  PROVE  CallerSees(d, cur, hold)
<1>1. /\ CallsTypes /\ activations # <<>> /\ Top.call.to \in Addresses /\ Callee \in FrameShape
      /\ Pending(d) /\ CallIsCareful(d)
  BY OnReturn
<1>2. /\ d \in Levels /\ d >= 1 /\ Top = activations[d] /\ Top.frame \in Addresses
      /\ Frame = frames[Top.frame] /\ Frame \in FrameShape /\ Top \in ActivationShape
  BY <1>1, OnTop DEF Frame
<1>3. StoredBack \in FrameShape
  BY WhatIsStoredBack
<1>4. /\ cur \in [Nat -> [Places -> Maybe]] /\ StaleIsGone /\ KeepsAt(d, cur, hold) /\ KeepsResult(hold)
      /\ AreBooks(hold, live, leaked) /\ misfreed = FALSE /\ hold \in [Keepers -> Maybe]
      /\ hold[<<d, "result">>] = Nil /\ NoAlias(cur) /\ Nil \notin live
  BY <1>2, ValuesArePositive DEF Accounts, Contents, AreBooks, Holding
<1>5. \A s \in Places : cur[d][s] = Slot(StoredBack, s)
  BY TopIsStoredBack
<1>6. StoredBack.local = cur[d]["local"] /\ \A i \in Params : StoredBack.params[i] = cur[d][i]
  BY <1>5, PlacesAre DEF Slot
<1>7. \A s \in Places : Unset(d, s) => Slot(StoredBack, s) = Slot(Frame, s)
  BY <1>2, IdleSlots, WhatIsStoredBack
<1>. QED BY <1>1, <1>2, <1>3, <1>4, <1>6, <1>7 DEF CallerSees

(* The result becomes the caller's local variable, whose old value is
   freed. *)
LEMMA StoreResultAccounts ==
  ASSUME Frames, Accounted, TakeResult(TRUE)
  PROVE  Accounted'
<1>1. PICK cur, hold : Accounts(cur, hold)
  BY DEF Accounted
<1>. DEFINE old == IF Top.declared THEN {StoredBack.local} ELSE {}
<1>2. /\ Returned /\ outcome = "ok" /\ outcome' = "none" /\ leaked' = leaked /\ activations # <<>>
      /\ Free(Garbage \union old) /\ live' = live \ (Garbage \union old)
      /\ Back([StoredBack EXCEPT !.local = Callee.ret], Top.call.to)
      /\ activations' = Replace([Top EXCEPT !.call = NoCall, !.declared = Top.declared \/ TRUE])
  BY DEF TakeResult, Returned
<1>3. PICK d \in Nat : d = Depth
  BY <1>2, OnTop DEF Frames
<1>4. /\ CallsTypes /\ activations # <<>> /\ d \in Levels /\ d >= 1 /\ Top = activations[d]
      /\ Top \in ActivationShape /\ Top.frame \in Addresses /\ Top.call.to \in Addresses /\ Callee \in FrameShape
      /\ Frame = frames[Top.frame] /\ Frame \in FrameShape /\ StoredBack \in FrameShape
      /\ Pending(d) /\ CallIsCareful(d)
      /\ cur \in [Nat -> [Places -> Maybe]] /\ StaleIsGone /\ KeepsAt(d, cur, hold) /\ KeepsResult(hold)
      /\ AreBooks(hold, live, leaked) /\ misfreed = FALSE /\ hold \in [Keepers -> Maybe]
      /\ hold[<<d, "result">>] = Nil /\ NoAlias(cur) /\ Nil \notin live
      /\ StoredBack.local = cur[d]["local"]
      /\ \A i \in Params : StoredBack.params[i] = cur[d][i]
      /\ \A s \in Places : Unset(d, s) => Slot(StoredBack, s) = Slot(Frame, s)
  <2>1. CallerSees(d, cur, hold)
    BY <1>1, <1>2, <1>3, AtReturn
  <2>. QED BY <2>1 DEF CallerSees
<1>5. PICK n : n = Callee.ret
  OBVIOUS
<1>6. hold[<<0, "result">>] = n /\ n # Nil /\ <<0, "result">> \in Keepers /\ n \in Maybe
  BY <1>1, <1>2, <1>4, <1>5, ResultIsKept
<1>7. PICK h : GarbageGone(d, hold, h)
  BY <1>1, <1>2, <1>3, GarbageIsDropped
<1>8. /\ AreBooks(h, live \ Garbage, leaked) /\ Garbage \subseteq live /\ h \in [Keepers -> Maybe]
      /\ \A k \in Nat, x \in Kinds : h[<<k, x>>] = IF k = d /\ x \in Params THEN Nil ELSE hold[<<k, x>>]
  BY <1>7 DEF GarbageGone, AreBooks
<1>9. /\ Depth' = Depth /\ Levels' = Levels
      /\ activations'[d] = [Top EXCEPT !.call = NoCall, !.declared = TRUE]
      /\ \A k \in Levels : k # d => activations'[k] = activations[k]
  <2>1. [Top EXCEPT !.call = NoCall, !.declared = TRUE] \in ActivationShape
    BY <1>4 DEF ActivationShape
  <2>2. activations' = Replace([Top EXCEPT !.call = NoCall, !.declared = TRUE])
    BY <1>2
  <2>. QED BY <2>1, <2>2, <1>3, <1>4, TopReplaced
<1>10. /\ activations'[d].frame = Top.frame /\ activations'[d].mutable = Top.mutable
       /\ activations'[d].declared = TRUE /\ activations'[d].call = NoCall
       /\ activations'[d].caught = Top.caught
  BY <1>4, <1>9 DEF ActivationShape
<1>11. PICK fr : fr = [StoredBack EXCEPT !.local = Callee.ret]
  OBVIOUS
<1>12. fr.local = n /\ fr.params = StoredBack.params
  BY <1>4, <1>5, <1>11 DEF FrameShape
<1>13. /\ frames'[Top.frame] = fr /\ frames'[Top.call.to] = DefaultFrame
       /\ \A a \in Addresses : a # Top.frame /\ a # Top.call.to => frames'[a] = frames[a]
       /\ \A k \in Levels : k # Depth =>
              /\ frames'[activations[k].frame] = frames[activations[k].frame]
              /\ activations[k].caught # NoFrame =>
                   frames'[activations[k].caught].err = frames[activations[k].caught].err
       /\ activations[Depth].caught # NoFrame => frames'[Top.caught] = frames[Top.caught]
  BY <1>2, <1>11, BackIs
<1>14. PICK cur2 : cur2 = [cur EXCEPT ![d] = [cur[d] EXCEPT !["local"] = n]]
  OBVIOUS
<1>15. /\ cur2 \in [Nat -> [Places -> Maybe]] /\ cur2[d]["local"] = n
       /\ \A s \in Params : cur2[d][s] = cur[d][s]
       /\ \A k \in Nat : k # d => cur2[k] = cur[k]
  BY <1>4, <1>6, <1>14, PlacesAre
<1>16. PICK h2 : h2 = [h EXCEPT ![<<d, "local">>] = Nil]
  OBVIOUS
<1>17. PICK hold2 : hold2 = [h2 EXCEPT ![<<d, "local">>] = h2[<<0, "result">>], ![<<0, "result">>] = Nil]
  OBVIOUS
<1>18. <<d, "local">> \in Keepers /\ <<d, "local">> # <<0, "result">>
  BY KeepersAre, KindsAre
<1>19. h[<<d, "local">>] = IF Top.declared THEN StoredBack.local ELSE Nil
  <2>1. h[<<d, "local">>] = hold[<<d, "local">>]
    BY <1>8, KindsAre, PlacesAre
  <2>2. hold[<<d, "local">>] = IF Top.declared THEN cur[d]["local"] ELSE Nil
    BY <1>4 DEF KeepsAt
  <2>. QED BY <2>1, <2>2, <1>4
<1>20. (live \ Garbage) \ {h[<<d, "local">>]} = live'
  BY <1>2, <1>4, <1>19
<1>21. AreBooks(h2, live', leaked)
  BY <1>8, <1>16, <1>18, <1>20, Dropping
<1>22. h2 \in [Keepers -> Maybe] /\ h2[<<d, "local">>] = Nil /\ h2[<<0, "result">>] = n
  <2>1. h[<<0, "result">>] = n
    BY <1>4, <1>6, <1>8, KindsAre
  <2>2. h2[<<0, "result">>] = h[<<0, "result">>]
    BY <1>6, <1>8, <1>16, <1>18
  <2>3. h2 \in [Keepers -> Maybe] /\ h2[<<d, "local">>] = Nil
    BY <1>8, <1>16, <1>18 DEF Maybe
  <2>. QED BY <2>1, <2>2, <2>3
<1>23. AreBooks(hold2, live', leaked')
  <2>1. hold2 = [h2 EXCEPT ![<<d, "local">>] = h2[<<0, "result">>], ![<<0, "result">>] = Nil]
    BY <1>17
  <2>. QED BY <2>1, <1>2, <1>6, <1>18, <1>21, <1>22, Moving
<1>24. \A k \in Nat, x \in Kinds :
         hold2[<<k, x>>] = IF k = d /\ x = "local" THEN n
                           ELSE IF k = 0 /\ x = "result" THEN Nil
                           ELSE IF k = d /\ x \in Params THEN Nil ELSE hold[<<k, x>>]
  <2>1. \A k \in Nat, x \in Kinds : h2[<<k, x>>] = IF k = d /\ x = "local" THEN Nil ELSE h[<<k, x>>]
    BY <1>8, <1>16, KeepersAre
  <2>2. \A k \in Nat, x \in Kinds :
          hold2[<<k, x>>] = IF k = d /\ x = "local" THEN n
                            ELSE IF k = 0 /\ x = "result" THEN Nil ELSE h2[<<k, x>>]
    BY <1>4, <1>17, <1>22, KeepersAre
  <2>3. \A k \in Nat, x \in Kinds : h[<<k, x>>] = IF k = d /\ x \in Params THEN Nil ELSE hold[<<k, x>>]
    BY <1>8
  <2>4. ASSUME NEW k \in Nat, NEW x \in Kinds
        PROVE  hold2[<<k, x>>] = IF k = d /\ x = "local" THEN n
                                 ELSE IF k = 0 /\ x = "result" THEN Nil
                                 ELSE IF k = d /\ x \in Params THEN Nil ELSE hold[<<k, x>>]
    BY <2>1, <2>2, <2>3
  <2>. QED BY <2>4
<1>25. misfreed' = FALSE
  <2>1. ASSUME Top.declared
        PROVE  StoredBack.local \in live
    <3>1. h[<<d, "local">>] = StoredBack.local /\ StoredBack.local # Nil
      BY <2>1, <1>4, <1>19 DEF KeepsAt
    <3>. QED BY <3>1, <1>8, <1>18, KeptIsHeld
  <2>. QED BY <2>1, <1>2, <1>4, <1>8 DEF Free
<1>26. \A s \in Places : cur2[d][s] = Slot(frames'[Top.frame], s)
  BY <1>4, <1>12, <1>13, <1>15, PlacesAre DEF Slot
<1>27. Kept' \subseteq Kept
  BY <1>2 DEF Kept
<1>28. OnlyTheTop(d, hold, hold2)
  <2>1. "result" # "local" /\ "result" \notin Params /\ "result" \in Kinds
    BY KindsAre
  <2>2. hold2[<<d, "result">>] = Nil
    BY <2>1, <1>3, <1>4, <1>24
  <2>3. \A k \in Nat : \A x \in Kinds : k # d /\ k # 0 => hold2[<<k, x>>] = hold[<<k, x>>]
    BY <1>24
  <2>4. \A x \in Kinds : x # "result" => hold2[<<0, x>>] = hold[<<0, x>>]
    <3>1. 0 # d /\ 0 \in Nat
      BY <1>4
    <3>. QED BY <3>1, <1>24
  <2>. QED BY <2>2, <2>3, <2>4 DEF OnlyTheTop
<1>29. KeepsAt(d, cur2, hold2)'
  <2>1. hold2[<<d, "local">>] = n /\ hold2[<<d, "caught">>] = hold[<<d, "caught">>]
        /\ \A i \in Params : hold2[<<d, i>>] = Nil
    BY <1>24, KindsAre, PlacesAre
  <2>2. d \in Levels' /\ ~Pending(d)'
    BY <1>4, <1>9, <1>10 DEF Pending
  <2>3. IF activations'[d].caught # NoFrame
          THEN /\ hold2[<<d, "caught">>] = frames'[activations'[d].caught].err.message
               /\ frames'[activations'[d].caught].err.message # Nil
          ELSE hold2[<<d, "caught">>] = Nil
    BY <1>3, <1>4, <1>10, <1>13, <2>1 DEF KeepsAt
  <2>. QED BY <2>1, <2>2, <2>3, <1>6, <1>10, <1>15 DEF KeepsAt
<1>30. KeepsResult(hold2)'
  BY <1>2, <1>4, <1>24, KindsAre DEF KeepsResult
<1>31. \A s \in Places : Unset(d, s)' => Unset(d, s) /\ Slot(frames'[Top.frame], s) = Slot(Frame, s)
  <2>1. \A s \in Places : Unset(d, s)' => Unset(d, s) /\ s \in Params
    BY <1>10, PlacesAre DEF Unset
  <2>2. \A s \in Params : Slot(frames'[Top.frame], s) = Slot(StoredBack, s)
    BY <1>12, <1>13, PlacesAre DEF Slot
  <2>. QED BY <2>1, <2>2, <1>4
<1>32. ASSUME NEW a \in Addresses, \A k \in Levels : activations[k].frame # a
       PROVE  frames'[a].local \notin Kept'
  <2>1. CASE a = Top.call.to
    <3>1. frames'[a].local = Nil
      BY <2>1, <1>13 DEF DefaultFrame
    <3>. QED BY <3>1, <1>4, <1>27 DEF Kept
  <2>2. CASE a # Top.call.to
    <3>1. frames[a].local \notin Kept /\ frames'[a] = frames[a]
      BY <1>32, <2>2, <1>3, <1>4, <1>13 DEF StaleIsGone
    <3>. QED BY <3>1, <1>27
  <2>. QED BY <2>1, <2>2
<1>33. d > 1 => \A i \in Params : Top.mutable[i] => cur2[d]["local"] # cur2[d][i]
  <2>1. ASSUME d > 1, NEW i \in Params
        PROVE  cur[d][i] # n
    <3>0. Backing(cur, hold) /\ d \in Levels
      BY <1>1, <1>4 DEF Accounts, Contents
    <3>1. PICK j \in 1..(d - 1), x \in Places : hold[<<j, x>>] = cur[d][i]
      BY <2>1, <3>0 DEF Backing
    <3>4. <<j, x>> \in Keepers
      BY <1>3, KeepersAre, KindsAre
    <3>2. <<j, x>> # <<0, "result">>
      OBVIOUS
    <3>. QED BY <3>1, <3>2, <3>4, <1>4, <1>6, KeepersDiffer
  <2>. QED BY <2>1, <1>15
<1>34. TopChanges(d, cur, hold, cur2, hold2)
  BY <1>2, <1>3, <1>9, <1>10, <1>13, <1>15, <1>23, <1>25, <1>26, <1>27, <1>28, <1>29, <1>30, <1>31, <1>32, <1>33
     DEF TopChanges
<1>. QED BY <1>1, <1>2, <1>34, LevelStays

(* The result is freed by a caller that does not want it. *)
LEMMA DropResultAccounts ==
  ASSUME Frames, Accounted, TakeResult(FALSE)
  PROVE  Accounted'
<1>1. PICK cur, hold : Accounts(cur, hold)
  BY DEF Accounted
<1>2. /\ Returned /\ outcome = "ok" /\ outcome' = "none" /\ leaked' = leaked /\ activations # <<>>
      /\ Free(Garbage \union {Callee.ret}) /\ live' = live \ (Garbage \union {Callee.ret})
      /\ Back(StoredBack, Top.call.to)
      /\ activations' = Replace([Top EXCEPT !.call = NoCall, !.declared = Top.declared \/ FALSE])
  BY DEF TakeResult, Returned
<1>3. PICK d \in Nat : d = Depth
  BY <1>2, OnTop DEF Frames
<1>4. /\ CallsTypes /\ activations # <<>> /\ d \in Levels /\ d >= 1 /\ Top = activations[d]
      /\ Top \in ActivationShape /\ Top.frame \in Addresses /\ Top.call.to \in Addresses /\ Callee \in FrameShape
      /\ Frame = frames[Top.frame] /\ Frame \in FrameShape /\ StoredBack \in FrameShape
      /\ Pending(d) /\ CallIsCareful(d)
      /\ cur \in [Nat -> [Places -> Maybe]] /\ StaleIsGone /\ KeepsAt(d, cur, hold) /\ KeepsResult(hold)
      /\ AreBooks(hold, live, leaked) /\ misfreed = FALSE /\ hold \in [Keepers -> Maybe]
      /\ hold[<<d, "result">>] = Nil /\ NoAlias(cur) /\ Nil \notin live
      /\ StoredBack.local = cur[d]["local"]
      /\ \A i \in Params : StoredBack.params[i] = cur[d][i]
      /\ \A s \in Places : Unset(d, s) => Slot(StoredBack, s) = Slot(Frame, s)
  <2>1. CallerSees(d, cur, hold)
    BY <1>1, <1>2, <1>3, AtReturn
  <2>. QED BY <2>1 DEF CallerSees
<1>5. PICK n : n = Callee.ret
  OBVIOUS
<1>6. hold[<<0, "result">>] = n /\ n # Nil /\ <<0, "result">> \in Keepers /\ n \in Maybe
  BY <1>1, <1>2, <1>4, <1>5, ResultIsKept
<1>7. PICK h : GarbageGone(d, hold, h)
  BY <1>1, <1>2, <1>3, GarbageIsDropped
<1>8. /\ AreBooks(h, live \ Garbage, leaked) /\ Garbage \subseteq live /\ h \in [Keepers -> Maybe]
      /\ \A k \in Nat, x \in Kinds : h[<<k, x>>] = IF k = d /\ x \in Params THEN Nil ELSE hold[<<k, x>>]
  BY <1>7 DEF GarbageGone, AreBooks
<1>9. /\ Depth' = Depth /\ Levels' = Levels
      /\ activations'[d] = [Top EXCEPT !.call = NoCall, !.declared = Top.declared \/ FALSE]
      /\ \A k \in Levels : k # d => activations'[k] = activations[k]
  <2>1. [Top EXCEPT !.call = NoCall, !.declared = Top.declared \/ FALSE] \in ActivationShape
    BY <1>4 DEF ActivationShape
  <2>. QED BY <2>1, <1>2, <1>3, <1>4, TopReplaced
<1>10. /\ activations'[d].frame = Top.frame /\ activations'[d].mutable = Top.mutable
       /\ (activations'[d].declared <=> Top.declared) /\ activations'[d].call = NoCall
       /\ activations'[d].caught = Top.caught
  BY <1>4, <1>9 DEF ActivationShape
<1>13. /\ frames'[Top.frame] = StoredBack /\ frames'[Top.call.to] = DefaultFrame
       /\ \A a \in Addresses : a # Top.frame /\ a # Top.call.to => frames'[a] = frames[a]
       /\ \A k \in Levels : k # Depth =>
              /\ frames'[activations[k].frame] = frames[activations[k].frame]
              /\ activations[k].caught # NoFrame =>
                   frames'[activations[k].caught].err = frames[activations[k].caught].err
       /\ activations[Depth].caught # NoFrame => frames'[Top.caught] = frames[Top.caught]
  BY <1>2, BackIs
<1>16. PICK hold2 : hold2 = [h EXCEPT ![<<0, "result">>] = Nil]
  OBVIOUS
<1>22. h[<<0, "result">>] = n
  BY <1>4, <1>6, <1>8, KindsAre
<1>23. AreBooks(hold2, live', leaked')
  <2>1. live' = (live \ Garbage) \ {h[<<0, "result">>]}
    BY <1>2, <1>5, <1>22
  <2>2. AreBooks(hold2, (live \ Garbage) \ {h[<<0, "result">>]}, leaked)
    BY <1>6, <1>8, <1>16, Dropping
  <2>. QED BY <2>1, <2>2, <1>2
<1>24. \A k \in Nat, x \in Kinds :
         hold2[<<k, x>>] = IF k = 0 /\ x = "result" THEN Nil
                           ELSE IF k = d /\ x \in Params THEN Nil ELSE hold[<<k, x>>]
  <2>1. \A k \in Nat, x \in Kinds : hold2[<<k, x>>] = IF k = 0 /\ x = "result" THEN Nil ELSE h[<<k, x>>]
    BY <1>8, <1>16, KeepersAre
  <2>. QED BY <2>1, <1>8
<1>25. misfreed' = FALSE
  <2>1. n \in live
    BY <1>4, <1>6, KeptIsHeld
  <2>. QED BY <2>1, <1>2, <1>4, <1>5, <1>8 DEF Free
<1>26. \A s \in Places : cur[d][s] = Slot(frames'[Top.frame], s)
  BY <1>4, <1>13, PlacesAre DEF Slot
<1>27. Kept' \subseteq Kept
  BY <1>2 DEF Kept
<1>28. OnlyTheTop(d, hold, hold2)
  <2>1. "result" # "local" /\ "result" # "caught" /\ "result" \notin Params /\ "result" \in Kinds
    BY KindsAre
  <2>2. hold2[<<d, "result">>] = Nil
    BY <2>1, <1>3, <1>4, <1>24
  <2>3. \A k \in Nat : \A x \in Kinds : k # d /\ k # 0 => hold2[<<k, x>>] = hold[<<k, x>>]
    BY <1>24
  <2>4. \A x \in Kinds : x # "result" => hold2[<<0, x>>] = hold[<<0, x>>]
    <3>1. 0 # d /\ 0 \in Nat
      BY <1>4
    <3>. QED BY <3>1, <1>24
  <2>. QED BY <2>2, <2>3, <2>4 DEF OnlyTheTop
<1>29. KeepsAt(d, cur, hold2)'
  <2>1. hold2[<<d, "local">>] = hold[<<d, "local">>] /\ hold2[<<d, "caught">>] = hold[<<d, "caught">>]
        /\ \A i \in Params : hold2[<<d, i>>] = Nil
    BY <1>4, <1>24, KindsAre, PlacesAre
  <2>2. d \in Levels' /\ ~Pending(d)'
    BY <1>4, <1>9, <1>10 DEF Pending
  <2>3. IF activations'[d].caught # NoFrame
          THEN /\ hold2[<<d, "caught">>] = frames'[activations'[d].caught].err.message
               /\ frames'[activations'[d].caught].err.message # Nil
          ELSE hold2[<<d, "caught">>] = Nil
    BY <1>3, <1>4, <1>10, <1>13, <2>1 DEF KeepsAt
  <2>4. IF activations'[d].declared
          THEN hold2[<<d, "local">>] = cur[d]["local"] /\ cur[d]["local"] # Nil ELSE hold2[<<d, "local">>] = Nil
    BY <2>1, <1>4, <1>10 DEF KeepsAt
  <2>. QED BY <2>1, <2>2, <2>3, <2>4 DEF KeepsAt
<1>30. KeepsResult(hold2)'
  BY <1>2, <1>4, <1>24, KindsAre DEF KeepsResult
<1>31. \A s \in Places : Unset(d, s)' => Unset(d, s) /\ Slot(frames'[Top.frame], s) = Slot(Frame, s)
  <2>1. \A s \in Places : Unset(d, s)' => Unset(d, s)
    BY <1>4, <1>10 DEF Unset
  <2>. QED BY <2>1, <1>4, <1>13
<1>32. ASSUME NEW a \in Addresses, \A k \in Levels : activations[k].frame # a
       PROVE  frames'[a].local \notin Kept'
  <2>1. CASE a = Top.call.to
    <3>1. frames'[a].local = Nil
      BY <2>1, <1>13 DEF DefaultFrame
    <3>. QED BY <3>1, <1>4, <1>27 DEF Kept
  <2>2. CASE a # Top.call.to
    <3>1. frames[a].local \notin Kept /\ frames'[a] = frames[a]
      BY <1>32, <2>2, <1>3, <1>4, <1>13 DEF StaleIsGone
    <3>. QED BY <3>1, <1>27
  <2>. QED BY <2>1, <2>2
<1>33. d > 1 => \A i \in Params : Top.mutable[i] => cur[d]["local"] # cur[d][i]
  BY <1>4, PlacesAre DEF NoAlias
<1>34. TopChanges(d, cur, hold, cur, hold2)
  BY <1>2, <1>3, <1>4, <1>9, <1>10, <1>13, <1>23, <1>25, <1>26, <1>27, <1>28, <1>29, <1>30, <1>31, <1>32, <1>33
     DEF TopChanges
<1>. QED BY <1>1, <1>2, <1>34, LevelStays

(* The message of the error becomes that of the handler. *)
LEMMA EnterCatchAccounts ==
  ASSUME Frames, Accounted, EnterCatch
  PROVE  Accounted'
<1>1. PICK cur, hold : Accounts(cur, hold)
  BY DEF Accounted
<1>2. /\ Returned /\ outcome = "error" /\ outcome' = "none" /\ leaked' = leaked /\ activations # <<>>
      /\ Free(Garbage) /\ live' = live \ Garbage /\ frames' = [frames EXCEPT ![Top.frame] = StoredBack]
      /\ Top.call.catches
      /\ activations' = Replace([Top EXCEPT !.caught = Top.call.to, !.call = NoCall, !.expected = raised])
  BY DEF EnterCatch, Returned
<1>3. PICK d \in Nat : d = Depth
  BY <1>2, OnTop DEF Frames
<1>4. /\ CallsTypes /\ activations # <<>> /\ d \in Levels /\ d >= 1 /\ Top = activations[d]
      /\ Top \in ActivationShape /\ Top.frame \in Addresses /\ Top.call.to \in Addresses /\ Callee \in FrameShape
      /\ Frame = frames[Top.frame] /\ Frame \in FrameShape /\ StoredBack \in FrameShape
      /\ Pending(d) /\ CallIsCareful(d)
      /\ cur \in [Nat -> [Places -> Maybe]] /\ StaleIsGone /\ KeepsAt(d, cur, hold) /\ KeepsResult(hold)
      /\ AreBooks(hold, live, leaked) /\ misfreed = FALSE /\ hold \in [Keepers -> Maybe]
      /\ hold[<<d, "result">>] = Nil /\ NoAlias(cur) /\ Nil \notin live
      /\ StoredBack.local = cur[d]["local"]
      /\ \A i \in Params : StoredBack.params[i] = cur[d][i]
      /\ \A s \in Places : Unset(d, s) => Slot(StoredBack, s) = Slot(Frame, s)
  <2>1. CallerSees(d, cur, hold)
    BY <1>1, <1>2, <1>3, AtReturn
  <2>. QED BY <2>1 DEF CallerSees
<1>5. PICK n : n = Callee.err.message
  OBVIOUS
<1>6. hold[<<0, "result">>] = n /\ n # Nil /\ <<0, "result">> \in Keepers /\ n \in Maybe
  <2>1. n \in Maybe
    BY <1>4, <1>5 DEF FrameShape
  <2>. QED BY <2>1, <1>1, <1>2, <1>5, ResultIsKept
<1>7. PICK h : GarbageGone(d, hold, h)
  BY <1>1, <1>2, <1>3, GarbageIsDropped
<1>8. /\ AreBooks(h, live \ Garbage, leaked) /\ Garbage \subseteq live /\ h \in [Keepers -> Maybe]
      /\ \A k \in Nat, x \in Kinds : h[<<k, x>>] = IF k = d /\ x \in Params THEN Nil ELSE hold[<<k, x>>]
  BY <1>7 DEF GarbageGone, AreBooks
<1>9. /\ Depth' = Depth /\ Levels' = Levels
      /\ activations'[d] = [Top EXCEPT !.caught = Top.call.to, !.call = NoCall, !.expected = raised]
      /\ \A k \in Levels : k # d => activations'[k] = activations[k]
  <2>1. [Top EXCEPT !.caught = Top.call.to, !.call = NoCall, !.expected = raised] \in ActivationShape
    BY <1>4 DEF ActivationShape, CallsTypes
  <2>. QED BY <2>1, <1>2, <1>3, <1>4, TopReplaced
<1>10. /\ activations'[d].frame = Top.frame /\ activations'[d].mutable = Top.mutable
       /\ (activations'[d].declared <=> Top.declared) /\ activations'[d].call = NoCall
       /\ activations'[d].caught = Top.call.to
  BY <1>4, <1>9 DEF ActivationShape
<1>11. Top.call.to # Top.frame /\ Top.call.to # NoFrame /\ Callee = frames[Top.call.to] /\ Top.caught = NoFrame
  BY <1>2, <1>4, OnReturn, NoFrameIsNone DEF CallIsCareful
<1>13. /\ frames'[Top.frame] = StoredBack /\ frames'[Top.call.to] = Callee
       /\ \A a \in Addresses : a # Top.frame => frames'[a] = frames[a]
  BY <1>2, <1>4, <1>11 DEF CallsTypes
<1>14. \A k \in Levels : k # Depth =>
         /\ frames'[activations[k].frame] = frames[activations[k].frame]
         /\ activations[k].caught # NoFrame =>
              frames'[activations[k].caught].err = frames[activations[k].caught].err
  <2>1. \A k \in Levels : activations[k].caught # NoFrame =>
          activations[k].caught \in Addresses /\ activations[k].caught # Top.frame
    BY <1>4, LevelsAre DEF Frames, Catching, ActivationShape
  <2>. QED BY <2>1, <1>2, <1>13, OtherFrames
<1>15. <<d, "caught">> \in Keepers /\ <<d, "caught">> # <<0, "result">>
  BY <1>3, KeepersAre, KindsAre
<1>16. PICK hold2 : hold2 = [h EXCEPT ![<<d, "caught">>] = h[<<0, "result">>], ![<<0, "result">>] = Nil]
  OBVIOUS
<1>22. h[<<0, "result">>] = n /\ h[<<d, "caught">>] = Nil
  <2>1. hold[<<d, "caught">>] = Nil
    BY <1>4, <1>11 DEF KeepsAt
  <2>2. h[<<d, "caught">>] = hold[<<d, "caught">>]
    BY <1>8, KindsAre
  <2>3. h[<<0, "result">>] = hold[<<0, "result">>]
    BY <1>4, <1>8, KindsAre
  <2>. QED BY <2>1, <2>2, <2>3, <1>6
<1>23. AreBooks(hold2, live', leaked')
  BY <1>2, <1>6, <1>8, <1>15, <1>16, <1>22, Moving
<1>24. \A k \in Nat, x \in Kinds :
         hold2[<<k, x>>] = IF k = 0 /\ x = "result" THEN Nil
                           ELSE IF k = d /\ x = "caught" THEN n
                           ELSE IF k = d /\ x \in Params THEN Nil ELSE hold[<<k, x>>]
  <2>1. \A k \in Nat, x \in Kinds :
          hold2[<<k, x>>] = IF k = 0 /\ x = "result" THEN Nil
                            ELSE IF k = d /\ x = "caught" THEN n ELSE h[<<k, x>>]
    BY <1>3, <1>8, <1>16, <1>22, KeepersAre
  <2>2. \A k \in Nat, x \in Kinds : h[<<k, x>>] = IF k = d /\ x \in Params THEN Nil ELSE hold[<<k, x>>]
    BY <1>8
  <2>. QED BY <2>1, <2>2
<1>25. misfreed' = FALSE
  BY <1>2, <1>4, <1>8 DEF Free
<1>26. \A s \in Places : cur[d][s] = Slot(frames'[Top.frame], s)
  BY <1>4, <1>13, PlacesAre DEF Slot
<1>27. Kept' \subseteq Kept
  BY <1>2 DEF Kept
<1>28. OnlyTheTop(d, hold, hold2)
  <2>1. "result" # "local" /\ "result" # "caught" /\ "result" \notin Params /\ "result" \in Kinds
    BY KindsAre
  <2>2. hold2[<<d, "result">>] = Nil
    BY <2>1, <1>3, <1>4, <1>24
  <2>3. \A k \in Nat : \A x \in Kinds : k # d /\ k # 0 => hold2[<<k, x>>] = hold[<<k, x>>]
    BY <1>24
  <2>4. \A x \in Kinds : x # "result" => hold2[<<0, x>>] = hold[<<0, x>>]
    <3>1. 0 # d /\ 0 \in Nat
      BY <1>4
    <3>. QED BY <3>1, <1>24
  <2>. QED BY <2>2, <2>3, <2>4 DEF OnlyTheTop
<1>29. KeepsAt(d, cur, hold2)'
  <2>1. hold2[<<d, "local">>] = hold[<<d, "local">>] /\ hold2[<<d, "caught">>] = n
        /\ \A i \in Params : hold2[<<d, i>>] = Nil
    BY <1>4, <1>24, KindsAre, PlacesAre
  <2>2. d \in Levels' /\ ~Pending(d)'
    BY <1>4, <1>9, <1>10 DEF Pending
  <2>3. frames'[activations'[d].caught].err.message = n /\ activations'[d].caught # NoFrame
    BY <1>5, <1>10, <1>11, <1>13
  <2>4. IF activations'[d].declared
          THEN hold2[<<d, "local">>] = cur[d]["local"] /\ cur[d]["local"] # Nil ELSE hold2[<<d, "local">>] = Nil
    BY <2>1, <1>4, <1>10 DEF KeepsAt
  <2>. QED BY <2>1, <2>2, <2>3, <2>4, <1>6 DEF KeepsAt
<1>30. KeepsResult(hold2)'
  BY <1>2, <1>4, <1>24, KindsAre DEF KeepsResult
<1>31. \A s \in Places : Unset(d, s)' => Unset(d, s) /\ Slot(frames'[Top.frame], s) = Slot(Frame, s)
  <2>1. \A s \in Places : Unset(d, s)' => Unset(d, s)
    BY <1>4, <1>10 DEF Unset
  <2>. QED BY <2>1, <1>4, <1>13
<1>32. ASSUME NEW a \in Addresses, \A k \in Levels : activations[k].frame # a
       PROVE  frames'[a].local \notin Kept'
  <2>1. frames[a].local \notin Kept /\ frames'[a] = frames[a]
    BY <1>32, <1>2, <1>3, <1>4, <1>13 DEF StaleIsGone
  <2>. QED BY <2>1, <1>27
<1>33. d > 1 => \A i \in Params : Top.mutable[i] => cur[d]["local"] # cur[d][i]
  BY <1>4, PlacesAre DEF NoAlias
<1>34. TopChanges(d, cur, hold, cur, hold2)
  BY <1>2, <1>3, <1>4, <1>9, <1>10, <1>14, <1>23, <1>25, <1>26, <1>27, <1>28, <1>29, <1>30, <1>31, <1>32, <1>33
     DEF TopChanges
<1>. QED BY <1>1, <1>2, <1>34, LevelStays

(* The error goes on to the next caller; what the function kept is left
   behind. *)
LEMMA RethrowAccounts ==
  ASSUME Frames, Accounted, generate_rethrow
  PROVE  Accounted'
<1>1. PICK cur, hold : Accounts(cur, hold)
  BY DEF Accounted
<1>2. /\ Returned /\ outcome = "error" /\ outcome' = "error" /\ activations # <<>> /\ activations' = Pop
      /\ Free(Garbage) /\ live' = live \ Garbage /\ Back([StoredBack EXCEPT !.err = Callee.err], Top.call.to)
      /\ leaked' = leaked \union (IF Top.declared THEN {StoredBack.local} ELSE {})
                     \union (IF Top.caught # NoFrame THEN {frames[Top.caught].err.message} ELSE {})
  BY DEF generate_rethrow, Returned
<1>3. PICK d \in Nat : d = Depth
  BY <1>2, OnTop DEF Frames
<1>4. CallerSees(d, cur, hold)
  BY <1>1, <1>2, <1>3, AtReturn
<1>5. PICK n : n = Callee.err.message
  OBVIOUS
<1>6. hold[<<0, "result">>] = n /\ n # Nil /\ <<0, "result">> \in Keepers
  BY <1>1, <1>2, <1>5, ResultIsKept
<1>7. PICK h : GarbageGone(d, hold, h)
  BY <1>1, <1>2, <1>3, GarbageIsDropped
<1>8. /\ AreBooks(h, live', leaked) /\ Garbage \subseteq live /\ h \in [Keepers -> Maybe]
      /\ \A k \in Nat, x \in Kinds : h[<<k, x>>] = IF k = d /\ x \in Params THEN Nil ELSE hold[<<k, x>>]
  BY <1>2, <1>7 DEF GarbageGone, AreBooks
<1>9. /\ d \in Levels /\ d >= 1 /\ Top = activations[d] /\ KeepsAt(d, cur, hold)
      /\ hold[<<d, "result">>] = Nil /\ StoredBack.local = cur[d]["local"]
  BY <1>4 DEF CallerSees
<1>10. <<d, "local">> \in Keepers /\ <<d, "caught">> \in Keepers /\ <<d, "local">> # <<d, "caught">>
  BY <1>3, KeepersAre, KindsAre
<1>11. PICK h1 : h1 = [h EXCEPT ![<<d, "local">>] = Nil]
  OBVIOUS
<1>12. PICK hold2 : hold2 = [h1 EXCEPT ![<<d, "caught">>] = Nil]
  OBVIOUS
<1>13. {h[<<d, "local">>]} \ {Nil} = IF Top.declared THEN {StoredBack.local} ELSE {}
  <2>1. h[<<d, "local">>] = hold[<<d, "local">>]
    BY <1>3, <1>8, KindsAre, PlacesAre
  <2>2. IF Top.declared THEN hold[<<d, "local">>] = StoredBack.local /\ StoredBack.local # Nil
        ELSE hold[<<d, "local">>] = Nil
    BY <1>9 DEF KeepsAt
  <2>. QED BY <2>1, <2>2
<1>14. {h1[<<d, "caught">>]} \ {Nil} = IF Top.caught # NoFrame THEN {frames[Top.caught].err.message} ELSE {}
  <2>1. h[<<d, "caught">>] = hold[<<d, "caught">>]
    BY <1>3, <1>8, KindsAre, PlacesAre
  <2>2. IF Top.caught # NoFrame
          THEN hold[<<d, "caught">>] = frames[Top.caught].err.message /\ hold[<<d, "caught">>] # Nil
          ELSE hold[<<d, "caught">>] = Nil
    BY <1>9 DEF KeepsAt
  <2>3. h1[<<d, "caught">>] = h[<<d, "caught">>]
    BY <1>8, <1>10, <1>11
  <2>. QED BY <2>1, <2>2, <2>3
<1>15. AreBooks(hold2, live', leaked')
  <2>1. AreBooks(h1, live', leaked \union ({h[<<d, "local">>]} \ {Nil}))
    BY <1>8, <1>10, <1>11, Leaking
  <2>2. AreBooks(hold2, live', (leaked \union ({h[<<d, "local">>]} \ {Nil})) \union ({h1[<<d, "caught">>]} \ {Nil}))
    BY <2>1, <1>10, <1>12, Leaking
  <2>. QED BY <2>2, <1>2, <1>13, <1>14
<1>16. \A k \in Nat, x \in Kinds :
         hold2[<<k, x>>] = IF k = d /\ (x \in Places \/ x = "caught") THEN Nil ELSE hold[<<k, x>>]
  <2>1. \A k \in Nat, x \in Kinds : h1[<<k, x>>] = IF k = d /\ x = "local" THEN Nil ELSE h[<<k, x>>]
    BY <1>3, <1>8, <1>11, KeepersAre
  <2>2. h1 \in [Keepers -> Maybe]
    BY <1>8, <1>11 DEF Maybe
  <2>3. \A k \in Nat, x \in Kinds : hold2[<<k, x>>] = IF k = d /\ x = "caught" THEN Nil ELSE h1[<<k, x>>]
    BY <1>3, <2>2, <1>12, KeepersAre
  <2>4. \A k \in Nat, x \in Kinds : h[<<k, x>>] = IF k = d /\ x \in Params THEN Nil ELSE hold[<<k, x>>]
    BY <1>8
  <2>5. ASSUME NEW k \in Nat, NEW x \in Kinds
        PROVE  hold2[<<k, x>>] = IF k = d /\ (x \in Places \/ x = "caught") THEN Nil ELSE hold[<<k, x>>]
    BY <2>1, <2>3, <2>4, PlacesAre
  <2>. QED BY <2>5
<1>17. PICK fr : fr = [StoredBack EXCEPT !.err = Callee.err]
  OBVIOUS
<1>18. fr.local = StoredBack.local /\ fr.params = StoredBack.params /\ fr.err.message = n
  BY <1>4, <1>5, <1>17 DEF CallerSees, FrameShape
<1>19. /\ frames'[Top.frame] = fr /\ frames'[Top.call.to] = DefaultFrame
       /\ \A a \in Addresses : a # Top.frame /\ a # Top.call.to => frames'[a] = frames[a]
       /\ \A k \in Levels : k # Depth =>
              /\ frames'[activations[k].frame] = frames[activations[k].frame]
              /\ activations[k].caught # NoFrame =>
                   frames'[activations[k].caught].err = frames[activations[k].caught].err
       /\ activations[Depth].caught # NoFrame => frames'[Top.caught] = frames[Top.caught]
  BY <1>2, <1>17, BackIs
<1>20. misfreed' = FALSE
  BY <1>2, <1>4, <1>8 DEF Free, CallerSees
<1>21. Kept' \subseteq Kept
  BY <1>2 DEF Kept
<1>22. OnlyTheTop(d, hold, hold2)
  <2>1. hold2[<<d, "result">>] = Nil
    BY <1>3, <1>9, <1>16, KindsAre
  <2>2. \A k \in Nat : \A x \in Kinds : k # d /\ k # 0 => hold2[<<k, x>>] = hold[<<k, x>>]
    BY <1>16
  <2>3. \A x \in Kinds : x # "result" => hold2[<<0, x>>] = hold[<<0, x>>]
    <3>1. 0 # d /\ 0 \in Nat
      BY <1>9
    <3>. QED BY <3>1, <1>16
  <2>. QED BY <2>1, <2>2, <2>3 DEF OnlyTheTop
<1>23. \A x \in Kinds : hold2[<<d, x>>] = Nil
  <2>1. hold2[<<d, "result">>] = Nil
    BY <1>22 DEF OnlyTheTop
  <2>. QED BY <2>1, <1>3, <1>16 DEF Kinds, Places
<1>24. hold2[<<0, "result">>] = n
  <2>1. 0 # d /\ 0 \in Nat /\ "result" \in Kinds
    BY <1>9, KindsAre
  <2>. QED BY <2>1, <1>6, <1>16
<1>25. \A i \in Params : cur[d][i] = frames'[Top.frame].params[i]
  BY <1>4, <1>18, <1>19 DEF CallerSees
<1>26. ASSUME NEW a \in Addresses, \A k \in Levels : k # d => activations[k].frame # a
       PROVE  frames'[a].local \notin Kept'
  <2>1. CASE a = Top.call.to
    <3>1. frames'[a].local = Nil
      BY <2>1, <1>19 DEF DefaultFrame
    <3>. QED BY <3>1, <1>4, <1>21 DEF Kept, CallerSees
  <2>2. CASE a # Top.call.to /\ a # Top.frame
    <3>1. frames[a].local \notin Kept
      BY <1>26, <2>2, <1>2, <1>3, <1>4, <1>9 DEF StaleIsGone, CallerSees
    <3>2. frames'[a] = frames[a]
      BY <2>2, <1>19
    <3>. QED BY <3>1, <3>2, <1>21
  <2>3. CASE a = Top.frame
    <3>1. frames'[a].local = cur[d]["local"]
      BY <2>3, <1>9, <1>18, <1>19
    <3>2. CASE Top.declared
      <4>1. cur[d]["local"] \in leaked'
        BY <3>2, <1>2, <1>9
      <4>. QED BY <4>1, <3>1 DEF Kept
    <3>3. CASE ~Top.declared
      <4>1. Unset(d, "local") /\ "local" \in Places
        BY <3>3, <1>9, PlacesAre DEF Unset
      <4>2. cur[d]["local"] \notin Kept
        BY <4>1, <1>1, <1>9, IdleSlots
      <4>. QED BY <4>2, <3>1, <1>21
    <3>. QED BY <3>2, <3>3
  <2>. QED BY <2>1, <2>2, <2>3
<1>27. hold2[<<0, "result">>] =
         IF outcome' = "ok" THEN frames'[Top.frame].ret ELSE frames'[Top.frame].err.message
  BY <1>2, <1>18, <1>19, <1>24
<1>28. TopEnds(d, cur, hold, hold2)
  BY <1>2, <1>3, <1>6, <1>15, <1>19, <1>20, <1>21, <1>22, <1>23, <1>24, <1>25, <1>26, <1>27 DEF TopEnds
<1>. QED BY <1>1, <1>2, <1>28, LevelEnds

(* An assignment to a mutable parameter gives a new value to every slot
   that the parameter stands for, and to the local variable that owns it. *)
LEMMA AssignParameterAccounts ==
  ASSUME Frames, Accounted, NEW i \in Params, AssignParameter(i)
  PROVE  Accounted'
<1>1. PICK cur, hold : Accounts(cur, hold)
  BY DEF Accounted
<1>2. /\ InFunction /\ activations # <<>> /\ outcome = "none" /\ outcome' = "none" /\ CallsTypes
      /\ Top.mutable[i] /\ Free({Frame.params[i]}) /\ leaked' = leaked /\ activations' = activations
      /\ frames' = [frames EXCEPT ![Top.frame].params[i] = New]
      /\ live' = (live \ {Frame.params[i]}) \union {New}
  BY DEF AssignParameter, Step, Ready, InFunction, Frames
<1>3. PICK d \in Nat : d = Depth
  BY <1>2, OnTop
<1>4. d \in Levels /\ d >= 1 /\ Top = activations[d] /\ Top.frame \in Addresses /\ Frame \in FrameShape
      /\ Frame = frames[Top.frame] /\ Top \in ActivationShape
  BY <1>2, <1>3, OnTop DEF Frame
<1>5. PICK n \in Values : n = New /\ n # Nil /\ n \notin live /\ n \in Unused
  BY FreshValue, ValuesArePositive DEF AssignParameter, Unused, Mentioned
<1>6. /\ cur \in [Nat -> [Places -> Maybe]] /\ IsCurrent(cur) /\ StaleIsGone /\ Holding(cur, hold)
      /\ Backing(cur, hold) /\ NoAlias(cur) /\ AreBooks(hold, live, leaked) /\ misfreed = FALSE
      /\ hold \in [Keepers -> Maybe] /\ n \in Maybe
  BY <1>1, <1>5 DEF Accounts, Contents, AreBooks, Maybe
<1>7. PICK old : old = Frame.params[i]
  OBVIOUS
<1>8. cur[d][i] = old
  BY <1>1, <1>2, <1>3, <1>7, TopIsRaw, PlacesAre DEF Slot
<1>9. d > 1
  BY <1>2, <1>3, <1>4 DEF Frames, Stacking
<1>10. PICK j \in 1..(d - 1) : hold[<<j, "local">>] = old /\ <<j, "local">> \in Keepers
  <2>1. PICK l \in 1..(d - 1), x \in Places :
          hold[<<l, x>>] = cur[d][i] /\ <<l, x>> \in Keepers /\ (activations[d].mutable[i] => x = "local")
    BY <1>1, <1>4, <1>9, ParametersAreKept
  <2>2. x = "local"
    BY <2>1, <1>2, <1>4
  <2>. QED BY <2>1, <2>2, <1>8
<1>11. old # Nil /\ old \in Values /\ old \in live /\ old \notin leaked
  BY <1>1, <1>4, <1>8, <1>9, ParametersAreKept
<1>12. PICK hold2 : hold2 = [hold EXCEPT ![<<j, "local">>] = n]
  OBVIOUS
<1>13. AreBooks(hold2, live', leaked')
  BY <1>2, <1>5, <1>6, <1>7, <1>10, <1>11, <1>12, Changing
<1>14. j \in Nat /\ j >= 1
  OBVIOUS
<1>15. \A k \in Nat, x \in Kinds : hold2[<<k, x>>] = IF k = j /\ x = "local" THEN n ELSE hold[<<k, x>>]
  BY <1>6, <1>12, <1>14, KeepersAre
<1>16. PICK cur2 : cur2 = [k \in Nat |-> [s \in Places |-> IF cur[k][s] = old THEN n ELSE cur[k][s]]]
  OBVIOUS
<1>17. /\ cur2 \in [Nat -> [Places -> Maybe]]
       /\ \A k \in Nat : \A s \in Places : cur2[k][s] = IF cur[k][s] = old THEN n ELSE cur[k][s]
  BY <1>6, <1>16
<1>18. misfreed' = FALSE
  BY <1>2, <1>6, <1>7, <1>11 DEF Free
<1>19. /\ \A a \in Addresses : a # Top.frame => frames'[a] = frames[a]
       /\ \A a \in Addresses : frames'[a].err = frames[a].err /\ frames'[a].local = frames[a].local
       /\ \A s \in Places : s # i => Slot(frames'[Top.frame], s) = Slot(Frame, s)
       /\ Slot(frames'[Top.frame], i) = n
  <2>1. frames'[Top.frame] = [Frame EXCEPT !.params[i] = n] /\ \A a \in Addresses : a # Top.frame => frames'[a] = frames[a]
    BY <1>2, <1>4, <1>5 DEF CallsTypes
  <2>2. /\ frames'[Top.frame].local = Frame.local /\ frames'[Top.frame].err = Frame.err
        /\ frames'[Top.frame].params = [Frame.params EXCEPT ![i] = n]
    BY <1>4, <2>1 DEF FrameShape
  <2>3. Frame.params \in [Params -> Maybe]
    BY <1>4 DEF FrameShape
  <2>4. frames'[Top.frame].params[i] = n /\ \A s \in Params : s # i => frames'[Top.frame].params[s] = Frame.params[s]
    BY <2>2, <2>3
  <2>. QED BY <1>4, <2>1, <2>2, <2>4, PlacesAre DEF Slot
<1>20. \A k \in Levels : k \in Nat /\ k \in 1..d /\ activations[k].frame \in Addresses
  BY <1>2, <1>3, LevelsAre DEF Levels
<1>21. Levels' = Levels /\ Depth' = Depth /\ Kept' \subseteq Kept \union {n}
  <2>1. Levels' = Levels /\ Depth' = Depth
    BY <1>2 DEF Levels, Depth
  <2>2. live' \subseteq live \union {n} /\ leaked' = leaked
    BY <1>2, <1>5
  <2>. QED BY <2>1, <2>2 DEF Kept
<1>22. ASSUME NEW k \in Levels, NEW s \in Places, <<k, s>> # <<d, i>>
       PROVE  Raw(k, s)' = Raw(k, s)
  <2>1. CASE k = d
    BY <2>1, <1>2, <1>4, <1>19, <1>22 DEF Raw
  <2>2. CASE k # d
    <3>1. frames'[activations[k].frame] = frames[activations[k].frame]
      BY <2>2, <1>2, <1>3, <1>19, OtherFrames
    <3>. QED BY <3>1, <1>2 DEF Raw
  <2>. QED BY <2>1, <2>2
<1>23. ASSUME NEW k \in Levels, NEW s \in Places
       PROVE  (Lent(k, s)' <=> Lent(k, s)) /\ \A p \in Params : LentTo(k, s, p)' <=> LentTo(k, s, p)
  BY <1>2 DEF Lent, LentTo, Pending
<1>24. IsCurrent(cur2)'
  <2>1. ASSUME NEW k \in Levels, NEW s \in Places, ~Lent(k, s)
        PROVE  cur2[k][s] = Raw(k, s)'
    <3>1. CASE <<k, s>> = <<d, i>>
      BY <3>1, <1>2, <1>4, <1>8, <1>17, <1>19 DEF Raw
    <3>2. CASE <<k, s>> # <<d, i>>
      <4>1. cur[k][s] # old
        BY <2>1, <3>2, <1>2, <1>4, <1>6, <1>8, <1>9, <1>20 DEF NoAlias
      <4>2. cur[k][s] = Raw(k, s)
        BY <2>1, <1>6 DEF IsCurrent
      <4>. QED BY <4>1, <4>2, <3>2, <1>17, <1>20, <1>22
    <3>. QED BY <3>1, <3>2
  <2>2. ASSUME NEW k \in Levels, NEW s \in Places, NEW p \in Params, LentTo(k, s, p)
        PROVE  k # Depth /\ cur2[k][s] = cur2[k + 1][p]
    <3>1. k < Depth
      BY <2>2, <1>2 DEF Frames, Calling, LentTo
    <3>2. k # Depth /\ k \in Nat /\ k + 1 \in Nat
      BY <3>1, <1>3, <1>20
    <3>3. cur[k][s] = cur[k + 1][p]
      BY <2>2, <3>2, <1>6 DEF IsCurrent
    <3>. QED BY <3>2, <3>3, <1>17, PlacesAre
  <2>3. \A k \in Levels : \A s \in Places : ~Lent(k, s) => cur2[k][s] = Raw(k, s)'
    BY <2>1
  <2>4. \A k \in Levels : \A s \in Places : \A p \in Params : LentTo(k, s, p) => k # Depth /\ cur2[k][s] = cur2[k + 1][p]
    BY <2>2
  <2>. QED BY <2>3, <2>4, <1>21, <1>23 DEF IsCurrent
<1>25. StaleIsGone'
  <2>1. ASSUME NEW k \in Levels, NEW s \in Places, Unset(k, s)'
        PROVE  Raw(k, s)' \notin Kept'
    <3>1. Unset(k, s)
      BY <2>1, <1>2 DEF Unset
    <3>2. Raw(k, s) \notin Kept'
      <4>1. Kept' \subseteq Kept \union Unused
        BY <1>5, <1>21
      <4>. QED BY <3>1, <4>1, <1>1, UnsetStays
    <3>3. <<k, s>> # <<d, i>>
      BY <3>1, <1>9, PlacesAre DEF Unset
    <3>. QED BY <3>2, <3>3, <1>22
  <2>2. ASSUME NEW a \in Addresses, \A k \in Levels : activations[k].frame # a
        PROVE  frames'[a].local \notin Kept'
    <3>1. frames[a].local \notin Kept
      BY <2>2, <1>2, <1>3, <1>4, <1>6 DEF StaleIsGone
    <3>2. frames[a].local # n
      BY <1>1, <1>5, FreshIsNowhere
    <3>. QED BY <3>1, <3>2, <1>19, <1>21
  <2>. QED BY <2>1, <2>2, <1>2, <1>21 DEF StaleIsGone
<1>26. Holding(cur2, hold2)'
  <2>1. ASSUME NEW k \in Nat
        PROVE  KeepsAt(k, cur2, hold2)'
    <3>1. KeepsAt(k, cur, hold)
      BY <1>6 DEF Holding
    <3>2. hold2[<<k, "caught">>] = hold[<<k, "caught">>] /\ \A p \in Params : hold2[<<k, p>>] = hold[<<k, p>>]
      BY <1>15, KindsAre, PlacesAre
    <3>3. IF k \in Levels /\ activations[k].declared
            THEN hold2[<<k, "local">>] = cur2[k]["local"] /\ cur2[k]["local"] # Nil ELSE hold2[<<k, "local">>] = Nil
      <4>1. hold2[<<k, "local">>] = IF k = j THEN n ELSE hold[<<k, "local">>]
        BY <1>15, KindsAre
      <4>2. cur2[k]["local"] = IF cur[k]["local"] = old THEN n ELSE cur[k]["local"]
        BY <1>17, KindsAre
      <4>3. IF k \in Levels /\ activations[k].declared
              THEN hold[<<k, "local">>] = cur[k]["local"] /\ cur[k]["local"] # Nil ELSE hold[<<k, "local">>] = Nil
        BY <3>1 DEF KeepsAt
      <4>4. hold[<<k, "local">>] = old => k = j
        <5>1. <<k, "local">> \in Keepers
          BY KeepersAre, KindsAre
        <5>2. hold[<<k, "local">>] = old => <<k, "local">> = <<j, "local">>
          BY <5>1, <1>6, <1>10, <1>11, KeepersDiffer
        <5>. QED BY <5>2
      <4>. QED BY <4>1, <4>2, <4>3, <4>4, <1>5, <1>10, <1>11
    <3>4. /\ activations[k].caught # NoFrame /\ k \in Levels =>
             frames'[activations[k].caught].err = frames[activations[k].caught].err
      <4>1. k \in Levels /\ activations[k].caught # NoFrame => activations[k].caught \in Addresses
        BY <1>2, LevelsAre DEF ActivationShape
      <4>. QED BY <4>1, <1>19
    <3>. QED BY <3>1, <3>2, <3>3, <3>4, <1>2, <1>21 DEF KeepsAt, Pending
  <2>2. KeepsResult(hold2)'
    <3>1. hold2[<<0, "result">>] = hold[<<0, "result">>]
      BY <1>15, KindsAre
    <3>. QED BY <3>1, <1>2, <1>6 DEF KeepsResult, Holding
  <2>3. \A k \in Nat : hold2[<<k, "result">>] = hold[<<k, "result">>]
    BY <1>15, KindsAre
  <2>. QED BY <2>1, <2>2, <2>3, <1>6 DEF Holding
<1>27. Backing(cur2, hold2)'
  <2>1. ASSUME NEW k \in Levels, k > 1, NEW p \in Params
        PROVE  /\ cur2[k][p] # Nil
               /\ \E l \in 1..(k - 1), x \in Places :
                    hold2[<<l, x>>] = cur2[k][p] /\ (activations'[k].mutable[p] => x = "local")
    <3>1. PICK l \in 1..(k - 1), x \in Places :
            hold[<<l, x>>] = cur[k][p] /\ (activations[k].mutable[p] => x = "local")
      BY <2>1, <1>6 DEF Backing
    <3>2. cur[k][p] # Nil
      BY <2>1, <1>6 DEF Backing
    <3>3. cur2[k][p] = IF cur[k][p] = old THEN n ELSE cur[k][p]
      BY <1>17, <1>20, PlacesAre
    <3>4. <<l, x>> \in Keepers /\ l \in Nat /\ x \in Kinds
      BY <1>20, KeepersAre, KindsAre
    <3>5. hold2[<<l, x>>] = IF l = j /\ x = "local" THEN n ELSE hold[<<l, x>>]
      BY <3>4, <1>15
    <3>6. cur[k][p] = old => <<l, x>> = <<j, "local">>
      BY <3>1, <3>4, <1>6, <1>10, <1>11, KeepersDiffer
    <3>7. hold2[<<l, x>>] = cur2[k][p]
      BY <3>1, <3>3, <3>5, <3>6, <1>10
    <3>. QED BY <3>1, <3>2, <3>3, <3>7, <1>2, <1>5
  <2>. QED BY <2>1, <1>21 DEF Backing
<1>28. NoAlias(cur2)'
  <2>1. ASSUME NEW k \in Levels, k > 1, NEW p \in Params, activations[k].mutable[p], NEW k2 \in 1..k, NEW s \in Places,
               cur2[k2][s] = cur2[k][p], <<k2, s>> # <<k, p>>
        PROVE  k2 < k /\ Lent(k2, s)
    <3>1. k2 \in Levels
      BY <1>3, <1>20 DEF Levels
    <3>2. cur[k2][s] # n /\ cur[k][p] # n
      BY <3>1, <1>1, <1>5, FreshIsNowhere, PlacesAre
    <3>3. cur[k2][s] = cur[k][p]
      <4>1. cur2[k2][s] = IF cur[k2][s] = old THEN n ELSE cur[k2][s]
        BY <3>1, <1>17, <1>20
      <4>2. cur2[k][p] = IF cur[k][p] = old THEN n ELSE cur[k][p]
        BY <1>17, <1>20, PlacesAre
      <4>. QED BY <4>1, <4>2, <3>2, <2>1
    <3>. QED BY <3>3, <2>1, <1>6 DEF NoAlias
  <2>2. \A k \in Levels : k > 1 => \A p \in Params : activations[k].mutable[p] =>
          \A k2 \in 1..k : \A s \in Places :
            cur2[k2][s] = cur2[k][p] /\ <<k2, s>> # <<k, p>> => k2 < k /\ Lent(k2, s) /\ k2 \in Levels
    <3>1. \A k \in Levels : \A k2 \in 1..k : k2 \in Levels
      BY <1>3, <1>20 DEF Levels
    <3>. QED BY <2>1, <3>1
  <2>. QED BY <2>2, <1>2, <1>21, <1>23 DEF NoAlias
<1>29. Accounts(cur2, hold2)'
  BY <1>13, <1>17, <1>18, <1>24, <1>25, <1>26, <1>27, <1>28 DEF Accounts, Contents
<1>. QED BY <1>29 DEF Accounted

(* The end of a function: fr is its frame afterwards. *)
Ends(d, fr, hold, hold2) ==
  /\ d = Depth /\ activations' = Pop /\ outcome' \in {"ok", "error"} /\ misfreed' = FALSE
  /\ frames' = [frames EXCEPT ![Top.frame] = fr]
  /\ fr.params = Frame.params /\ fr.local = Frame.local
  /\ AreBooks(hold2, live', leaked') /\ Kept' \subseteq Kept \union Unused
  /\ hold2[<<0, "result">>] # Nil
  /\ hold2[<<0, "result">>] = IF outcome' = "ok" THEN fr.ret ELSE fr.err.message
  /\ \A k \in Nat, x \in Kinds :
       k # 0 \/ x # "result" => hold2[<<k, x>>] = IF k = d THEN Nil ELSE hold[<<k, x>>]
  /\ outcome' = "error" => Frame.local \notin Kept'

(* Then the level leaves, and the result has its keeper. *)
LEMMA Ending ==
  ASSUME Frames, InFunction, NEW cur, NEW hold, Accounts(cur, hold), NEW d \in Nat, NEW fr, NEW hold2,
         Ends(d, fr, hold, hold2)
  PROVE  Accounted'
<1>1. /\ d = Depth /\ activations' = Pop /\ outcome' \in {"ok", "error"} /\ misfreed' = FALSE
      /\ frames' = [frames EXCEPT ![Top.frame] = fr]
      /\ fr.params = Frame.params /\ fr.local = Frame.local
  BY DEF Ends
<1>2. activations # <<>> /\ outcome = "none" /\ CallsTypes
  BY DEF InFunction, Frames
<1>3. d \in Levels /\ d >= 1 /\ Top = activations[d] /\ Top.frame \in Addresses /\ Frame \in FrameShape
      /\ Frame = frames[Top.frame]
  BY <1>1, <1>2, OnTop DEF Frame
<1>4. frames'[Top.frame] = fr /\ \A a \in Addresses : a # Top.frame => frames'[a] = frames[a]
  BY <1>1, <1>2, <1>3 DEF CallsTypes
<1>5. \A k \in Levels : k # d =>
        /\ frames'[activations[k].frame] = frames[activations[k].frame]
        /\ activations[k].caught # NoFrame =>
             frames'[activations[k].caught].err = frames[activations[k].caught].err
  <2>1. \A k \in Levels : activations[k].caught # NoFrame =>
          activations[k].caught \in Addresses /\ activations[k].caught # Top.frame
    BY <1>2, <1>3, LevelsAre DEF Frames, Catching, ActivationShape
  <2>. QED BY <2>1, <1>1, <1>2, <1>4, OtherFrames
<1>6. \A i \in Params : cur[d][i] = frames'[Top.frame].params[i]
  <2>1. \A s \in Places : cur[d][s] = Slot(Frame, s)
    BY <1>1, TopIsRaw
  <2>. QED BY <2>1, <1>1, <1>4, PlacesAre DEF Slot
<1>7. \A k \in Nat, x \in Kinds :
        k # 0 \/ x # "result" => hold2[<<k, x>>] = IF k = d THEN Nil ELSE hold[<<k, x>>]
  BY DEF Ends
<1>8. 0 # d /\ 0 \in Nat
  BY <1>3
<1>9. \A x \in Kinds : hold2[<<d, x>>] = Nil
  BY <1>7, <1>8
<1>10. OnlyTheTop(d, hold, hold2)
  <2>1. \A k \in Nat : \A x \in Kinds : k # d /\ k # 0 => hold2[<<k, x>>] = hold[<<k, x>>]
    BY <1>7
  <2>2. \A x \in Kinds : x # "result" => hold2[<<0, x>>] = hold[<<0, x>>]
    BY <1>7, <1>8
  <2>. QED BY <2>1, <2>2, <1>9, KindsAre DEF OnlyTheTop
<1>11. ASSUME NEW a \in Addresses, \A k \in Levels : k # d => activations[k].frame # a,
              ~(outcome' = "ok" /\ a = Top.frame)
       PROVE  frames'[a].local \notin Kept'
  <2>1. CASE a = Top.frame
    BY <2>1, <1>1, <1>4, <1>11 DEF Ends
  <2>2. CASE a # Top.frame
    <3>1. frames[a].local \notin Kept
      BY <1>1, <1>2, <1>3, <1>11, <2>2 DEF Accounts, Contents, StaleIsGone
    <3>2. frames[a].local \notin Unused
      BY FreshIsNowhere
    <3>3. frames'[a] = frames[a]
      BY <2>2, <1>4
    <3>. QED BY <3>1, <3>2, <3>3 DEF Ends
  <2>. QED BY <2>1, <2>2
<1>12. /\ AreBooks(hold2, live', leaked') /\ Kept' \subseteq Kept \union Unused
       /\ hold2[<<0, "result">>] # Nil
       /\ hold2[<<0, "result">>] =
            IF outcome' = "ok" THEN frames'[Top.frame].ret ELSE frames'[Top.frame].err.message
  BY <1>4 DEF Ends
<1>13. TopEnds(d, cur, hold, hold2)
  BY <1>1, <1>5, <1>6, <1>9, <1>10, <1>11, <1>12 DEF TopEnds
<1>. QED BY <1>2, <1>13, LevelEnds

(* What a function keeps of its own: its local variable and the message of
   the error it handles. *)
LEMMA OwnValues ==
  ASSUME Frames, InFunction, NEW cur, NEW hold, Accounts(cur, hold), NEW d \in Nat, d = Depth
  PROVE  /\ hold[<<d, "local">>] = IF Top.declared THEN Frame.local ELSE Nil
         /\ hold[<<d, "caught">>] = IF Top.caught # NoFrame THEN frames[Top.caught].err.message ELSE Nil
         /\ Top.declared => Frame.local \in live /\ Frame.local \notin leaked /\ Frame.local # Nil
         /\ Top.caught # NoFrame => frames[Top.caught].err.message \in live
         /\ \A i \in Params : hold[<<d, i>>] = Nil
         /\ hold[<<d, "result">>] = Nil /\ hold[<<0, "result">>] = Nil
         /\ <<d, "local">> \in Keepers /\ <<d, "caught">> \in Keepers /\ <<0, "result">> \in Keepers
         /\ ~Top.declared => Frame.local \notin Kept
         /\ AreBooks(hold, live, leaked) /\ hold \in [Keepers -> Maybe] /\ Nil \notin live /\ misfreed = FALSE
         /\ d >= 1
<1>1. activations # <<>> /\ outcome = "none" /\ CallsTypes
  BY DEF InFunction, Frames
<1>2. d \in Levels /\ d >= 1 /\ Top = activations[d]
  BY <1>1, OnTop
<1>3. /\ KeepsAt(d, cur, hold) /\ KeepsResult(hold) /\ AreBooks(hold, live, leaked) /\ hold \in [Keepers -> Maybe]
      /\ Nil \notin live /\ hold[<<d, "result">>] = Nil /\ misfreed = FALSE
  BY <1>2, ValuesArePositive DEF Accounts, Contents, Holding, AreBooks
<1>4. cur[d]["local"] = Frame.local
  BY TopIsRaw, PlacesAre DEF Slot
<1>5. ~Pending(d)
  BY <1>1, <1>2 DEF Frames, Calling
<1>6. <<d, "local">> \in Keepers /\ <<d, "caught">> \in Keepers /\ <<0, "result">> \in Keepers
  BY KeepersAre, KindsAre
<1>7. /\ hold[<<d, "local">>] = IF Top.declared THEN Frame.local ELSE Nil
      /\ hold[<<d, "caught">>] = IF Top.caught # NoFrame THEN frames[Top.caught].err.message ELSE Nil
      /\ \A i \in Params : hold[<<d, i>>] = Nil
      /\ Top.declared => Frame.local # Nil
      /\ Top.caught # NoFrame => frames[Top.caught].err.message # Nil
  BY <1>2, <1>3, <1>4, <1>5 DEF KeepsAt
<1>8. Top.declared => Frame.local \in live /\ Frame.local \notin leaked
  BY <1>3, <1>6, <1>7, KeptIsHeld
<1>9. Top.caught # NoFrame => frames[Top.caught].err.message \in live
  BY <1>3, <1>6, <1>7, KeptIsHeld
<1>10. ~Top.declared => Frame.local \notin Kept
  BY <1>2, <1>4, IdleSlots, PlacesAre DEF Unset
<1>11. hold[<<0, "result">>] = Nil
  BY <1>1, <1>3 DEF KeepsResult
<1>. QED BY <1>2, <1>3, <1>6, <1>7, <1>8, <1>9, <1>10, <1>11

(* The scopes of a function end with all that it keeps of its own. *)
ScopesEnd(d, hold, h) ==
  /\ AreBooks(h, live \ Cleanup({}), leaked) /\ Cleanup({}) \subseteq live
  /\ \A k \in Nat, x \in Kinds : h[<<k, x>>] = IF k = d THEN Nil ELSE hold[<<k, x>>]

(* The keepers of the level give everything up. *)
LEMMA CleanupIsDropped ==
  ASSUME Frames, InFunction, NEW cur, NEW hold, Accounts(cur, hold), NEW d \in Nat, d = Depth
  PROVE  \E h : ScopesEnd(d, hold, h)
<1>1. /\ hold[<<d, "local">>] = IF Top.declared THEN Frame.local ELSE Nil
      /\ hold[<<d, "caught">>] = IF Top.caught # NoFrame THEN frames[Top.caught].err.message ELSE Nil
      /\ Top.declared => Frame.local \in live
      /\ Top.caught # NoFrame => frames[Top.caught].err.message \in live
      /\ \A i \in Params : hold[<<d, i>>] = Nil
      /\ hold[<<d, "result">>] = Nil
      /\ <<d, "local">> \in Keepers /\ <<d, "caught">> \in Keepers
      /\ AreBooks(hold, live, leaked) /\ hold \in [Keepers -> Maybe] /\ Nil \notin live
  BY OwnValues
<1>2. PICK h1 : h1 = [hold EXCEPT ![<<d, "local">>] = Nil]
  OBVIOUS
<1>3. PICK h : h = [h1 EXCEPT ![<<d, "caught">>] = Nil]
  OBVIOUS
<1>4. AreBooks(h1, live \ {hold[<<d, "local">>]}, leaked)
  BY <1>1, <1>2, Dropping
<1>5. AreBooks(h, (live \ {hold[<<d, "local">>]}) \ {h1[<<d, "caught">>]}, leaked)
  BY <1>1, <1>3, <1>4, Dropping
<1>6. h1[<<d, "caught">>] = hold[<<d, "caught">>] /\ h1 \in [Keepers -> Maybe]
  BY <1>1, <1>2, <1>4 DEF AreBooks
<1>7. live \ Cleanup({}) = (live \ {hold[<<d, "local">>]}) \ {h1[<<d, "caught">>]} /\ Cleanup({}) \subseteq live
  BY <1>1, <1>6 DEF Cleanup
<1>8. ASSUME NEW k \in Nat, NEW x \in Kinds
      PROVE  h[<<k, x>>] = IF k = d THEN Nil ELSE hold[<<k, x>>]
  <2>1. h1[<<k, x>>] = IF k = d /\ x = "local" THEN Nil ELSE hold[<<k, x>>]
    BY <1>1, <1>2, KeepersAre
  <2>2. h[<<k, x>>] = IF k = d /\ x = "caught" THEN Nil ELSE h1[<<k, x>>]
    BY <1>3, <1>6, KeepersAre
  <2>. QED BY <2>1, <2>2, <1>1 DEF Kinds, Params
<1>9. ScopesEnd(d, hold, h)
  BY <1>5, <1>7, <1>8 DEF ScopesEnd
<1>. QED BY <1>9

(* A function ends with a value v made for the purpose, and leaves behind
   what is in lost. *)
LEMMA NewResult ==
  ASSUME Frames, Accounted, InFunction, NEW v \in Unused, NEW lost \in SUBSET Unused,
         lost = {} \/ (\E a \in Unused : a # v /\ lost = {a}),
         NEW fr, NEW how \in {"ok", "error"}, Leave(fr, lost \union {v}, Cleanup({}), how), leaked' = leaked \union lost,
         fr.params = Frame.params, fr.local = Frame.local,
         v = IF how = "ok" THEN fr.ret ELSE fr.err.message
  PROVE  Accounted'
<1>1. PICK cur, hold : Accounts(cur, hold)
  BY DEF Accounted
<1>2. PICK d \in Nat : d = Depth
  BY OnTop DEF Frames, InFunction
<1>3. PICK h : ScopesEnd(d, hold, h)
  BY <1>1, <1>2, CleanupIsDropped
<1>4. /\ AreBooks(h, live \ Cleanup({}), leaked) /\ Cleanup({}) \subseteq live /\ h \in [Keepers -> Maybe]
      /\ \A k \in Nat, x \in Kinds : h[<<k, x>>] = IF k = d THEN Nil ELSE hold[<<k, x>>]
  BY <1>3 DEF ScopesEnd, AreBooks
<1>5. \A u \in Unused : u \in Values /\ u # Nil /\ u \notin live
  BY <1>1, FreshIsNowhere
<1>6. AreBooks(h, (live \ Cleanup({})) \union lost, leaked \union lost)
  <2>1. CASE lost = {}
    <3>1. (live \ Cleanup({})) \union lost = live \ Cleanup({}) /\ leaked \union lost = leaked
      BY <2>1
    <3>. QED BY <3>1, <1>4
  <2>2. ASSUME NEW a \in Unused, lost = {a}
        PROVE  AreBooks(h, (live \ Cleanup({})) \union lost, leaked \union lost)
    BY <2>2, <1>4, <1>5, Losing
  <2>. QED BY <2>1, <2>2
<1>7. PICK hold2 : hold2 = [h EXCEPT ![<<0, "result">>] = v]
  OBVIOUS
<1>8. /\ <<0, "result">> \in Keepers /\ d >= 1 /\ hold[<<0, "result">>] = Nil /\ hold[<<d, "result">>] = Nil
      /\ misfreed = FALSE /\ (~Top.declared => Frame.local \notin Kept) /\ Nil \notin live
  BY <1>1, <1>2, OwnValues
<1>9. h[<<0, "result">>] = Nil
  BY <1>4, <1>8, KindsAre
<1>10. live' = ((live \ Cleanup({})) \union lost) \union {v}
  <2>1. live' = (live \union (lost \union {v})) \ Cleanup({})
    BY DEF Leave
  <2>. QED BY <2>1, <1>4, <1>5
<1>11. v \notin (live \ Cleanup({})) \union lost
  BY <1>5
<1>12. AreBooks(hold2, live', leaked')
  <2>1. AreBooks(hold2, ((live \ Cleanup({})) \union lost) \union {v}, leaked \union lost)
    BY <1>5, <1>6, <1>7, <1>8, <1>9, <1>11, Adding
  <2>. QED BY <2>1, <1>10
<1>13. Kept' \subseteq (Kept \ Cleanup({})) \union {v}
  BY <1>10 DEF Kept
<1>14. hold2[<<0, "result">>] = v
  BY <1>4, <1>7, <1>8
<1>15. ASSUME NEW k \in Nat, NEW x \in Kinds, k # 0 \/ x # "result"
       PROVE  hold2[<<k, x>>] = IF k = d THEN Nil ELSE hold[<<k, x>>]
  <2>1. hold2[<<k, x>>] = h[<<k, x>>]
    BY <1>4, <1>7, <1>15, KeepersAre
  <2>. QED BY <2>1, <1>4
<1>16. Frame.local \notin Kept'
  <2>1. Frame.local # v
    <3>1. Top.frame \in Addresses
      BY OnTop DEF Frames, InFunction
    <3>. QED BY <3>1, <1>1, FreshIsNowhere DEF Frame
  <2>2. Top.declared => Frame.local \in Cleanup({})
    BY DEF Cleanup
  <2>. QED BY <2>1, <2>2, <1>8, <1>13
<1>17. misfreed' = FALSE
  BY <1>4, <1>8 DEF Leave, Free
<1>18. Ends(d, fr, hold, hold2)
  <2>1. Kept' \subseteq Kept \union Unused
    BY <1>13
  <2>2. hold2[<<0, "result">>] # Nil
    BY <1>5, <1>14
  <2>. QED BY <2>1, <2>2, <1>2, <1>12, <1>14, <1>15, <1>16, <1>17 DEF Ends, Leave
<1>. QED BY <1>1, <1>18, Ending

(* The local variable is returned: its value becomes the result. *)
LEMMA ReturnLocalAccounts ==
  ASSUME Frames, Accounted, Return("local")
  PROVE  Accounted'
<1>1. PICK cur, hold : Accounts(cur, hold)
  BY DEF Accounted
<1>2. PICK v : v = Frame.local
  OBVIOUS
<1>3. PICK fr : fr = [Frame EXCEPT !.ret = v, !.err = DefaultError]
  OBVIOUS
<1>4. InFunction /\ Top.declared /\ Leave(fr, {v}, Cleanup({v}), "ok") /\ leaked' = leaked
  BY <1>2, <1>3 DEF Return
<1>5. PICK d \in Nat : d = Depth
  BY <1>4, OnTop DEF Frames, InFunction
<1>6. Frame \in FrameShape
  BY <1>4, OnTop DEF Frames, InFunction
<1>7. fr.ret = v /\ fr.params = Frame.params /\ fr.local = Frame.local
  BY <1>3, <1>6 DEF FrameShape
<1>8. /\ hold[<<d, "local">>] = v
      /\ hold[<<d, "caught">>] = IF Top.caught # NoFrame THEN frames[Top.caught].err.message ELSE Nil
      /\ v \in live /\ v # Nil
      /\ Top.caught # NoFrame => frames[Top.caught].err.message \in live
      /\ \A i \in Params : hold[<<d, i>>] = Nil
      /\ hold[<<d, "result">>] = Nil /\ hold[<<0, "result">>] = Nil
      /\ <<d, "local">> \in Keepers /\ <<d, "caught">> \in Keepers /\ <<0, "result">> \in Keepers
      /\ AreBooks(hold, live, leaked) /\ hold \in [Keepers -> Maybe] /\ Nil \notin live /\ misfreed = FALSE
      /\ d >= 1
  BY <1>1, <1>2, <1>4, <1>5, OwnValues
<1>9. PICK h1 : h1 = [hold EXCEPT ![<<d, "caught">>] = Nil]
  OBVIOUS
<1>10. PICK hold2 : hold2 = [h1 EXCEPT ![<<0, "result">>] = h1[<<d, "local">>], ![<<d, "local">>] = Nil]
  OBVIOUS
<1>11. AreBooks(h1, live \ {hold[<<d, "caught">>]}, leaked)
  BY <1>8, <1>9, Dropping
<1>12. h1 \in [Keepers -> Maybe] /\ h1[<<d, "local">>] = v /\ h1[<<0, "result">>] = Nil
  <2>1. h1 \in [Keepers -> Maybe]
    BY <1>11 DEF AreBooks
  <2>2. <<d, "local">> # <<d, "caught">> /\ <<0, "result">> # <<d, "caught">>
    OBVIOUS
  <2>. QED BY <2>1, <2>2, <1>8, <1>9
<1>13. Cleanup({v}) = {hold[<<d, "caught">>]} \ {Nil} /\ Cleanup({v}) \subseteq live
  <2>1. {Frame.local} \ {v} = {}
    BY <1>2
  <2>2. Cleanup({v}) = IF Top.caught # NoFrame THEN {frames[Top.caught].err.message} ELSE {}
    BY <2>1, <1>4 DEF Cleanup
  <2>. QED BY <2>2, <1>8
<1>14. live' = live \ {hold[<<d, "caught">>]}
  <2>1. live' = (live \union {v}) \ Cleanup({v})
    BY <1>4 DEF Leave
  <2>. QED BY <2>1, <1>8, <1>13
<1>15. AreBooks(hold2, live', leaked')
  <2>1. <<d, "local">> # <<0, "result">>
    OBVIOUS
  <2>2. AreBooks(hold2, live \ {hold[<<d, "caught">>]}, leaked)
    BY <2>1, <1>8, <1>10, <1>11, <1>12, Moving
  <2>. QED BY <2>2, <1>4, <1>14
<1>16. hold2[<<0, "result">>] = v
  <2>1. <<d, "local">> # <<0, "result">>
    OBVIOUS
  <2>. QED BY <2>1, <1>8, <1>10, <1>12
<1>17. ASSUME NEW k \in Nat, NEW x \in Kinds, k # 0 \/ x # "result"
       PROVE  hold2[<<k, x>>] = IF k = d THEN Nil ELSE hold[<<k, x>>]
  <2>1. h1[<<k, x>>] = IF k = d /\ x = "caught" THEN Nil ELSE hold[<<k, x>>]
    BY <1>8, <1>9, KeepersAre
  <2>2. hold2[<<k, x>>] = IF k = d /\ x = "local" THEN Nil ELSE h1[<<k, x>>]
    BY <1>10, <1>12, <1>17, KeepersAre
  <2>. QED BY <2>1, <2>2, <1>8 DEF Kinds, Params
<1>18. misfreed' = FALSE
  BY <1>4, <1>8, <1>13 DEF Leave, Free
<1>19. Ends(d, fr, hold, hold2)
  <2>1. Kept' \subseteq Kept \union Unused
    BY <1>4, <1>14 DEF Kept
  <2>. QED BY <2>1, <1>4, <1>5, <1>7, <1>8, <1>15, <1>16, <1>17, <1>18 DEF Ends, Leave
<1>. QED BY <1>1, <1>4, <1>19, Ending

(* Something else is returned. *)
LEMMA ReturnOtherAccounts ==
  ASSUME Frames, Accounted, Return("other")
  PROVE  Accounted'
<1>1. PICK cur, hold : Accounts(cur, hold)
  BY DEF Accounted
<1>2. PICK v \in Unused : v = New
  BY FreshValue DEF Return
<1>3. PICK fr : fr = [Frame EXCEPT !.ret = v, !.err = DefaultError]
  OBVIOUS
<1>4. InFunction /\ Leave(fr, {v}, Cleanup({v}), "ok") /\ leaked' = leaked
  BY <1>2, <1>3 DEF Return
<1>5. Frame \in FrameShape /\ Top.frame \in Addresses
  BY <1>4, OnTop DEF Frames, InFunction
<1>6. fr.ret = v /\ fr.params = Frame.params /\ fr.local = Frame.local
  BY <1>3, <1>5 DEF FrameShape
<1>7. Cleanup({v}) = Cleanup({})
  <2>1. Frame.local # v
    BY <1>1, <1>5, FreshIsNowhere DEF Frame
  <2>. QED BY <2>1 DEF Cleanup
<1>8. PICK lost : lost = {}
  OBVIOUS
<1>9. lost \in SUBSET Unused /\ lost \union {v} = {v} /\ leaked \union lost = leaked
  BY <1>8
<1>. QED BY <1>4, <1>6, <1>7, <1>8, <1>9, NewResult

(* The error that is handled is thrown: it is copied before the scopes
   end. *)
LEMMA ThrowCaughtAccounts ==
  ASSUME Frames, Accounted, throw_caught
  PROVE  Accounted'
<1>1. PICK v \in Unused : v = New
  BY FreshValue DEF throw_caught
<1>2. PICK fr : fr = [Frame EXCEPT !.err = [code |-> frames[Top.caught].err.code, message |-> v]]
  OBVIOUS
<1>3. InFunction /\ Leave(fr, {v}, Cleanup({}), "error") /\ leaked' = leaked
  BY <1>1, <1>2 DEF throw_caught
<1>4. Frame \in FrameShape
  BY <1>3, OnTop DEF Frames, InFunction
<1>5. fr.err.message = v /\ fr.params = Frame.params /\ fr.local = Frame.local
  BY <1>2, <1>4 DEF FrameShape
<1>6. PICK lost : lost = {}
  OBVIOUS
<1>7. lost \in SUBSET Unused /\ lost \union {v} = {v} /\ leaked \union lost = leaked
  BY <1>6
<1>. QED BY <1>3, <1>5, <1>6, <1>7, NewResult

(* An error is thrown, and the message that was made for it first is left
   behind. *)
LEMMA ThrowLiteralAccounts ==
  ASSUME Frames, Accounted, NEW code \in Codes, throw_literal(code)
  PROVE  Accounted'
<1>1. HasFreshValues(2) /\ InFunction
  BY DEF throw_literal
<1>2. PICK a, b \in Unused : a < b /\ New = a /\ FreshValues(2) = {a, b} /\ a \in Int /\ b \in Int
  BY <1>1, FreshPair
<1>3. a # b
  BY <1>2
<1>4. b = CHOOSE v \in FreshValues(2) : v # New
  BY <1>2, <1>3
<1>5. PICK fr : fr = [Frame EXCEPT !.err = [code |-> code, message |-> b]]
  OBVIOUS
<1>6. Leave(fr, {a, b}, Cleanup({}), "error") /\ leaked' = leaked \union {a}
  BY <1>2, <1>4, <1>5 DEF throw_literal
<1>7. Frame \in FrameShape
  BY <1>1, OnTop DEF Frames, InFunction
<1>8. fr.err.message = b /\ fr.params = Frame.params /\ fr.local = Frame.local
  BY <1>5, <1>7 DEF FrameShape
<1>9. PICK lost : lost = {a}
  OBVIOUS
<1>10. /\ lost \in SUBSET Unused /\ lost \union {b} = {a, b} /\ leaked \union lost = leaked \union {a}
       /\ \E c \in Unused : c # b /\ lost = {c}
  BY <1>2, <1>3, <1>9
<1>. QED BY <1>1, <1>2, <1>6, <1>8, <1>10, NewResult

(* A function returns, one way or the other. *)
LEMMA ReturnAccounts ==
  ASSUME Frames, Accounted, NEW what \in {"local", "other"}, Return(what)
  PROVE  Accounted'
  BY ReturnLocalAccounts, ReturnOtherAccounts

(* The generated main drops the result: only what was left behind lives. *)
LEMMA MainAccounts ==
  ASSUME Frames, Accounted, generate_builtin_main
  PROVE  live' = leaked' /\ misfreed' = FALSE
<1>1. PICK cur, hold : Accounts(cur, hold)
  BY DEF Accounted
<1>2. activations = <<>> /\ outcome \in {"ok", "error"} /\ leaked' = leaked
  BY DEF generate_builtin_main
<1>3. PICK freed : freed = IF outcome = "error" THEN frames[0].err.message ELSE frames[0].ret
  OBVIOUS
<1>4. Free({freed}) /\ live' = live \ {freed}
  BY <1>3 DEF generate_builtin_main
<1>5. Depth = 0 /\ Levels = {}
  BY <1>2 DEF Depth, Levels
<1>6. AreBooks(hold, live, leaked) /\ KeepsResult(hold) /\ misfreed = FALSE /\ <<0, "result">> \in Keepers
      /\ \A k \in Nat : KeepsAt(k, cur, hold)
  BY <1>1, KeepersAre, KindsAre DEF Accounts, Contents, Holding
<1>7. hold[<<0, "result">>] = freed /\ freed # Nil
  BY <1>2, <1>3, <1>5, <1>6 DEF KeepsResult, ResultValue, ResultFrame
<1>8. freed \in live
  BY <1>6, <1>7, KeptIsHeld
<1>9. \A k \in Nat : k > 0 => hold[<<k, "result">>] = Nil
  BY <1>1 DEF Accounts, Contents, Holding
<1>10. ASSUME NEW k \in Nat, NEW x \in Kinds, k # 0 \/ x # "result"
       PROVE  hold[<<k, x>>] = Nil
  <2>1. KeepsAt(k, cur, hold) /\ k \notin Levels
    BY <1>5, <1>6
  <2>2. x # "result" => hold[<<k, x>>] = Nil
    BY <2>1 DEF KeepsAt, Kinds, Params
  <2>. QED BY <2>2, <1>9, <1>10
<1>11. \A v \in Values : v \in live \ leaked => v = freed
  <2>1. ASSUME NEW v \in Values, v \in live \ leaked
        PROVE  v = freed
    <3>1. PICK o \in Keepers : hold[o] = v
      BY <2>1, <1>6 DEF AreBooks, Books
    <3>2. PICK k \in Nat, x \in Kinds : o = <<k, x>>
      BY DEF Keepers
    <3>3. v # Nil
      BY <2>1, ValuesArePositive
    <3>. QED BY <3>1, <3>2, <3>3, <1>7, <1>10
  <2>. QED BY <2>1
<1>12. live \subseteq Values /\ leaked \subseteq live /\ freed \notin leaked
  BY <1>6, <1>7, KeptIsHeld DEF AreBooks, Books
<1>. QED BY <1>2, <1>4, <1>6, <1>8, <1>11, <1>12 DEF Free

(* A call keeps its temporaries at the caller's level. *)
TemporariesKept(d, args, hold, hold2) ==
  /\ AreBooks(hold2, live \union {Passed(args)[i] : i \in Temporaries(args)}, leaked)
  /\ \A k \in Nat, x \in Kinds :
       hold2[<<k, x>>] = IF k = d /\ x \in Temporaries(args) THEN Passed(args)[x] ELSE hold[<<k, x>>]

(* They are fresh, so that nobody keeps them yet. *)
LEMMA TemporariesAreKept ==
  ASSUME Frames, InFunction, NEW cur, NEW hold, Accounts(cur, hold), NEW d \in Nat, d = Depth,
         NEW args \in [Params -> ArgumentForms], HasFreshValues(Cardinality(Temporaries(args)))
  PROVE  \E hold2 : TemporariesKept(d, args, hold, hold2)
<1>1. CallsTypes /\ activations # <<>>
  BY DEF Frames, InFunction
<1>2. PICK p : p = Passed(args)
  OBVIOUS
<1>3. /\ \A i \in Params : args[i] = "temporary" => p[i] \in Unused
      /\ args["first"] = "temporary" /\ args["second"] = "temporary" => p["first"] # p["second"]
  BY <1>1, <1>2, PassedValues
<1>4. \A v \in Unused : v \in Values /\ v # Nil /\ v \notin live
  BY FreshIsNowhere
<1>5. \A i \in Params : args[i] = "temporary" => p[i] \in Values /\ p[i] # Nil /\ p[i] \notin live
  BY <1>3, <1>4
<1>6. /\ \A i \in Params : hold[<<d, i>>] = Nil
      /\ AreBooks(hold, live, leaked) /\ hold \in [Keepers -> Maybe]
  BY OwnValues
<1>7. <<d, "first">> \in Keepers /\ <<d, "second">> \in Keepers /\ <<d, "first">> # <<d, "second">>
  BY KeepersAre, KindsAre, PlacesAre
<1>. DEFINE Of(i) == IF args[i] = "temporary" THEN {p[i]} ELSE {}
<1>8. PICK h1 : h1 = IF args["first"] = "temporary" THEN [hold EXCEPT ![<<d, "first">>] = p["first"]] ELSE hold
  OBVIOUS
<1>9. PICK hold2 : hold2 = IF args["second"] = "temporary" THEN [h1 EXCEPT ![<<d, "second">>] = p["second"]] ELSE h1
  OBVIOUS
<1>10. AreBooks(h1, live \union Of("first"), leaked)
  <2>1. CASE args["first"] = "temporary"
    BY <2>1, <1>5, <1>6, <1>7, <1>8, Adding, PlacesAre
  <2>2. CASE args["first"] # "temporary"
    <3>1. live \union Of("first") = live
      BY <2>2
    <3>. QED BY <3>1, <2>2, <1>6, <1>8
  <2>. QED BY <2>1, <2>2
<1>11. h1 \in [Keepers -> Maybe] /\ h1[<<d, "second">>] = Nil
  <2>1. h1 \in [Keepers -> Maybe]
    BY <1>10 DEF AreBooks
  <2>. QED BY <2>1, <1>6, <1>7, <1>8, PlacesAre
<1>12. AreBooks(hold2, (live \union Of("first")) \union Of("second"), leaked)
  <2>1. CASE args["second"] = "temporary"
    <3>1. p["second"] \notin live \union Of("first")
      BY <2>1, <1>3, <1>5, PlacesAre
    <3>. QED BY <2>1, <3>1, <1>5, <1>7, <1>9, <1>10, <1>11, Adding, PlacesAre
  <2>2. CASE args["second"] # "temporary"
    <3>1. (live \union Of("first")) \union Of("second") = live \union Of("first")
      BY <2>2
    <3>. QED BY <3>1, <2>2, <1>9, <1>10
  <2>. QED BY <2>1, <2>2
<1>13. (live \union Of("first")) \union Of("second") = live \union {Passed(args)[i] : i \in Temporaries(args)}
  BY <1>2, PlacesAre DEF Temporaries
<1>14. ASSUME NEW k \in Nat, NEW x \in Kinds
       PROVE  hold2[<<k, x>>] = IF k = d /\ x \in Temporaries(args) THEN Passed(args)[x] ELSE hold[<<k, x>>]
  <2>1. h1[<<k, x>>] = IF k = d /\ x = "first" /\ args["first"] = "temporary" THEN p["first"] ELSE hold[<<k, x>>]
    BY <1>6, <1>8, KeepersAre
  <2>2. hold2[<<k, x>>] = IF k = d /\ x = "second" /\ args["second"] = "temporary" THEN p["second"] ELSE h1[<<k, x>>]
    BY <1>9, <1>11, KeepersAre
  <2>. QED BY <2>1, <2>2, <1>2, PlacesAre DEF Temporaries
<1>15. AreBooks(hold2, live \union {Passed(args)[i] : i \in Temporaries(args)}, leaked)
  BY <1>12, <1>13
<1>16. TemporariesKept(d, args, hold, hold2)
  BY <1>14, <1>15 DEF TemporariesKept
<1>. QED BY <1>16

(* What a function is called with: the arguments that are no temporaries
   are slots of the caller, and those a mutable parameter gets have no
   other name than the slots that were lent to make them. *)
Lends(d, cur, args, mutable) ==
  \A i \in Params :
    IF args[i] = "temporary" THEN Passed(args)[i] \in Unused /\ mutable[i] = FALSE
    ELSE /\ args[i] \in Places /\ Passed(args)[i] = cur[d][args[i]]
         /\ cur[d][args[i]] # Nil /\ cur[d][args[i]] \in Kept
         /\ mutable[i] =>
              /\ \A j \in Params : j # i => Passed(args)[j] # Passed(args)[i]
              /\ \A k \in 1..d : \A s \in Places : cur[k][s] = cur[d][args[i]] =>
                   (k = d /\ s = args[i]) \/ (k < d /\ Lent(k, s))

(* So it is with every call that is not in CallsCareless. *)
LEMMA ArgumentsAreLent ==
  ASSUME CallsCareless = {}, Frames, NEW cur, NEW hold, Accounts(cur, hold), NEW to, NEW list \in ArgumentLists,
         NEW catches \in BOOLEAN, MayCall(to, list.args, list.mutable, catches), NEW d \in Nat, d = Depth
  PROVE  Lends(d, cur, list.args, list.mutable)
<1>1. /\ IsCareful(to, list.args, list.mutable, catches) /\ activations # <<>> /\ outcome = "none" /\ CallsTypes
      /\ list.args \in [Params -> ArgumentForms] /\ list.mutable \in [Params -> BOOLEAN]
  BY CarefulCalls DEF Frames
<1>2. d \in Levels /\ d >= 1 /\ Top = activations[d] /\ Levels = 1..d
  BY <1>1, OnTop DEF Levels
<1>3. PICK args, mutable, p : args = list.args /\ mutable = list.mutable /\ p = Passed(list.args)
  OBVIOUS
<1>4. InFunction /\ HasFreshValues(Cardinality(Temporaries(args)))
  BY <1>1, <1>3 DEF MayCall, InFunction
<1>5. \A i \in Params : IF args[i] = "temporary" THEN p[i] \in Unused
                        ELSE args[i] \in Places /\ p[i] = Slot(Frame, args[i])
  BY <1>1, <1>3, <1>4, PassedValues
<1>6. \A s \in Places : cur[d][s] = Slot(Frame, s)
  BY <1>4, TopIsRaw
<1>7. \A i \in Params : /\ args[i] \in Params => d > 1
                        /\ args[i] = "local" => Top.declared
                        /\ mutable[i] => args[i] # "temporary"
                        /\ mutable[i] /\ args[i] \in Params => Top.mutable[args[i]]
  BY <1>1, <1>3 DEF IsCareful
<1>8. \A i, j \in Params : i # j /\ mutable[i] => args[i] # args[j]
  BY <1>1, <1>3 DEF IsCareful
<1>9. ASSUME NEW i \in Params, args[i] # "temporary"
      PROVE  /\ args[i] \in Places /\ p[i] = cur[d][args[i]]
             /\ cur[d][args[i]] # Nil /\ cur[d][args[i]] \in Kept
  <2>1. args[i] \in Places /\ p[i] = cur[d][args[i]]
    BY <1>5, <1>6, <1>9
  <2>2. CASE args[i] = "local"
    <3>1. activations[d].declared
      BY <2>2, <1>2, <1>7
    <3>2. cur[d]["local"] # Nil /\ cur[d]["local"] \in live /\ cur[d]["local"] \notin leaked
      BY <3>1, <1>2, LocalsAreKept
    <3>. QED BY <3>2, <2>1, <2>2 DEF Kept
  <2>3. CASE args[i] \in Params
    BY <2>1, <2>3, <1>2, <1>7, ParametersAreKept DEF Kept
  <2>. QED BY <2>1, <2>2, <2>3, PlacesAre
<1>10. ASSUME NEW i \in Params, mutable[i], NEW k \in 1..d, NEW s \in Places, cur[k][s] = cur[d][args[i]]
       PROVE  (k = d /\ s = args[i]) \/ (k < d /\ Lent(k, s))
  <2>1. args[i] \in Places
    BY <1>7, <1>9, <1>10
  <2>2. CASE args[i] = "local"
    <3>1. Top.declared
      BY <2>2, <1>7
    <3>. QED BY <2>2, <3>1, <1>2, <1>10, LocalsAreAlone
  <2>3. CASE args[i] \in Params
    <3>1. Top.mutable[args[i]] /\ d > 1
      BY <2>3, <1>7, <1>10
    <3>2. NoAlias(cur)
      BY DEF Accounts, Contents
    <3>. QED BY <2>3, <3>1, <3>2, <1>2, <1>10 DEF NoAlias
  <2>. QED BY <2>1, <2>2, <2>3, PlacesAre
<1>11. ASSUME NEW i \in Params, mutable[i], NEW j \in Params, j # i
       PROVE  p[j] # p[i]
  <2>1. p[i] = cur[d][args[i]] /\ p[i] \in live
    BY <1>7, <1>9, <1>11 DEF Kept
  <2>2. CASE args[j] = "temporary"
    <3>1. p[j] \notin live
      BY <2>2, <1>5, FreshIsNowhere
    <3>. QED BY <3>1, <2>1
  <2>3. CASE args[j] # "temporary"
    <3>1. args[j] \in Places /\ p[j] = cur[d][args[j]] /\ args[j] # args[i]
      BY <2>3, <1>8, <1>9, <1>11
    <3>2. d \in 1..d /\ ~(d < d)
      BY <1>2
    <3>. QED BY <3>1, <3>2, <2>1, <1>10, <1>11
  <2>. QED BY <2>2, <2>3
<1>12. \A i \in Params :
         IF args[i] = "temporary" THEN p[i] \in Unused /\ mutable[i] = FALSE
         ELSE /\ args[i] \in Places /\ p[i] = cur[d][args[i]]
              /\ cur[d][args[i]] # Nil /\ cur[d][args[i]] \in Kept
              /\ mutable[i] =>
                   /\ \A j \in Params : j # i => p[j] # p[i]
                   /\ \A k \in 1..d : \A s \in Places : cur[k][s] = cur[d][args[i]] =>
                        (k = d /\ s = args[i]) \/ (k < d /\ Lent(k, s))
  <2>1. \A i \in Params : mutable[i] \in BOOLEAN
    BY <1>1, <1>3
  <2>. QED BY <2>1, <1>5, <1>7, <1>9, <1>10, <1>11
<1>. QED BY <1>3, <1>12 DEF Lends

(* A call: the arguments become the parameters of a new level. *)
LEMMA InvokeAccounts ==
  ASSUME CallsCareless = {}, Frames, Accounted, NEW to, NEW callee, NEW fr, NEW list \in ArgumentLists,
         NEW catches \in BOOLEAN, Enters(to, callee, fr), callee.mutable = list.mutable, fr.params = Passed(list.args),
         Invoke(to, callee, fr, list.args, list.mutable, catches), MayCall(to, list.args, list.mutable, catches)
  PROVE  Accounted'
<1>1. PICK cur, hold : Accounts(cur, hold)
  BY DEF Accounted
<1>2. /\ activations # <<>> /\ outcome = "none" /\ CallsTypes /\ InFunction
      /\ list.args \in [Params -> ArgumentForms] /\ list.mutable \in [Params -> BOOLEAN]
      /\ Passed(list.args) \in [Params -> Maybe] /\ HasFreshValues(Cardinality(Temporaries(list.args)))
  BY CarefulCalls DEF Frames, MayCall, Step, Ready
<1>3. PICK d \in Nat : d = Depth
  BY <1>2, OnTop
<1>4. d \in Levels /\ d >= 1 /\ Top = activations[d] /\ Top.frame \in Addresses /\ Frame = frames[Top.frame]
      /\ Levels = 1..d
  BY <1>2, <1>3, OnTop DEF Frame, Levels
<1>5. PICK args, mutable, p : args = list.args /\ mutable = list.mutable /\ p = Passed(list.args)
  OBVIOUS
<1>6. PICK c : c = CallRecord(to, args, mutable, catches)
  OBVIOUS
<1>7. PICK e \in Nat : e = d + 1
  OBVIOUS
<1>8. /\ Depth' = e /\ Levels' = Levels \union {e} /\ e \notin Levels
      /\ activations'[e] = callee
      /\ \A k \in Levels : k # d => activations'[k] = activations[k]
      /\ \A k \in Levels :
           /\ activations'[k].frame = activations[k].frame
           /\ activations'[k].mutable = activations[k].mutable
           /\ activations'[k].declared = activations[k].declared
           /\ activations'[k].caught = activations[k].caught
           /\ activations'[k].call = IF k = d THEN c ELSE activations[k].call
      /\ c # NoCall
  <2>1. IsPushed(c, callee)
    BY <1>2, <1>5, <1>6, TopPushed
  <2>. QED BY <2>1, <1>3, <1>7 DEF IsPushed
<1>9. c.to = to /\ c.args = args /\ c.values = p /\ c.mutable = mutable
  BY <1>5, <1>6 DEF CallRecord
<1>10. /\ to \in Addresses /\ callee.frame = to /\ callee.declared = FALSE
       /\ callee.call = NoCall /\ callee.caught = NoFrame /\ callee.mutable = mutable
       /\ \A k \in Levels : activations[k].frame # to /\ activations[k].caught # to
       /\ fr \in FrameShape /\ (fr.local = Nil \/ fr.local = frames[to].local) /\ fr.params = p
  BY <1>5 DEF Enters
<1>11. /\ outcome' = "none" /\ leaked' = leaked /\ misfreed' = misfreed
       /\ frames' = [frames EXCEPT ![to] = fr]
       /\ live' = live \union {Passed(args)[i] : i \in Temporaries(args)}
  BY <1>2, <1>5 DEF Invoke
<1>12. frames'[to] = fr /\ \A a \in Addresses : a # to => frames'[a] = frames[a]
  BY <1>2, <1>10, <1>11 DEF CallsTypes
<1>13. \A i \in Params :
         IF args[i] = "temporary" THEN p[i] \in Unused /\ mutable[i] = FALSE
         ELSE /\ args[i] \in Places /\ p[i] = cur[d][args[i]]
              /\ cur[d][args[i]] # Nil /\ cur[d][args[i]] \in Kept
              /\ mutable[i] =>
                   /\ \A j \in Params : j # i => p[j] # p[i]
                   /\ \A k \in 1..d : \A s \in Places : cur[k][s] = cur[d][args[i]] =>
                        (k = d /\ s = args[i]) \/ (k < d /\ Lent(k, s))
  <2>1. Lends(d, cur, list.args, list.mutable)
    BY <1>1, <1>3, ArgumentsAreLent
  <2>. QED BY <2>1, <1>5 DEF Lends
<1>14. PICK hold2 : TemporariesKept(d, args, hold, hold2)
  BY <1>1, <1>2, <1>3, <1>5, TemporariesAreKept
<1>15. /\ AreBooks(hold2, live', leaked')
       /\ \A k \in Nat, x \in Kinds :
            hold2[<<k, x>>] = IF k = d /\ x \in Temporaries(args) THEN p[x] ELSE hold[<<k, x>>]
  BY <1>5, <1>11, <1>14 DEF TemporariesKept
<1>16. /\ cur \in [Nat -> [Places -> Maybe]] /\ IsCurrent(cur) /\ StaleIsGone /\ Holding(cur, hold)
       /\ Backing(cur, hold) /\ NoAlias(cur) /\ misfreed = FALSE /\ AreBooks(hold, live, leaked) /\ Nil \notin live
  BY <1>1, ValuesArePositive DEF Accounts, Contents, AreBooks
<1>17. PICK cur2 : cur2 = [cur EXCEPT ![e] = [s \in Places |-> IF s = "local" THEN fr.local ELSE p[s]]]
  OBVIOUS
<1>18. /\ cur2 \in [Nat -> [Places -> Maybe]] /\ cur2[e]["local"] = fr.local /\ \A i \in Params : cur2[e][i] = p[i]
       /\ \A k \in Nat : k # e => cur2[k] = cur[k]
  <2>1. fr.local \in Maybe /\ \A i \in Params : p[i] \in Maybe
    BY <1>2, <1>5, <1>10 DEF FrameShape
  <2>2. [s \in Places |-> IF s = "local" THEN fr.local ELSE p[s]] \in [Places -> Maybe]
    BY <2>1, PlacesAre
  <2>. QED BY <2>2, <1>16, <1>17, PlacesAre
<1>19. \A k \in Levels : k \in Nat /\ k # e /\ cur2[k] = cur[k] /\ k >= 1 /\ k <= d
                         /\ activations[k].frame \in Addresses
  BY <1>2, <1>3, <1>8, <1>18, LevelsAre
<1>20. \A k \in Levels : \A s \in Places : Raw(k, s)' = Raw(k, s)
  BY <1>8, <1>10, <1>12, <1>19 DEF Raw
<1>21. \A s \in Places : Raw(e, s)' = cur2[e][s]
  BY <1>8, <1>10, <1>12, <1>18, PlacesAre DEF Raw, Slot
<1>22. /\ \A k \in Levels : \A s \in Places : \A i \in Params : k # d => (LentTo(k, s, i)' <=> LentTo(k, s, i))
       /\ \A s \in Places : \A i \in Params : LentTo(d, s, i)' <=> args[i] = s /\ mutable[i]
       /\ \A s \in Places : \A i \in Params : ~LentTo(e, s, i)'
       /\ \A s \in Places : \A i \in Params : ~LentTo(d, s, i)
  <2>1. ~Pending(d)
    BY <1>2, <1>3, <1>4 DEF Frames, Calling
  <2>. QED BY <2>1, <1>4, <1>8, <1>9, <1>10 DEF LentTo, Pending
<1>23. IsCurrent(cur2)'
  <2>1. ASSUME NEW k \in Levels, NEW s \in Places
        PROVE  /\ ~Lent(k, s)' => cur2[k][s] = Raw(k, s)'
               /\ \A i \in Params : LentTo(k, s, i)' => cur2[k][s] = cur2[k + 1][i]
    <3>1. CASE k = d
      <4>1. cur[k][s] = Raw(k, s)
        BY <3>1, <1>16, <1>22 DEF IsCurrent, Lent
      <4>2. \A i \in Params : LentTo(k, s, i)' => cur[k][s] = p[i]
        BY <3>1, <1>13, <1>22
      <4>. QED BY <3>1, <4>1, <4>2, <1>7, <1>18, <1>19, <1>20
    <3>2. CASE k # d
      <4>1. Lent(k, s)' <=> Lent(k, s)
        BY <3>2, <1>22 DEF Lent
      <4>2. k # Depth /\ k + 1 # e /\ k + 1 \in Nat
        BY <3>2, <1>3, <1>7, <1>19
      <4>3. \A i \in Params : LentTo(k, s, i) => cur[k][s] = cur[k + 1][i]
        BY <4>2, <1>16 DEF IsCurrent
      <4>4. ~Lent(k, s) => cur[k][s] = Raw(k, s)
        BY <1>16 DEF IsCurrent
      <4>. QED BY <3>2, <4>1, <4>2, <4>3, <4>4, <1>18, <1>19, <1>20, <1>22
    <3>. QED BY <3>1, <3>2
  <2>2. ASSUME NEW s \in Places
        PROVE  /\ ~Lent(e, s)' => cur2[e][s] = Raw(e, s)'
               /\ \A i \in Params : ~LentTo(e, s, i)'
    BY <1>21, <1>22
  <2>3. \A k \in Levels : k # Depth'
    BY <1>8, <1>19
  <2>. QED BY <2>1, <2>2, <2>3, <1>8 DEF IsCurrent
<1>24. Kept' \subseteq Kept \union Unused /\ Kept \subseteq Kept'
  <2>1. {Passed(args)[i] : i \in Temporaries(args)} \subseteq Unused
    BY <1>5, <1>13 DEF Temporaries
  <2>. QED BY <2>1, <1>11 DEF Kept
<1>25. Nil \notin Kept'
  <2>1. Nil \notin Unused
    BY ValuesArePositive DEF Unused
  <2>. QED BY <2>1, <1>16, <1>24 DEF Kept
<1>26. ASSUME NEW a \in Addresses, \A k \in Levels : activations[k].frame # a
       PROVE  frames[a].local \notin Kept'
  <2>1. frames[a].local \notin Kept
    BY <1>26, <1>2, <1>3, <1>4, <1>16 DEF StaleIsGone
  <2>2. frames[a].local \notin Unused
    BY <1>1, FreshIsNowhere
  <2>. QED BY <2>1, <2>2, <1>24
<1>27. fr.local \notin Kept'
  BY <1>10, <1>25, <1>26
<1>28. StaleIsGone'
  <2>1. ASSUME NEW k \in Levels, NEW s \in Places, Unset(k, s)'
        PROVE  Raw(k, s)' \notin Kept'
    <3>1. Unset(k, s)
      BY <2>1, <1>8 DEF Unset
    <3>. QED BY <3>1, <1>1, <1>20, <1>24, UnsetStays
  <2>2. ASSUME NEW s \in Places, Unset(e, s)'
        PROVE  Raw(e, s)' \notin Kept'
    <3>1. s = "local"
      BY <2>2, <1>4, <1>7 DEF Unset
    <3>. QED BY <3>1, <1>18, <1>21, <1>27
  <2>3. ASSUME NEW a \in Addresses, \A k \in Levels' : activations'[k].frame # a
        PROVE  frames'[a].local \notin Kept'
    <3>1. a # to /\ \A k \in Levels : activations[k].frame # a
      BY <2>3, <1>8, <1>10
    <3>. QED BY <3>1, <1>12, <1>26
  <2>. QED BY <2>1, <2>2, <2>3, <1>8, <1>11 DEF StaleIsGone
<1>29. \A k \in Nat : \A x \in Kinds : k # d \/ x \notin Params => hold2[<<k, x>>] = hold[<<k, x>>]
  BY <1>15 DEF Temporaries
<1>30. \A i \in Params : hold[<<d, i>>] = Nil
  <2>1. InFunction
    BY <1>2
  <2>. QED BY <2>1, <1>1, <1>3, OwnValues
<1>31. \A i \in Params : hold2[<<d, i>>] = IF args[i] = "temporary" THEN p[i] ELSE Nil
  BY <1>15, <1>30, KindsAre DEF Temporaries
<1>32. Holding(cur2, hold2)'
  <2>1. \A k \in Nat : KeepsAt(k, cur, hold)
    BY <1>16 DEF Holding
  <2>2. KeepsAt(d, cur2, hold2)'
    <3>1. hold2[<<d, "local">>] = hold[<<d, "local">>] /\ hold2[<<d, "caught">>] = hold[<<d, "caught">>]
      BY <1>29, KindsAre, PlacesAre
    <3>2. Top.caught # NoFrame => frames'[Top.caught] = frames[Top.caught]
      BY <1>2, <1>4, <1>10, <1>12, LevelsAre DEF ActivationShape
    <3>3. Pending(d)' /\ activations'[d].call = c
      BY <1>4, <1>8 DEF Pending
    <3>4. \A i \in Params : args[i] = "temporary" => p[i] # Nil
      BY <1>13, ValuesArePositive DEF Unused
    <3>5. cur2[d]["local"] = cur[d]["local"] /\ d \in Levels'
      BY <1>4, <1>8, <1>19
    <3>6. KeepsAt(d, cur, hold)
      BY <2>1
    <3>. QED BY <3>1, <3>2, <3>3, <3>4, <3>5, <3>6, <1>4, <1>8, <1>9, <1>31 DEF KeepsAt
  <2>3. KeepsAt(e, cur2, hold2)'
    <3>1. KeepsAt(e, cur, hold)
      BY <2>1
    <3>2. \A x \in Kinds : hold2[<<e, x>>] = hold[<<e, x>>]
      BY <1>7, <1>29
    <3>3. /\ hold2[<<e, "local">>] = Nil /\ hold2[<<e, "caught">>] = Nil
          /\ \A i \in Params : hold2[<<e, i>>] = Nil
      BY <3>1, <3>2, <1>8, KindsAre DEF KeepsAt
    <3>4. activations'[e].declared = FALSE /\ activations'[e].caught = NoFrame /\ ~Pending(e)'
      BY <1>8, <1>10 DEF Pending
    <3>. QED BY <3>3, <3>4 DEF KeepsAt
  <2>4. ASSUME NEW k \in Nat, k # d, k # e
        PROVE  KeepsAt(k, cur2, hold2)'
    <3>1. KeepsAt(k, cur, hold) /\ (k \in Levels' <=> k \in Levels)
      BY <2>1, <2>4, <1>8
    <3>2. /\ hold2[<<k, "local">>] = hold[<<k, "local">>] /\ hold2[<<k, "caught">>] = hold[<<k, "caught">>]
          /\ \A i \in Params : hold2[<<k, i>>] = hold[<<k, i>>]
      BY <2>4, <1>29, KindsAre
    <3>3. k \in Levels => activations'[k] = activations[k] /\ cur2[k] = cur[k]
      BY <2>4, <1>8, <1>19
    <3>4. k \in Levels /\ activations[k].caught # NoFrame => frames'[activations[k].caught] = frames[activations[k].caught]
      BY <1>2, <1>10, <1>12, LevelsAre DEF ActivationShape
    <3>. QED BY <3>1, <3>2, <3>3, <3>4 DEF KeepsAt, Pending
  <2>5. \A k \in Nat : hold2[<<k, "result">>] = hold[<<k, "result">>]
    BY <1>29, KindsAre, PlacesAre
  <2>6. KeepsResult(hold2)'
    BY <2>5, <1>2, <1>11, <1>16 DEF KeepsResult, Holding
  <2>7. \A k \in Nat : KeepsAt(k, cur2, hold2)'
    BY <2>2, <2>3, <2>4
  <2>. QED BY <2>5, <2>6, <2>7, <1>16 DEF Holding
<1>33. ASSUME NEW j \in Nat, NEW x \in Kinds, hold[<<j, x>>] # Nil
       PROVE  hold2[<<j, x>>] = hold[<<j, x>>]
  BY <1>15, <1>29, <1>30, <1>33
<1>34. Backing(cur2, hold2)'
  <2>1. ASSUME NEW k \in Levels, k > 1, NEW i \in Params
        PROVE  /\ cur2[k][i] # Nil
               /\ \E j \in 1..(k - 1), x \in Places :
                    hold2[<<j, x>>] = cur2[k][i] /\ (activations'[k].mutable[i] => x = "local")
    <3>1. PICK j \in 1..(k - 1), x \in Places :
            hold[<<j, x>>] = cur[k][i] /\ (activations[k].mutable[i] => x = "local")
      BY <2>1, <1>16 DEF Backing
    <3>2. cur[k][i] # Nil
      BY <2>1, <1>16 DEF Backing
    <3>3. hold2[<<j, x>>] = hold[<<j, x>>]
      <4>1. j \in Nat /\ x \in Kinds
        BY <1>19, KindsAre
      <4>. QED BY <3>1, <3>2, <4>1, <1>33
    <3>. QED BY <3>1, <3>2, <3>3, <1>8, <1>19
  <2>2. ASSUME NEW i \in Params
        PROVE  /\ cur2[e][i] # Nil
               /\ \E j \in 1..d, x \in Places :
                    hold2[<<j, x>>] = cur2[e][i] /\ (mutable[i] => x = "local")
    <3>0. cur2[e][i] = p[i] /\ d \in 1..d
      BY <1>4, <1>18
    <3>1. CASE args[i] = "temporary"
      <4>1. hold2[<<d, i>>] = p[i] /\ mutable[i] = FALSE /\ p[i] # Nil
        BY <3>1, <1>13, <1>31, ValuesArePositive DEF Unused
      <4>2. d \in 1..d /\ i \in Places
        BY <1>4, KindsAre
      <4>. QED BY <4>1, <4>2, <3>0
    <3>2. CASE args[i] = "local"
      <4>1. Top.declared
        <5>1. IsCareful(to, list.args, list.mutable, catches)
          BY <1>2, CarefulCalls
        <5>. QED BY <5>1, <3>2, <1>5 DEF IsCareful
      <4>2. hold[<<d, "local">>] = cur[d]["local"] /\ cur[d]["local"] # Nil
        BY <4>1, <1>1, <1>4, LocalsAreKept
      <4>3. hold2[<<d, "local">>] = hold[<<d, "local">>]
        BY <1>29, KindsAre, PlacesAre
      <4>4. p[i] = cur[d]["local"]
        BY <3>2, <1>13
      <4>. QED BY <4>2, <4>3, <4>4, <3>0, KindsAre
    <3>3. CASE args[i] \in Params
      <4>1. d > 1 /\ (mutable[i] => Top.mutable[args[i]])
        <5>1. IsCareful(to, list.args, list.mutable, catches)
          BY <1>2, CarefulCalls
        <5>. QED BY <5>1, <3>3, <1>3, <1>5 DEF IsCareful
      <4>2. PICK j \in 1..(d - 1), x \in Places :
              hold[<<j, x>>] = cur[d][args[i]] /\ (activations[d].mutable[args[i]] => x = "local")
        BY <3>3, <4>1, <1>4, <1>16 DEF Backing
      <4>3. p[i] = cur[d][args[i]] /\ p[i] # Nil
        BY <3>3, <1>13, PlacesAre
      <4>4. hold2[<<j, x>>] = hold[<<j, x>>]
        <5>1. j \in Nat /\ x \in Kinds
          BY KindsAre
        <5>. QED BY <5>1, <4>2, <4>3, <1>33
      <4>5. j \in 1..d
        OBVIOUS
      <4>. QED BY <4>1, <4>2, <4>3, <4>4, <4>5, <3>0, <1>4
    <3>. QED BY <3>1, <3>2, <3>3, <1>13, PlacesAre
  <2>3. e - 1 = d /\ activations'[e].mutable = mutable
    BY <1>7, <1>8, <1>10
  <2>4. ASSUME NEW k \in Levels', k > 1, NEW i \in Params
        PROVE  /\ cur2[k][i] # Nil
               /\ \E j \in 1..(k - 1), x \in Places :
                    hold2[<<j, x>>] = cur2[k][i] /\ (activations'[k].mutable[i] => x = "local")
    <3>1. CASE k \in Levels
      BY <3>1, <2>1, <2>4
    <3>2. CASE k = e
      BY <3>2, <2>2, <2>3
    <3>. QED BY <3>1, <3>2, <1>8
  <2>. QED BY <2>4 DEF Backing
<1>35. NoAlias(cur2)'
  <2>1. ASSUME NEW k \in Levels, k > 1, NEW i \in Params, activations[k].mutable[i], NEW k2 \in 1..k, NEW s \in Places,
               cur2[k2][s] = cur2[k][i], <<k2, s>> # <<k, i>>
        PROVE  k2 < k /\ Lent(k2, s)'
    <3>1. k2 \in Levels
      BY <1>4, <1>19
    <3>2. k2 < k /\ Lent(k2, s)
      <4>1. cur[k2][s] = cur[k][i]
        BY <2>1, <3>1, <1>19
      <4>2. NoAlias(cur)
        BY <1>16
      <4>. QED BY <4>1, <4>2, <2>1 DEF NoAlias
    <3>3. k2 # d
      BY <3>2, <1>19
    <3>. QED BY <3>1, <3>2, <3>3, <1>22 DEF Lent
  <2>2. ASSUME NEW i \in Params, mutable[i], NEW k2 \in 1..e, NEW s \in Places,
               cur2[k2][s] = cur2[e][i], <<k2, s>> # <<e, i>>
        PROVE  k2 < e /\ Lent(k2, s)'
    <3>1. /\ args[i] \in Places /\ p[i] = cur[d][args[i]] /\ p[i] \in Kept /\ cur2[e][i] = p[i]
          /\ \A j \in Params : j # i => p[j] # p[i]
          /\ \A k \in 1..d : \A t \in Places : cur[k][t] = cur[d][args[i]] =>
               (k = d /\ t = args[i]) \/ (k < d /\ Lent(k, t))
      BY <2>2, <1>13, <1>18
    <3>2. CASE k2 = e
      <4>1. CASE s = "local"
        BY <3>1, <3>2, <4>1, <2>2, <1>18, <1>24, <1>27
      <4>2. CASE s \in Params
        BY <3>1, <3>2, <4>2, <2>2, <1>18
      <4>. QED BY <4>1, <4>2, PlacesAre
    <3>3. CASE k2 # e
      <4>1. k2 \in 1..d /\ k2 < e
        BY <3>3, <1>7
      <4>2. k2 \in Levels /\ cur[k2][s] = cur[d][args[i]]
        BY <4>1, <3>1, <2>2, <1>4, <1>19
      <4>3. (k2 = d /\ s = args[i]) \/ (k2 < d /\ Lent(k2, s))
        BY <4>1, <4>2, <3>1
      <4>4. Lent(k2, s)'
        BY <4>2, <4>3, <2>2, <1>22 DEF Lent
      <4>. QED BY <4>1, <4>4
    <3>. QED BY <3>2, <3>3
  <2>3. ASSUME NEW k \in Levels', k > 1, NEW i \in Params, activations'[k].mutable[i], NEW k2 \in 1..k, NEW s \in Places,
               cur2[k2][s] = cur2[k][i], <<k2, s>> # <<k, i>>
        PROVE  k2 < k /\ Lent(k2, s)'
    <3>1. CASE k \in Levels
      BY <3>1, <2>1, <2>3, <1>8
    <3>2. CASE k = e
      BY <3>2, <2>2, <2>3, <1>8, <1>10
    <3>. QED BY <3>1, <3>2, <1>8
  <2>. QED BY <2>3 DEF NoAlias
<1>36. misfreed' = FALSE
  BY <1>11, <1>16
<1>37. Accounts(cur2, hold2)'
  BY <1>15, <1>18, <1>23, <1>28, <1>32, <1>34, <1>35, <1>36 DEF Accounts, Contents
<1>. QED BY <1>37 DEF Accounted

(* A set of numbers up to n has a greatest one. *)
LEMMA GreatestNatural ==
  ASSUME NEW n \in Nat, NEW T \in SUBSET (1..n), T # {}
  PROVE  \E m \in T : \A k \in T : k <= m
<1>. DEFINE D == {n - k : k \in T}
<1>1. D \subseteq Nat /\ D # {}
  <2>1. \A k \in T : k \in Nat /\ n - k \in Nat
    OBVIOUS
  <2>. QED BY <2>1
<1>2. PICK e \in D : \A w \in D : e <= w
  BY <1>1, LeastNatural
<1>3. PICK m \in T : e = n - m
  OBVIOUS
<1>4. ASSUME NEW k \in T
      PROVE  k <= m
  <2>1. n - k \in D
    OBVIOUS
  <2>. QED BY <2>1, <1>2, <1>3
<1>. QED BY <1>4

(* Current is the only function that says of every slot what IsCurrent
   says of it. *)
LEMMA SlotsAre ==
  ASSUME Frames, NEW cur \in [Nat -> [Places -> Maybe]], IsCurrent(cur), NEW v, NEW k \in Levels,
         k < Depth => v[k + 1] = cur[k + 1]
  PROVE  SlotValues(v, k) = cur[k]
<1>. DEFINE call == activations[k].call
            From(s) == IF call = NoCall THEN {} ELSE {i \in Params : call.args[i] = s /\ call.mutable[i]}
            Now(i) == IF k = Len(activations) THEN frames[call.to].params[i] ELSE v[k + 1][i]
            Of(s) == IF From(s) = {} THEN Slot(frames[activations[k].frame], s) ELSE Now(CHOOSE i \in From(s) : TRUE)
<1>1. SlotValues(v, k) = [s \in Places |-> Of(s)]
  BY PlacesAre DEF SlotValues
<1>2. k \in Nat /\ k <= Depth /\ Depth \in Nat /\ Depth = Len(activations)
  BY LevelsAre DEF Frames, Levels, Depth
<1>3. ASSUME NEW s \in Places
      PROVE  Of(s) = cur[k][s]
  <2>1. CASE From(s) = {}
    <3>1. ~Lent(k, s)
      BY <2>1 DEF Lent, LentTo, Pending
    <3>. QED BY <2>1, <3>1 DEF IsCurrent, Raw
  <2>2. CASE From(s) # {}
    <3>1. PICK i : i = CHOOSE j \in From(s) : TRUE
      OBVIOUS
    <3>2. i \in From(s)
      BY <2>2, <3>1
    <3>3. i \in Params /\ LentTo(k, s, i)
      BY <3>2 DEF LentTo, Pending
    <3>4. cur[k][s] = IF k = Depth THEN frames[activations[k].call.to].params[i] ELSE cur[k + 1][i]
      BY <3>3 DEF IsCurrent
    <3>5. Of(s) = Now(i)
      BY <2>2, <3>1, SMTT(30)
    <3>6. CASE k = Depth
      BY <3>4, <3>5, <3>6, <1>2
    <3>7. CASE k # Depth
      <4>1. v[k + 1] = cur[k + 1] /\ k # Len(activations)
        BY <3>7, <1>2
      <4>2. Now(i) = v[k + 1][i]
        BY <4>1
      <4>. HIDE DEF Of, Now
      <4>. QED BY <3>4, <3>5, <3>7, <4>1, <4>2
    <3>. QED BY <3>6, <3>7
  <2>. QED BY <2>1, <2>2
<1>4. cur[k] = [s \in Places |-> cur[k][s]]
  <2>1. cur[k] \in [Places -> Maybe]
    BY <1>2
  <2>. QED BY <2>1
<1>. HIDE DEF Of
<1>. QED BY <1>1, <1>3, <1>4

(* What the model computes from the top down is what IsCurrent says. *)
LEMMA CurrentIs ==
  ASSUME Frames, NEW cur \in [Nat -> [Places -> Maybe]], IsCurrent(cur)
  PROVE  \A k \in Levels : Current[k] = cur[k]
<1>1. DOMAIN activations = Levels /\ Depth \in Nat /\ \A k \in Levels : k \in Nat
  BY DEF Frames, CallsTypes, Levels, Depth
<1>2. Current = CHOOSE f : f = [k \in DOMAIN activations |-> SlotValues(f, k)]
  BY DEF Current
<1>3. \E f : f = [k \in DOMAIN activations |-> SlotValues(f, k)]
  <2>. DEFINE f == [k \in Levels |-> cur[k]]
  <2>1. ASSUME NEW k \in Levels
        PROVE  SlotValues(f, k) = cur[k]
    <3>1. k < Depth => f[k + 1] = cur[k + 1]
      BY <1>1 DEF Levels
    <3>. QED BY <3>1, SlotsAre
  <2>2. f = [k \in DOMAIN activations |-> SlotValues(f, k)]
    <3>. HIDE DEF f
    <3>1. [k \in DOMAIN activations |-> SlotValues(f, k)] = [k \in Levels |-> cur[k]]
      BY <1>1, <2>1
    <3>. QED BY <3>1 DEF f
  <2>. QED BY <2>2
<1>4. Current = [k \in DOMAIN activations |-> SlotValues(Current, k)]
  BY <1>2, <1>3
<1>5. PICK v : v = Current
  OBVIOUS
<1>6. \A k \in Levels : v[k] = SlotValues(v, k)
  BY <1>1, <1>4, <1>5
<1>. DEFINE Wrong == {k \in Levels : v[k] # cur[k]}
<1>7. Wrong = {}
  <2>1. SUFFICES ASSUME Wrong # {} PROVE FALSE
    OBVIOUS
  <2>2. PICK m \in Wrong : \A k \in Wrong : k <= m
    <3>1. Wrong \in SUBSET (1..Depth)
      BY DEF Levels
    <3>. HIDE DEF Wrong
    <3>. QED BY <3>1, <2>1, <1>1, GreatestNatural
  <2>3. m \in Levels /\ m \in Nat
    BY <1>1
  <2>4. m < Depth => v[m + 1] = cur[m + 1]
    <3>1. ASSUME m < Depth
          PROVE  m + 1 \in Levels /\ ~(m + 1 <= m)
      BY <3>1, <2>3, <1>1 DEF Levels
    <3>. QED BY <3>1, <2>2
  <2>5. v[m] = cur[m]
    BY <2>3, <2>4, <1>6, SlotsAre
  <2>. QED BY <2>2, <2>5
<1>. QED BY <1>5, <1>7

(* The keeper that stands for an owner. *)
KeeperOf(o) == IF o[1] = 0 THEN <<0, "result">> ELSE o

(* The owners, one kind at a time. *)
LEMMA OwnersAre ==
  ASSUME Frames, activations # <<>>, NEW o
  PROVE  o \in Owners <=>
           \/ \E k \in Levels : o = <<k, "local">> /\ activations[k].declared
           \/ \E k \in Levels : o = <<k, "caught">> /\ activations[k].caught # NoFrame
           \/ \E k \in Levels, i \in Params : o = <<k, i>> /\ Pending(k) /\ activations[k].call.args[i] = "temporary"
           \/ outcome \in {"ok", "error"} /\ o = <<0, outcome>>
<1>1. DOMAIN activations = Levels
  BY DEF Frames, CallsTypes, Levels, Depth
<1>2. ASSUME NEW q \in (DOMAIN activations) \X Params
      PROVE  \E k \in Levels, i \in Params : q = <<k, i>> /\ q[1] = k /\ q[2] = i
  BY <1>1
<1>3. \A k \in Levels, i \in Params : <<k, i>> \in (DOMAIN activations) \X Params
  BY <1>1
<1>4. o \in {q \in (DOMAIN activations) \X Params :
               activations[q[1]].call # NoCall /\ q[2] \in Temporaries(activations[q[1]].call.args)}
      <=> \E k \in Levels, i \in Params : o = <<k, i>> /\ Pending(k) /\ activations[k].call.args[i] = "temporary"
  <2>1. ASSUME o \in (DOMAIN activations) \X Params, activations[o[1]].call # NoCall,
               o[2] \in Temporaries(activations[o[1]].call.args)
        PROVE  \E k \in Levels, i \in Params : o = <<k, i>> /\ Pending(k) /\ activations[k].call.args[i] = "temporary"
    <3>1. PICK k \in Levels, i \in Params : o = <<k, i>> /\ o[1] = k /\ o[2] = i
      BY <2>1, <1>2
    <3>. QED BY <2>1, <3>1 DEF Pending, Temporaries
  <2>2. ASSUME NEW k \in Levels, NEW i \in Params, o = <<k, i>>, Pending(k), activations[k].call.args[i] = "temporary"
        PROVE  /\ o \in (DOMAIN activations) \X Params /\ activations[o[1]].call # NoCall
               /\ o[2] \in Temporaries(activations[o[1]].call.args)
    BY <2>2, <1>3 DEF Pending, Temporaries
  <2>. QED BY <2>1, <2>2
<1>5. o \in (IF Returned THEN {<<0, outcome>>} ELSE {}) <=> outcome \in {"ok", "error"} /\ o = <<0, outcome>>
  BY DEF Returned
<1>6. /\ o \in {<<k, "local">> : k \in {j \in DOMAIN activations : activations[j].declared}} <=>
           \E k \in Levels : o = <<k, "local">> /\ activations[k].declared
      /\ o \in {<<k, "caught">> : k \in {j \in DOMAIN activations : activations[j].caught # NoFrame}} <=>
           \E k \in Levels : o = <<k, "caught">> /\ activations[k].caught # NoFrame
  BY <1>1
<1>. QED BY <1>4, <1>5, <1>6 DEF Owners

(* Every owner owns what its keeper keeps, and there are as many. *)
LEMMA OwnersKeep ==
  ASSUME Frames, activations # <<>>, NEW cur, NEW hold, Accounts(cur, hold), NEW o \in Owners
  PROVE  KeeperOf(o) \in Keepers /\ Owned(o) = hold[KeeperOf(o)] /\ hold[KeeperOf(o)] # Nil
<1>1. /\ \A k \in Nat : KeepsAt(k, cur, hold)
      /\ KeepsResult(hold) /\ cur \in [Nat -> [Places -> Maybe]] /\ IsCurrent(cur)
  BY DEF Accounts, Contents, Holding
<1>2. \A k \in Levels : k \in Nat /\ k # 0 /\ Current[k] = cur[k]
  BY <1>1, CurrentIs, LevelsAre DEF Frames
<1>3. CASE \E k \in Levels : o = <<k, "local">> /\ activations[k].declared
  <2>1. PICK k \in Levels : o = <<k, "local">> /\ activations[k].declared
    BY <1>3
  <2>2. KeeperOf(o) = <<k, "local">> /\ Owned(o) = Current[k]["local"]
    BY <2>1, <1>2 DEF KeeperOf, Owned
  <2>3. hold[<<k, "local">>] = cur[k]["local"] /\ cur[k]["local"] # Nil
    BY <2>1, <1>1, <1>2 DEF KeepsAt
  <2>. QED BY <2>2, <2>3, <1>2, KeepersAre, KindsAre
<1>4. CASE \E k \in Levels : o = <<k, "caught">> /\ activations[k].caught # NoFrame
  <2>1. PICK k \in Levels : o = <<k, "caught">> /\ activations[k].caught # NoFrame
    BY <1>4
  <2>2. KeeperOf(o) = <<k, "caught">> /\ Owned(o) = frames[activations[k].caught].err.message
    BY <2>1, <1>2 DEF KeeperOf, Owned
  <2>3. hold[<<k, "caught">>] = frames[activations[k].caught].err.message /\ hold[<<k, "caught">>] # Nil
    BY <2>1, <1>1, <1>2 DEF KeepsAt
  <2>. QED BY <2>2, <2>3, <1>2, KeepersAre, KindsAre
<1>5. CASE \E k \in Levels, i \in Params : o = <<k, i>> /\ Pending(k) /\ activations[k].call.args[i] = "temporary"
  <2>1. PICK k \in Levels, i \in Params : o = <<k, i>> /\ Pending(k) /\ activations[k].call.args[i] = "temporary"
    BY <1>5
  <2>2. KeeperOf(o) = <<k, i>> /\ Owned(o) = activations[k].call.values[i]
    BY <2>1, <1>2 DEF KeeperOf, Owned, Params
  <2>3. hold[<<k, i>>] = activations[k].call.values[i] /\ hold[<<k, i>>] # Nil
    BY <2>1, <1>1, <1>2 DEF KeepsAt
  <2>. QED BY <2>2, <2>3, <1>2, KeepersAre, KindsAre
<1>6. CASE outcome \in {"ok", "error"} /\ o = <<0, outcome>>
  <2>1. KeeperOf(o) = <<0, "result">> /\ Owned(o) = IF outcome = "ok" THEN Callee.ret ELSE Callee.err.message
    BY <1>6 DEF KeeperOf, Owned
  <2>2. Returned
    BY <1>6 DEF Returned
  <2>. QED BY <2>1, <2>2, ResultIsKept
<1>. QED BY <1>3, <1>4, <1>5, <1>6, OwnersAre

(* Every keeper stands for an owner *)
LEMMA KeepersOwn ==
  ASSUME Frames, activations # <<>>, NEW cur, NEW hold, Accounts(cur, hold), NEW q \in Keepers, hold[q] # Nil
  PROVE  \E o \in Owners : KeeperOf(o) = q
<1>1. PICK k \in Nat, x \in Kinds : q = <<k, x>>
  BY DEF Keepers
<1>2. KeepsAt(k, cur, hold) /\ KeepsResult(hold) /\ (k > 0 => hold[<<k, "result">>] = Nil)
  BY DEF Accounts, Contents, Holding
<1>3. \A l \in Levels : l # 0
  BY LevelsAre DEF Frames
<1>4. CASE x = "local"
  <2>1. k \in Levels /\ activations[k].declared
    BY <1>1, <1>2, <1>4 DEF KeepsAt
  <2>. QED BY <2>1, <1>1, <1>3, <1>4, OwnersAre DEF KeeperOf
<1>5. CASE x = "caught"
  <2>1. k \in Levels /\ activations[k].caught # NoFrame
    BY <1>1, <1>2, <1>5 DEF KeepsAt
  <2>. QED BY <2>1, <1>1, <1>3, <1>5, OwnersAre DEF KeeperOf
<1>6. CASE x \in Params
  <2>1. k \in Levels /\ Pending(k) /\ activations[k].call.args[x] = "temporary"
    BY <1>1, <1>2, <1>6 DEF KeepsAt
  <2>. QED BY <2>1, <1>1, <1>3, <1>6, OwnersAre DEF KeeperOf
<1>7. CASE x = "result"
  <2>1. k = 0 /\ outcome \in {"ok", "error"}
    BY <1>1, <1>2, <1>7 DEF KeepsResult
  <2>2. <<0, outcome>> \in Owners /\ KeeperOf(<<0, outcome>>) = <<0, "result">>
    BY <2>1, OwnersAre DEF KeeperOf
  <2>. QED BY <2>1, <2>2, <1>1, <1>7
<1>. QED BY <1>4, <1>5, <1>6, <1>7 DEF Kinds, Params

(* and for no other. *)
LEMMA OwnersDiffer ==
  ASSUME Frames, activations # <<>>, NEW o \in Owners, NEW p \in Owners, KeeperOf(o) = KeeperOf(p)
  PROVE  o = p
<1>1. \A l \in Levels : l # 0
  BY LevelsAre DEF Frames
<1>2. ASSUME NEW q \in Owners
      PROVE  (q[1] = 0 => q = <<0, outcome>>) /\ (q[1] # 0 => KeeperOf(q) = q)
  BY <1>1, OwnersAre DEF KeeperOf
<1>3. o[1] = 0 <=> p[1] = 0
  BY <1>2 DEF KeeperOf
<1>. QED BY <1>2, <1>3

----------------------------------------
(* The invariant. *)

CallsInvariant ==
  /\ Frames
  /\ misfreed = FALSE
  /\ live \subseteq Values /\ leaked \subseteq Values
  /\ outcome \in {"none", "ok", "error"} => Accounted
  /\ outcome = "ended" => live = leaked

(* With the invariant, whatever lives has exactly one owner. *)
LEMMA InvariantMeansOwners ==
  ASSUME CallsInvariant
  PROVE  ValuesHaveOneOwner
<1>1. Frames /\ misfreed = FALSE /\ (outcome = "ended" => live = leaked)
  BY DEF CallsInvariant
<1>2. ASSUME activations # <<>>
      PROVE  /\ live \ leaked = {Owned(o) : o \in Owners}
             /\ \A o, p \in Owners : Owned(o) = Owned(p) => o = p
             /\ \A k \in DOMAIN activations : k > 1 => \A i \in Params : Current[k][i] \in live \ leaked
  <2>1. outcome \in {"none", "ok", "error"} /\ DOMAIN activations = Levels
    BY <1>1, <1>2 DEF Frames, Calling, CallsTypes, Depth, Levels
  <2>2. PICK cur, hold : Accounts(cur, hold)
    BY <2>1 DEF CallsInvariant, Accounted
  <2>3. AreBooks(hold, live, leaked) /\ cur \in [Nat -> [Places -> Maybe]] /\ IsCurrent(cur)
    BY <2>2 DEF Accounts, Contents
  <2>4. \A o \in Owners : KeeperOf(o) \in Keepers /\ Owned(o) = hold[KeeperOf(o)] /\ hold[KeeperOf(o)] # Nil
    BY <1>1, <1>2, <2>2, OwnersKeep
  <2>5. \A o \in Owners : Owned(o) \in live \ leaked
    BY <2>3, <2>4, KeptIsHeld
  <2>6. ASSUME NEW v \in live \ leaked
        PROVE  \E o \in Owners : Owned(o) = v
    <3>1. v \in Values /\ v # Nil
      BY ValuesArePositive DEF CallsInvariant
    <3>2. PICK q \in Keepers : hold[q] = v
      BY <3>1, <2>3 DEF AreBooks, Books
    <3>3. PICK o \in Owners : KeeperOf(o) = q
      BY <3>1, <3>2, <1>1, <1>2, <2>2, KeepersOwn
    <3>. QED BY <3>2, <3>3, <2>4
  <2>7. \A o, p \in Owners : Owned(o) = Owned(p) => o = p
    <3>1. \A o, p \in Owners : Owned(o) = Owned(p) => KeeperOf(o) = KeeperOf(p)
      BY <2>3, <2>4, KeepersDiffer
    <3>. QED BY <3>1, <1>1, <1>2, OwnersDiffer
  <2>8. ASSUME NEW k \in Levels, k > 1, NEW i \in Params
        PROVE  Current[k][i] \in live \ leaked
    <3>1. Current[k] = cur[k]
      BY <1>1, <2>3, CurrentIs
    <3>. QED BY <3>1, <2>2, <2>8, <1>1, ParametersAreKept
  <2>. QED BY <2>1, <2>5, <2>6, <2>7, <2>8
<1>. QED BY <1>1, <1>2 DEF ValuesHaveOneOwner

(* With the invariant, frames do not overlap and an error arrives with the
   code it was thrown with. *)
LEMMA InvariantMeansReturns ==
  ASSUME CallsInvariant
  PROVE  CallsReturnWhereTheyShould
<1>1. Frames /\ CallsTypes /\ live \subseteq Values /\ leaked \subseteq Values /\ DOMAIN activations = Levels
      /\ Depth \in Nat
  <2>1. Frames /\ CallsTypes /\ live \subseteq Values /\ leaked \subseteq Values
    BY DEF CallsInvariant, Frames
  <2>2. DOMAIN activations = Levels /\ Depth \in Nat
    BY <2>1 DEF CallsTypes, Levels, Depth
  <2>. QED BY <2>1, <2>2
<1>2. \A k \in Levels : activations[k] \in ActivationShape /\ k \in Nat /\ k >= 1 /\ k <= Depth
  BY <1>1, LevelsAre
<1>3. CallsTypeOK
  <2>1. \A a \in Addresses :
          /\ {frames[a].ret, frames[a].local, frames[a].err.message} \subseteq Values \union {Nil}
          /\ frames[a].params \in [Params -> Values \union {Nil}]
          /\ frames[a].err.code \in Codes \union {"none"}
    BY <1>1 DEF CallsTypes, FrameShape, Maybe, CodesOrNone
  <2>2. ASSUME NEW k \in Levels
        PROVE  /\ activations[k].frame \in Addresses
               /\ activations[k].caught \in Addresses \union {NoFrame}
               /\ (activations[k].call = NoCall) = (k = Len(activations) /\ outcome = "none")
    <3>1. activations[k].frame \in Addresses /\ activations[k].caught \in Addresses \union {NoFrame}
      BY <1>2 DEF ActivationShape
    <3>2. activations[k].call = NoCall <=> ~(k < Depth \/ outcome # "none")
      BY <1>1 DEF Frames, Calling, Pending
    <3>3. activations[k].call = NoCall <=> k = Depth /\ outcome = "none"
      BY <3>2, <1>1, <1>2
    <3>. QED BY <3>1, <3>3 DEF Depth
  <2>. QED BY <1>1, <2>1, <2>2 DEF CallsTypeOK, CallsTypes
<1>4. FramesAreDisjoint
  BY <1>1 DEF FramesAreDisjoint, Frames, Stacking
<1>5. ErrorsArrive
  <2>1. ASSUME NEW k \in Levels, activations[k].caught # NoFrame
        PROVE  /\ frames[activations[k].caught].err.code = activations[k].expected
               /\ frames[activations[k].caught].err.message \in live
    <3>1. frames[activations[k].caught].err.code = activations[k].expected
      BY <2>1, <1>1 DEF Frames, Catching
    <3>2. outcome \in {"none", "ok", "error"}
      BY <2>1, <1>1, <1>2 DEF Frames, Calling, CallsTypes
    <3>3. PICK cur, hold : Accounts(cur, hold)
      BY <3>2 DEF CallsInvariant, Accounted
    <3>4. AreBooks(hold, live, leaked) /\ KeepsAt(k, cur, hold) /\ <<k, "caught">> \in Keepers
      BY <3>3, <1>2, KeepersAre, KindsAre DEF Accounts, Contents, Holding
    <3>5. hold[<<k, "caught">>] = frames[activations[k].caught].err.message /\ hold[<<k, "caught">>] # Nil
      BY <2>1, <3>4 DEF KeepsAt
    <3>. QED BY <3>1, <3>4, <3>5, KeptIsHeld
  <2>. QED BY <2>1, <1>1 DEF ErrorsArrive
<1>. QED BY <1>3, <1>4, <1>5 DEF CallsReturnWhereTheyShould

(* The invariant holds when main is called, *)
LEMMA CallsStart ==
  ASSUME CallsInit
  PROVE  CallsInvariant
<1>1. PICK size \in Sizes :
        activations = <<Entered(0, size, [i \in Params |-> FALSE], [stack_ptr |-> 0, callable |-> FALSE])>>
  BY DEF CallsInit
<1>2. size \in 1..Capacity /\ Capacity \in Nat /\ MaxSteps \in Nat
  BY CallsAssumption
<1>3. /\ frames = [a \in Addresses |-> DefaultFrame] /\ outcome = "none" /\ live = {} /\ leaked = {}
      /\ raised = "none" /\ misfreed = FALSE /\ steps = 0
      /\ thread_stack = [stack_ptr |-> 0, callable |-> FALSE]
  BY DEF CallsInit
<1>4. PICK first : first = [frame |-> 0, size |-> size, next |-> size, mutable |-> [i \in Params |-> FALSE],
                            declared |-> FALSE, call |-> NoCall, caught |-> NoFrame, expected |-> "none"]
  OBVIOUS
<1>5. activations = <<first>>
  BY <1>1, <1>2, <1>4 DEF Entered
<1>6. 0 \in Addresses
  BY <1>2 DEF Addresses
<1>7. first \in ActivationShape
  BY <1>2, <1>4, <1>6 DEF ActivationShape, CodesOrNone
<1>8. Levels = {1} /\ Depth = 1 /\ activations[1] = first /\ Top = first
  BY <1>5 DEF Levels, Depth, Top
<1>9. CallsTypes
  BY <1>2, <1>3, <1>5, <1>7, DefaultFrameType DEF CallsTypes, CodesOrNone
<1>10. 0 \notin Callables
  BY CallsAssumption
<1>11. Stacking
  BY <1>2, <1>4, <1>8, <1>10 DEF Stacking
<1>12. ~Pending(1)
  BY <1>4, <1>8 DEF Pending
<1>13. Calling /\ Catching
  BY <1>3, <1>4, <1>8, <1>12 DEF Calling, Catching
<1>14. Frames
  BY <1>9, <1>11, <1>13 DEF Frames
<1>15. PICK cur : cur = [k \in Nat |-> [s \in Places |-> Nil]]
  OBVIOUS
<1>16. PICK hold : hold = [o \in Keepers |-> Nil]
  OBVIOUS
<1>17. /\ cur \in [Nat -> [Places -> Maybe]] /\ \A s \in Places : cur[1][s] = Nil
  BY <1>15 DEF Maybe
<1>18. hold \in [Keepers -> Maybe] /\ \A k \in Nat : \A x \in Kinds : hold[<<k, x>>] = Nil
  BY <1>16, KeepersAre DEF Maybe
<1>19. \A s \in Places : Raw(1, s) = Nil
  BY <1>3, <1>4, <1>6, <1>8, PlacesAre DEF Raw, Slot, DefaultFrame
<1>20. IsCurrent(cur)
  BY <1>8, <1>12, <1>17, <1>19 DEF IsCurrent, LentTo
<1>21. StaleIsGone
  BY <1>3 DEF StaleIsGone, Kept
<1>22. Holding(cur, hold)
  <2>1. \A k \in Nat : hold[<<k, "local">>] = Nil /\ hold[<<k, "caught">>] = Nil /\ hold[<<k, "result">>] = Nil
                       /\ \A i \in Params : hold[<<k, i>>] = Nil
    BY <1>18, KindsAre
  <2>2. \A k \in Nat : KeepsAt(k, cur, hold)
    <3>1. \A k \in Levels : activations[k].declared = FALSE /\ activations[k].caught = NoFrame /\ ~Pending(k)
      BY <1>4, <1>8, <1>12
    <3>. QED BY <2>1, <3>1 DEF KeepsAt
  <2>. QED BY <2>1, <2>2, <1>3 DEF Holding, KeepsResult
<1>23. Backing(cur, hold) /\ NoAlias(cur)
  BY <1>8 DEF Backing, NoAlias
<1>24. AreBooks(hold, live, leaked)
  BY <1>3, <1>16, <1>18, ValuesArePositive DEF AreBooks, Books
<1>25. Accounts(cur, hold)
  BY <1>3, <1>17, <1>20, <1>21, <1>22, <1>23, <1>24 DEF Accounts, Contents
<1>26. Accounted
  BY <1>25 DEF Accounted
<1>. QED BY <1>3, <1>14, <1>26 DEF CallsInvariant

(* it is made of what the lemmas above say of each step, *)
LEMMA GoesOn ==
  ASSUME CallsInvariant, Frames', Accounted', outcome' \in {"none", "ok", "error"}
  PROVE  CallsInvariant'
<1>1. (live \subseteq Values /\ leaked \subseteq Values /\ misfreed = FALSE)'
  BY DEF Accounted, Accounts, AreBooks, Books
<1>. QED BY <1>1 DEF CallsInvariant

(* and every step of a program that is spared CallsCareless keeps it. *)
LEMMA CallsGoOn ==
  ASSUME CallsCareless = {}, CallsInvariant, [CallsNext]_calls
  PROVE  CallsInvariant'
<1>1. Frames /\ (outcome \in {"none", "ok", "error"} => Accounted)
  BY DEF CallsInvariant
<1>2. CASE DeclareLocal
  <2>1. outcome = "none" /\ outcome' = "none"
    BY <1>2 DEF DeclareLocal, Step, Ready, InFunction
  <2>. QED BY <2>1, <1>1, <1>2, DeclareLocalFrames, DeclareLocalAccounts, GoesOn
<1>3. ASSUME NEW i \in Params, AssignParameter(i)
      PROVE  CallsInvariant'
  <2>1. outcome = "none" /\ outcome' = "none"
    BY <1>3 DEF AssignParameter, Step, Ready, InFunction
  <2>. QED BY <2>1, <1>1, <1>3, AssignParameterFrames, AssignParameterAccounts, GoesOn
<1>4. ASSUME NEW list \in ArgumentLists, NEW catches \in BOOLEAN, NEW size \in Sizes,
             generate_call(size, list.args, list.mutable, catches)
      PROVE  CallsInvariant'
  <2>1. PICK callee, fr :
           /\ Enters(Top.next, callee, fr) /\ callee.mutable = list.mutable /\ fr.params = Passed(list.args)
           /\ Invoke(Top.next, callee, fr, list.args, list.mutable, catches)
           /\ MayCall(Top.next, list.args, list.mutable, catches)
    BY <1>1, <1>4, FunctionsEnter
  <2>2. outcome = "none" /\ outcome' = "none"
    BY <2>1 DEF MayCall, Step, Ready, InFunction, Invoke
  <2>3. Frames'
    BY <1>1, <1>4, FunctionCallFrames
  <2>4. Accounted'
    BY <2>1, <2>2, <1>1, InvokeAccounts
  <2>. QED BY <2>2, <2>3, <2>4, GoesOn
<1>5. ASSUME NEW list \in ArgumentLists, NEW catches \in BOOLEAN, NEW callable \in Callables,
             generate_callable_call(callable, list.args, list.mutable, catches)
      PROVE  CallsInvariant'
  <2>1. PICK callee, fr :
           /\ Enters(callable, callee, fr) /\ callee.mutable = list.mutable /\ fr.params = Passed(list.args)
           /\ Invoke(callable, callee, fr, list.args, list.mutable, catches)
           /\ MayCall(callable, list.args, list.mutable, catches)
    BY <1>1, <1>5, CallablesEnter
  <2>2. outcome = "none" /\ outcome' = "none"
    BY <2>1 DEF MayCall, Step, Ready, InFunction, Invoke
  <2>3. Frames'
    BY <1>1, <1>5, CallableCallFrames
  <2>4. Accounted'
    BY <2>1, <2>2, <1>1, InvokeAccounts
  <2>. QED BY <2>2, <2>3, <2>4, GoesOn
<1>6. ASSUME NEW size \in Sizes, Overflow(size)
      PROVE  CallsInvariant'
  <2>1. outcome' = "aborted" /\ live' = live /\ leaked' = leaked /\ misfreed' = misfreed
    BY <1>6 DEF Overflow
  <2>2. Frames'
    BY <1>1, <1>6, OverflowFrames
  <2>. QED BY <2>1, <2>2 DEF CallsInvariant
<1>7. ASSUME NEW what \in {"local", "other"}, Return(what)
      PROVE  CallsInvariant'
  <2>1. outcome = "none" /\ outcome' = "ok"
    BY <1>7 DEF Return, InFunction, Leave
  <2>. QED BY <2>1, <1>1, <1>7, ReturnFrames, ReturnAccounts, GoesOn
<1>8. ASSUME NEW code \in Codes, throw_literal(code)
      PROVE  CallsInvariant'
  <2>1. outcome = "none" /\ outcome' = "error"
    BY <1>8 DEF throw_literal, InFunction, Leave
  <2>. QED BY <2>1, <1>1, <1>8, ThrowLiteralFrames, ThrowLiteralAccounts, GoesOn
<1>9. CASE throw_caught
  <2>1. outcome = "none" /\ outcome' = "error"
    BY <1>9 DEF throw_caught, InFunction, Leave
  <2>. QED BY <2>1, <1>1, <1>9, ThrowCaughtFrames, ThrowCaughtAccounts, GoesOn
<1>10. ASSUME NEW store \in BOOLEAN, TakeResult(store)
       PROVE  CallsInvariant'
  <2>1. outcome = "ok" /\ outcome' = "none"
    BY <1>10 DEF TakeResult
  <2>2. Accounted'
    BY <2>1, <1>1, <1>10, StoreResultAccounts, DropResultAccounts
  <2>. QED BY <2>1, <2>2, <1>1, <1>10, TakeResultFrames, GoesOn
<1>11. CASE generate_rethrow
  <2>1. outcome = "error" /\ outcome' = "error"
    BY <1>11 DEF generate_rethrow
  <2>. QED BY <2>1, <1>1, <1>11, RethrowFrames, RethrowAccounts, GoesOn
<1>12. CASE EnterCatch
  <2>1. outcome = "error" /\ outcome' = "none"
    BY <1>12 DEF EnterCatch
  <2>. QED BY <2>1, <1>1, <1>12, EnterCatchFrames, EnterCatchAccounts, GoesOn
<1>13. CASE EndCatch
  <2>1. outcome = "none" /\ outcome' = "none"
    BY <1>13 DEF EndCatch, InFunction
  <2>. QED BY <2>1, <1>1, <1>13, EndCatchFrames, EndCatchAccounts, GoesOn
<1>14. CASE generate_builtin_main
  <2>1. outcome \in {"ok", "error"} /\ outcome' = "ended" /\ leaked' = leaked
    BY <1>14 DEF generate_builtin_main
  <2>2. Frames'
    BY <1>1, <1>14, MainFrames
  <2>3. live' = leaked' /\ misfreed' = FALSE
    BY <2>1, <1>1, <1>14, MainAccounts
  <2>. QED BY <2>1, <2>2, <2>3 DEF CallsInvariant
<1>15. CASE UNCHANGED calls
  <2>1. /\ frames' = frames /\ activations' = activations /\ outcome' = outcome /\ live' = live /\ leaked' = leaked
        /\ raised' = raised /\ misfreed' = misfreed /\ steps' = steps /\ thread_stack' = thread_stack
    BY <1>15 DEF calls
  <2>2. Frames'
    <3>1. CallsTypes' /\ Stacking'
      BY <2>1, <1>1 DEF Frames, CallsTypes, Stacking, Depth, Levels
    <3>2. Calling' /\ Catching'
      BY <2>1, <1>1 DEF Frames, Calling, Catching, CallIsCareful, Pending, Top, Depth, Levels
    <3>. QED BY <3>1, <3>2 DEF Frames
  <2>3. ASSUME NEW cur, NEW hold, Accounts(cur, hold)
        PROVE  Accounts(cur, hold)'
    <3>1. /\ cur \in [Nat -> [Places -> Maybe]] /\ IsCurrent(cur) /\ StaleIsGone /\ Holding(cur, hold)
          /\ Backing(cur, hold) /\ NoAlias(cur) /\ AreBooks(hold, live, leaked) /\ misfreed = FALSE
      BY <2>3 DEF Accounts, Contents
    <3>2. Depth' = Depth /\ Levels' = Levels /\ Top' = Top /\ Kept' = Kept
      BY <2>1 DEF Depth, Levels, Top, Kept
    <3>3. IsCurrent(cur)'
      BY <2>1, <3>1, <3>2 DEF IsCurrent, Lent, LentTo, Pending, Raw
    <3>4. StaleIsGone'
      BY <2>1, <3>1, <3>2 DEF StaleIsGone, Unset, Raw
    <3>5. Holding(cur, hold)'
      <4>1. \A k \in Nat : KeepsAt(k, cur, hold) => KeepsAt(k, cur, hold)'
        BY <2>1, <3>2 DEF KeepsAt, Pending
      <4>2. KeepsResult(hold) => KeepsResult(hold)'
        BY <2>1, <3>2 DEF KeepsResult, ResultValue, ResultFrame
      <4>. QED BY <3>1, <4>1, <4>2 DEF Holding
    <3>6. Backing(cur, hold)'
      <4>1. Backing(cur, hold) /\ activations' = activations /\ Levels' = Levels
        BY <2>1, <3>1, <3>2
      <4>2. \A k \in Levels : k > 1 => \A i \in Params :
              /\ cur[k][i] # Nil
              /\ \E j \in 1..(k - 1), x \in Places :
                   hold[<<j, x>>] = cur[k][i] /\ (activations'[k].mutable[i] => x = "local")
        BY <4>1 DEF Backing
      <4>. QED BY <4>1, <4>2 DEF Backing
    <3>7. NoAlias(cur)'
      BY <2>1, <3>1, <3>2 DEF NoAlias, Lent, LentTo, Pending
    <3>8. AreBooks(hold, live', leaked') /\ misfreed' = FALSE
      BY <2>1, <3>1
    <3>. QED BY <3>1, <3>3, <3>4, <3>5, <3>6, <3>7, <3>8 DEF Accounts, Contents
  <2>4. Accounted => Accounted'
    BY <2>3 DEF Accounted
  <2>. QED BY <2>1, <2>2, <2>4 DEF CallsInvariant
<1>. QED BY <1>2, <1>3, <1>4, <1>5, <1>6, <1>7, <1>8, <1>9, <1>10, <1>11, <1>12, <1>13, <1>14, <1>15 DEF CallsNext

(* Calls of functions and callables in the generated code, with mutable
   parameters, temporaries, results and errors that are thrown, caught and
   passed on (generate_call, generate_return_statement,
   generate_throw_statement, generate_catch_statement): for a thread stack
   of any size and any number of values, every value that lives has
   exactly one owner, nothing is freed twice, what a function was passed
   lives as long as it runs, and at the end nothing lives but what a
   rethrow or a thrown literal left behind, in programs that make none of
   the calls of CallsCareless. *)
THEOREM CallsStaySound ==
  ASSUME CallsCareless = {}
  PROVE  CallsSpec => []ValuesHaveOneOwner
<1>1. CallsInit => CallsInvariant
  BY CallsStart
<1>2. CallsInvariant /\ [CallsNext]_calls => CallsInvariant'
  BY CallsGoOn
<1>3. CallsInvariant => ValuesHaveOneOwner
  BY InvariantMeansOwners
<1>. QED BY <1>1, <1>2, <1>3, PTL DEF CallsSpec

(* In such programs the frames of running functions never overlap and fit
   on the stack, and every error arrives at its handler, and stays there,
   with the code it was thrown with. *)
THEOREM CallsComeBack ==
  ASSUME CallsCareless = {}
  PROVE  CallsSpec => []CallsReturnWhereTheyShould
<1>1. CallsInit => CallsInvariant
  BY CallsStart
<1>2. CallsInvariant /\ [CallsNext]_calls => CallsInvariant'
  BY CallsGoOn
<1>3. CallsInvariant => CallsReturnWhereTheyShould
  BY InvariantMeansReturns
<1>. QED BY <1>1, <1>2, <1>3, PTL DEF CallsSpec

----------------------------------------
(* Error sets. *)

Roots(family) == {s \in DOMAIN family : family[s].parent = AnyError}
Up(family) == [s \in DOMAIN family |-> family[s].parent]
Own(s) == {sets[s].values[i] : i \in DOMAIN sets[s].values}

(* The sets of a program are a forest. *)
LEMMA FamiliesAreForests ==
  ASSUME NEW family, IsFamily(family)
  PROVE  IsForest(DOMAIN family, Roots(family), Up(family))
<1>1. Cardinality(DOMAIN family) \in Nat
  BY FS_CardinalityType DEF IsFamily
<1>2. PICK rank \in [DOMAIN family -> 1 .. Cardinality(DOMAIN family)] :
        \A s \in DOMAIN family : family[s].parent # AnyError => rank[family[s].parent] < rank[s]
  BY DEF IsFamily
<1>3. \A s \in DOMAIN family \ Roots(family) :
        family[s].parent # AnyError /\ Up(family)[s] = family[s].parent /\ Up(family)[s] \in DOMAIN family
  BY DEF IsFamily, Roots, Up
<1>4. \A s \in DOMAIN family \ Roots(family) : rank[Up(family)[s]] < rank[s]
  BY <1>2, <1>3
<1>. QED BY <1>1, <1>3, <1>4 DEF IsForest

(* What holds of a set when it holds of its parent holds of all. *)
LEMMA FamilyInduction ==
  ASSUME NEW family, IsFamily(family), NEW T,
         \A s \in DOMAIN family : family[s].parent = AnyError \/ family[s].parent \in T => s \in T
  PROVE  DOMAIN family \subseteq T
<1>1. \A s \in DOMAIN family : s \in Roots(family) \/ Up(family)[s] \in T => s \in T
  BY DEF Roots, Up
<1>. QED BY <1>1, FamiliesAreForests, TreeInduction

(* A function of a set and of what its parent has is a function. *)
IsInFamily(g, family, V, base, step) ==
  /\ g \in [DOMAIN family -> V]
  /\ \A s \in DOMAIN family :
       g[s] = IF family[s].parent = AnyError THEN base[s] ELSE step[<<s, g[family[s].parent]>>]

(* There is one for every base and step. *)
LEMMA FamilyRecursion ==
  ASSUME NEW family, IsFamily(family), NEW V, NEW base, NEW step,
         base \in [DOMAIN family -> V], step \in [(DOMAIN family) \X V -> V]
  PROVE  \E g : IsInFamily(g, family, V, base, step)
<1>. DEFINE D == DOMAIN family
            R == Roots(family)
            up == Up(family)
<1>1. IsForest(D, R, up)
  BY FamiliesAreForests
<1>2. \A s \in D : (s \in R) = (family[s].parent = AnyError) /\ up[s] = family[s].parent
  BY DEF Roots, Up
<1>3. base \in [D -> V] /\ step \in [D \X V -> V]
  OBVIOUS
<1>. HIDE DEF D, R, up
<1>4. \E g : IsInherited(g, D, R, up, V, base, step)
  BY <1>1, <1>3, TreeRecursion
<1>5. PICK g \in [D -> V] : \A s \in D : g[s] = IF s \in R THEN base[s] ELSE step[<<s, g[up[s]]>>]
  BY <1>4 DEF IsInherited
<1>6. \A s \in D : g[s] = IF family[s].parent = AnyError THEN base[s] ELSE step[<<s, g[family[s].parent]>>]
  BY <1>2, <1>5
<1>. QED BY <1>5, <1>6 DEF D, IsInFamily

(* The sets that a set extends. *)
LEMMA AncestorsAre ==
  ASSUME NEW family, IsFamily(family)
  PROVE  \A s \in DOMAIN family :
           /\ AncestorsIn(family)[s] \subseteq DOMAIN family
           /\ AncestorsIn(family)[s] =
                IF family[s].parent = AnyError THEN {}
                ELSE {family[s].parent} \union AncestorsIn(family)[family[s].parent]
<1>. DEFINE D == DOMAIN family
            V == SUBSET D
            base == [s \in D |-> {}]
            step == [p \in D \X V |-> IF family[p[1]].parent = AnyError THEN {} ELSE {family[p[1]].parent} \union p[2]]
            Is(g) == g = [s \in D |-> IF family[s].parent = AnyError THEN {}
                                      ELSE {family[s].parent} \union g[family[s].parent]]
<1>1. \A s \in D : family[s].parent # AnyError => family[s].parent \in D
  BY DEF IsFamily
<1>2. base \in [D -> V] /\ step \in [D \X V -> V]
  BY <1>1
<1>3. \E g : IsInFamily(g, family, V, base, step)
  <2>. HIDE DEF V, base, step, D
  <2>1. base \in [DOMAIN family -> V] /\ step \in [(DOMAIN family) \X V -> V]
    BY <1>2 DEF D
  <2>. QED BY <2>1, FamilyRecursion
<1>4. PICK g \in [D -> V] : \A s \in D :
        g[s] = IF family[s].parent = AnyError THEN base[s] ELSE step[<<s, g[family[s].parent]>>]
  BY <1>3 DEF IsInFamily
<1>5. \A s \in D : g[s] = IF family[s].parent = AnyError THEN {} ELSE {family[s].parent} \union g[family[s].parent]
  <2>1. \A s \in D : family[s].parent # AnyError =>
          step[<<s, g[family[s].parent]>>] = {family[s].parent} \union g[family[s].parent]
    BY <1>1, <1>4
  <2>. QED BY <1>4, <2>1
<1>6. Is(g)
  BY <1>4, <1>5
<1>7. Is(AncestorsIn(family))
  BY <1>6 DEF AncestorsIn
<1>. DEFINE a == AncestorsIn(family)
            T == {s \in D : a[s] \subseteq D}
<1>8. \A s \in D : a[s] = IF family[s].parent = AnyError THEN {} ELSE {family[s].parent} \union a[family[s].parent]
  BY <1>7
<1>9. D \subseteq T
  <2>1. \A s \in D : family[s].parent = AnyError \/ family[s].parent \in T => s \in T
    <3>. HIDE DEF a
    <3>. QED BY <1>1, <1>8
  <2>. HIDE DEF T
  <2>. QED BY <2>1, FamilyInduction
<1>. QED BY <1>8, <1>9

(* What a set extends, what extends it extends, too. *)
LEMMA AncestorsClimb ==
  ASSUME NEW family, IsFamily(family)
  PROVE  \A s \in DOMAIN family : \A t \in AncestorsIn(family)[s] :
           AncestorsIn(family)[t] \subseteq AncestorsIn(family)[s]
<1>. DEFINE a == AncestorsIn(family)
            T == {s \in DOMAIN family : \A t \in a[s] : a[t] \subseteq a[s]}
<1>1. \A s \in DOMAIN family : a[s] = IF family[s].parent = AnyError THEN {}
                                      ELSE {family[s].parent} \union a[family[s].parent]
  BY AncestorsAre
<1>. HIDE DEF a
<1>2. \A s \in DOMAIN family : family[s].parent = AnyError \/ family[s].parent \in T => s \in T
  BY <1>1
<1>3. DOMAIN family \subseteq T
  <2>. HIDE DEF T
  <2>. QED BY <1>2, FamilyInduction
<1>. QED BY <1>3 DEF a

(* The number of a set's values is that of its own and of its parent's. *)
LEMMA CountsAre ==
  ASSUME IsFamily(sets)
  PROVE  \A s \in DOMAIN sets :
           /\ get_value_count(s) \in Nat
           /\ get_value_count(s) = Len(sets[s].values) + IF HasParent(s) THEN get_value_count(sets[s].parent) ELSE 0
<1>. DEFINE D == DOMAIN sets
            base == [s \in D |-> Len(sets[s].values)]
            step == [p \in D \X Nat |-> Len(sets[p[1]].values) + p[2]]
            Is(g) == g = [s \in D |-> Len(sets[s].values) + IF HasParent(s) THEN g[sets[s].parent] ELSE 0]
<1>1. \A s \in D : Len(sets[s].values) \in Nat /\ (sets[s].parent # AnyError => sets[s].parent \in D)
  BY DEF IsFamily
<1>2. base \in [D -> Nat] /\ step \in [D \X Nat -> Nat]
  BY <1>1
<1>3. \E g : IsInFamily(g, sets, Nat, base, step)
  <2>. HIDE DEF base, step
  <2>. QED BY <1>2, FamilyRecursion
<1>4. PICK g \in [D -> Nat] : \A s \in D :
        g[s] = IF sets[s].parent = AnyError THEN base[s] ELSE step[<<s, g[sets[s].parent]>>]
  BY <1>3 DEF IsInFamily
<1>5. \A s \in D : g[s] = Len(sets[s].values) + IF HasParent(s) THEN g[sets[s].parent] ELSE 0
  <2>1. \A s \in D : sets[s].parent # AnyError =>
          step[<<s, g[sets[s].parent]>>] = Len(sets[s].values) + g[sets[s].parent]
    BY <1>1, <1>4
  <2>2. \A s \in D : base[s] = Len(sets[s].values) /\ Len(sets[s].values) = Len(sets[s].values) + 0
    BY <1>1
  <2>3. \A s \in D : g[s] = IF HasParent(s) THEN Len(sets[s].values) + g[sets[s].parent]
                                            ELSE Len(sets[s].values) + 0
    <3>. HIDE DEF base, step
    <3>. QED BY <1>4, <2>1, <2>2 DEF HasParent
  <2>. QED BY <2>3
<1>6. Is(g)
  BY <1>4, <1>5
<1>7. Is(value_count)
  BY <1>6 DEF value_count
<1>. DEFINE T == {s \in D : value_count[s] \in Nat}
<1>8. \A s \in D : value_count[s] = Len(sets[s].values) + IF HasParent(s) THEN value_count[sets[s].parent] ELSE 0
  BY <1>7
<1>9. D \subseteq T
  <2>1. \A s \in D : sets[s].parent = AnyError \/ sets[s].parent \in T => s \in T
    BY <1>1, <1>8 DEF HasParent
  <2>. HIDE DEF T
  <2>. QED BY <2>1, FamilyInduction
<1>. QED BY <1>8, <1>9 DEF get_value_count

(* The values of a set are its own and its parent's. *)
LEMMA NamesAre ==
  ASSUME IsFamily(sets)
  PROVE  \A s \in DOMAIN sets :
           ValueNames(s) = Own(s) \union IF HasParent(s) THEN ValueNames(sets[s].parent) ELSE {}
<1>1. ASSUME NEW s \in DOMAIN sets
      PROVE  ValueNames(s) = UNION {Own(t) : t \in {s} \union Ancestors[s]}
  BY DEF ValueNames, Own
<1>2. \A s \in DOMAIN sets : Ancestors[s] = IF HasParent(s) THEN {sets[s].parent} \union Ancestors[sets[s].parent] ELSE {}
  BY AncestorsAre DEF Ancestors, HasParent
<1>3. \A s \in DOMAIN sets : HasParent(s) => sets[s].parent \in DOMAIN sets
  BY DEF IsFamily, HasParent
<1>4. ASSUME NEW s \in DOMAIN sets
      PROVE  ValueNames(s) = Own(s) \union IF HasParent(s) THEN ValueNames(sets[s].parent) ELSE {}
  <2>1. CASE HasParent(s)
    <3>1. Ancestors[s] = {sets[s].parent} \union Ancestors[sets[s].parent]
      BY <1>2, <2>1
    <3>2. ValueNames(sets[s].parent) = UNION {Own(t) : t \in {sets[s].parent} \union Ancestors[sets[s].parent]}
      BY <1>1, <1>3, <2>1
    <3>3. ValueNames(s) = UNION {Own(t) : t \in {s} \union Ancestors[s]}
      BY <1>1
    <3>. HIDE DEF Own
    <3>. QED BY <2>1, <3>1, <3>2, <3>3
  <2>2. CASE ~HasParent(s)
    BY <1>1, <1>2, <2>2, ZenonT(60)
  <2>. QED BY <2>1, <2>2
<1>. QED BY <1>4

(* The number and the message of a value that the set itself defines. *)
OwnPair(s, v) == <<NumberOf(s, First(sets[s].values, v)), sets[s].messages[First(sets[s].values, v)]>>

(* get_id_msg_pair_of_value looks at the set first, and then at its
   parent. *)
LEMMA PairsAre ==
  ASSUME IsFamily(sets), NEW v
  PROVE  \A s \in DOMAIN sets :
           get_id_msg_pair_of_value(s, v) =
             IF v \in Own(s) THEN OwnPair(s, v)
             ELSE IF HasParent(s) THEN get_id_msg_pair_of_value(sets[s].parent, v) ELSE NoPair
<1>. DEFINE D == DOMAIN sets
            V == {NoPair} \union {OwnPair(s, v) : s \in D}
            base == [s \in D |-> IF v \in Own(s) THEN OwnPair(s, v) ELSE NoPair]
            step == [p \in D \X V |-> IF v \in Own(p[1]) THEN OwnPair(p[1], v) ELSE p[2]]
            Is(g) == g = [s \in D |-> IF v \in Own(s) THEN OwnPair(s, v)
                                      ELSE IF HasParent(s) THEN g[sets[s].parent] ELSE NoPair]
<1>1. \A s \in D : sets[s].parent # AnyError => sets[s].parent \in D
  BY DEF IsFamily
<1>2. base \in [D -> V] /\ step \in [D \X V -> V]
  OBVIOUS
<1>3. \E g : IsInFamily(g, sets, V, base, step)
  <2>. HIDE DEF V, base, step
  <2>. QED BY <1>2, FamilyRecursion
<1>4. PICK g \in [D -> V] : \A s \in D :
        g[s] = IF sets[s].parent = AnyError THEN base[s] ELSE step[<<s, g[sets[s].parent]>>]
  BY <1>3 DEF IsInFamily
<1>5. \A s \in D : g[s] = IF v \in Own(s) THEN OwnPair(s, v)
                          ELSE IF HasParent(s) THEN g[sets[s].parent] ELSE NoPair
  <2>1. \A s \in D : sets[s].parent # AnyError =>
          step[<<s, g[sets[s].parent]>>] = IF v \in Own(s) THEN OwnPair(s, v) ELSE g[sets[s].parent]
    BY <1>1, <1>4
  <2>. QED BY <1>4, <2>1 DEF HasParent
<1>6. Is(g)
  BY <1>4, <1>5
<1>. DEFINE pair == CHOOSE k : k = [t \in DOMAIN sets |->
                      LET own == sets[t].values
                      IN  IF \E i \in DOMAIN own : own[i] = v
                            THEN <<NumberOf(t, First(own, v)), sets[t].messages[First(own, v)]>>
                            ELSE IF HasParent(t) THEN k[sets[t].parent] ELSE NoPair]
<1>7. \A k : Is(k) <=> k = [t \in DOMAIN sets |->
                      LET own == sets[t].values
                      IN  IF \E i \in DOMAIN own : own[i] = v
                            THEN <<NumberOf(t, First(own, v)), sets[t].messages[First(own, v)]>>
                            ELSE IF HasParent(t) THEN k[sets[t].parent] ELSE NoPair]
  BY DEF Own, OwnPair
<1>8. Is(pair)
  BY <1>6, <1>7
<1>9. \A s \in D : get_id_msg_pair_of_value(s, v) = pair[s]
  BY DEF get_id_msg_pair_of_value
<1>10. \A s \in D : pair[s] = IF v \in Own(s) THEN OwnPair(s, v)
                              ELSE IF HasParent(s) THEN pair[sets[s].parent] ELSE NoPair
  <2>. HIDE DEF pair
  <2>. QED BY <1>8
<1>. HIDE DEF pair
<1>. QED BY <1>1, <1>9, <1>10 DEF HasParent

(* The name of a number that is not one of the parent. *)
OwnName(s, n) ==
  LET own == n - IF HasParent(s) THEN get_value_count(sets[s].parent) ELSE 0
  IN  IF own + 1 \in DOMAIN sets[s].values THEN sets[s].values[own + 1] ELSE Unknown

(* get_err_val_str goes to the parent for the numbers the parent has. *)
LEMMA NamesOfNumbers ==
  ASSUME IsFamily(sets), NEW n
  PROVE  \A s \in DOMAIN sets :
           get_err_val_str(s, n) = IF InParent(s, n) THEN get_err_val_str(sets[s].parent, n) ELSE OwnName(s, n)
<1>. DEFINE D == DOMAIN sets
            V == {OwnName(s, n) : s \in D}
            base == [s \in D |-> OwnName(s, n)]
            step == [p \in D \X V |-> IF InParent(p[1], n) THEN p[2] ELSE OwnName(p[1], n)]
            Is(g) == g = [s \in D |-> IF InParent(s, n) THEN g[sets[s].parent] ELSE OwnName(s, n)]
<1>1. \A s \in D : sets[s].parent # AnyError => sets[s].parent \in D
  BY DEF IsFamily
<1>2. base \in [D -> V] /\ step \in [D \X V -> V]
  OBVIOUS
<1>3. \E g : IsInFamily(g, sets, V, base, step)
  <2>. HIDE DEF V, base, step
  <2>. QED BY <1>2, FamilyRecursion
<1>4. PICK g \in [D -> V] : \A s \in D :
        g[s] = IF sets[s].parent = AnyError THEN base[s] ELSE step[<<s, g[sets[s].parent]>>]
  BY <1>3 DEF IsInFamily
<1>5. \A s \in D : g[s] = IF InParent(s, n) THEN g[sets[s].parent] ELSE OwnName(s, n)
  <2>1. \A s \in D : sets[s].parent # AnyError =>
          step[<<s, g[sets[s].parent]>>] = IF InParent(s, n) THEN g[sets[s].parent] ELSE OwnName(s, n)
    BY <1>1, <1>4
  <2>2. \A s \in D : sets[s].parent = AnyError => ~InParent(s, n)
    BY DEF InParent, HasParent
  <2>3. \A s \in D : base[s] = OwnName(s, n)
    OBVIOUS
  <2>. HIDE DEF base, step
  <2>. QED BY <1>4, <2>1, <2>2, <2>3
<1>6. Is(g)
  BY <1>4, <1>5
<1>. DEFINE name == CHOOSE k : k = [s \in DOMAIN sets |->
                      IF InParent(s, n) THEN k[sets[s].parent]
                      ELSE LET own == n - IF HasParent(s) THEN get_value_count(sets[s].parent) ELSE 0
                           IN  IF own + 1 \in DOMAIN sets[s].values THEN sets[s].values[own + 1] ELSE Unknown]
<1>7. \A k : Is(k) <=> k = [s \in DOMAIN sets |->
                      IF InParent(s, n) THEN k[sets[s].parent]
                      ELSE LET own == n - IF HasParent(s) THEN get_value_count(sets[s].parent) ELSE 0
                           IN  IF own + 1 \in DOMAIN sets[s].values THEN sets[s].values[own + 1] ELSE Unknown]
  BY DEF OwnName
<1>8. Is(name)
  BY <1>6, <1>7
<1>9. \A s \in D : get_err_val_str(s, n) = name[s]
  BY DEF get_err_val_str
<1>10. \A s \in D : name[s] = IF InParent(s, n) THEN name[sets[s].parent] ELSE OwnName(s, n)
  <2>. HIDE DEF name
  <2>. QED BY <1>8
<1>. HIDE DEF name
<1>. QED BY <1>1, <1>9, <1>10 DEF InParent, HasParent

(* The first place of a value. *)
LEMMA FirstIs ==
  ASSUME NEW E, NEW values \in Seq(E), NEW v, \E i \in DOMAIN values : values[i] = v
  PROVE  First(values, v) \in DOMAIN values /\ values[First(values, v)] = v
<1>. DEFINE S == {i \in DOMAIN values : values[i] = v}
<1>1. \A i \in DOMAIN values : i \in Nat /\ i >= 1 /\ \A j \in 1 .. (i - 1) : j \in DOMAIN values /\ j < i
  OBVIOUS
<1>2. PICK m \in S : \A k \in S : m <= k
  <2>1. S \subseteq Nat /\ S # {}
    BY <1>1
  <2>. HIDE DEF S
  <2>. QED BY <2>1, LeastNatural
<1>3. m \in DOMAIN values /\ values[m] = v /\ \A j \in 1 .. (m - 1) : values[j] # v
  <2>1. ASSUME NEW j \in 1 .. (m - 1), values[j] = v
        PROVE  FALSE
    <3>1. j \in DOMAIN values /\ j < m /\ m \in Nat /\ j \in Nat
      BY <1>1, <1>2
    <3>2. j \in S
      BY <2>1, <3>1
    <3>. QED BY <1>2, <3>1, <3>2
  <2>. QED BY <1>2, <2>1
<1>. QED BY <1>3 DEF First

(* The one set that defines a value of s. *)
IsDefiner(s, v, d) ==
  /\ d \in {s} \union Ancestors[s] /\ v \in Own(d)
  /\ \A t \in {s} \union Ancestors[s] : v \in Own(t) => t = d

(* What a value has: a number below the count, from which its name comes
   back, and the message it was defined with. *)
HasNumber(s, v) ==
  LET pair == get_id_msg_pair_of_value(s, v)
  IN  /\ pair # NoPair
      /\ pair[1] \in Nat /\ pair[1] < get_value_count(s)
      /\ get_err_val_str(s, pair[1]) = v
      /\ \E d : IsDefiner(s, v, d) /\ pair[2] = sets[d].messages[First(sets[d].values, v)]

(* A value that a set defines: the values of the parent have the numbers
   below it. *)
LEMMA OwnIsNumbered ==
  ASSUME IsFamily(sets), ~Redefines(sets), NEW s \in DOMAIN sets, NEW v \in Own(s)
  PROVE  HasNumber(s, v)
<1>. DEFINE i == First(sets[s].values, v)
            n == NumberOf(s, i)
            above == IF HasParent(s) THEN get_value_count(sets[s].parent) ELSE 0
<1>1. sets[s].values \in Seq(STRING \ {Else})
  BY DEF IsFamily
<1>2. i \in DOMAIN sets[s].values /\ sets[s].values[i] = v
  BY <1>1, FirstIs DEF Own
<1>3. get_value_count(s) = Len(sets[s].values) + above /\ above \in Nat
  BY CountsAre DEF IsFamily, HasParent
<1>4. i \in Nat /\ i >= 1 /\ i <= Len(sets[s].values) /\ Len(sets[s].values) \in Nat
  BY <1>1, <1>2
<1>5. n = above + i - 1 /\ n \in Nat /\ n < get_value_count(s)
  <2>. HIDE DEF i, above
  <2>. QED BY <1>3, <1>4 DEF NumberOf
<1>6. get_id_msg_pair_of_value(s, v) = <<n, sets[s].messages[i]>>
  BY PairsAre DEF OwnPair
<1>7. get_err_val_str(s, n) = v
  <2>1. ~InParent(s, n)
    <3>. HIDE DEF i, n
    <3>1. CASE HasParent(s)
      <4>1. above = get_value_count(sets[s].parent)
        BY <3>1
      <4>2. ~(n < above)
        <5>. HIDE DEF above
        <5>. QED BY <1>3, <1>4, <1>5
      <4>. QED BY <4>1, <4>2 DEF InParent
    <3>2. CASE ~HasParent(s)
      BY <3>2 DEF InParent
    <3>. QED BY <3>1, <3>2
  <2>2. (n - above) + 1 = i
    <3>. HIDE DEF i, n, above
    <3>. QED BY <1>3, <1>4, <1>5
  <2>3. OwnName(s, n) = IF (n - above) + 1 \in DOMAIN sets[s].values THEN sets[s].values[(n - above) + 1] ELSE Unknown
    BY DEF OwnName
  <2>. HIDE DEF i, n, above
  <2>. QED BY <1>2, <2>1, <2>2, <2>3, NamesOfNumbers
<1>8. IsDefiner(s, v, s)
  <2>1. ASSUME NEW t \in Ancestors[s], v \in Own(t)
        PROVE  FALSE
    <3>1. PICK j \in DOMAIN sets[t].values : sets[t].values[j] = v
      BY <2>1 DEF Own
    <3>2. sets[s].parent # AnyError
      BY <2>1, AncestorsAre DEF Ancestors
    <3>. QED BY <1>2, <2>1, <3>1, <3>2 DEF Redefines, Ancestors
  <2>. QED BY <2>1 DEF IsDefiner
<1>9. <<n, sets[s].messages[i]>> # NoPair /\ <<n, sets[s].messages[i]>>[1] = n /\ <<n, sets[s].messages[i]>>[2] = sets[s].messages[i]
  BY DEF NoPair
<1>. QED BY <1>5, <1>6, <1>7, <1>8, <1>9 DEF HasNumber

(* A value that the parent has, and the set does not define again. *)
LEMMA InheritedIsNumbered ==
  ASSUME IsFamily(sets), NEW s \in DOMAIN sets, HasParent(s), NEW v, v \notin Own(s),
         HasNumber(sets[s].parent, v)
  PROVE  HasNumber(s, v)
<1>. DEFINE p == sets[s].parent
            pair == get_id_msg_pair_of_value(p, v)
<1>1. p \in DOMAIN sets
  BY DEF IsFamily, HasParent
<1>2. get_id_msg_pair_of_value(s, v) = pair
  BY PairsAre
<1>3. pair # NoPair /\ pair[1] \in Nat /\ pair[1] < get_value_count(p) /\ get_err_val_str(p, pair[1]) = v
  BY DEF HasNumber
<1>4. pair[1] < get_value_count(s)
  <2>1. get_value_count(s) = Len(sets[s].values) + get_value_count(p) /\ get_value_count(p) \in Nat
    BY <1>1, CountsAre
  <2>2. Len(sets[s].values) \in Nat
    BY DEF IsFamily
  <2>. HIDE DEF p, pair
  <2>. QED BY <1>3, <2>1, <2>2
<1>5. get_err_val_str(s, pair[1]) = v
  <2>1. InParent(s, pair[1])
    BY <1>3 DEF InParent
  <2>. HIDE DEF pair
  <2>. QED BY <1>3, <2>1, NamesOfNumbers
<1>6. \E d : IsDefiner(s, v, d) /\ pair[2] = sets[d].messages[First(sets[d].values, v)]
  <2>1. PICK d : IsDefiner(p, v, d) /\ pair[2] = sets[d].messages[First(sets[d].values, v)]
    BY DEF HasNumber
  <2>2. Ancestors[s] = {p} \union Ancestors[p]
    BY AncestorsAre DEF Ancestors, HasParent
  <2>3. IsDefiner(s, v, d)
    <3>. HIDE DEF p
    <3>. QED BY <2>1, <2>2 DEF IsDefiner
  <2>. QED BY <2>1, <2>3
<1>. QED BY <1>2, <1>3, <1>4, <1>5, <1>6 DEF HasNumber

(* Every value of a set has a number. *)
LEMMA ValuesAreNumbered ==
  ASSUME IsFamily(sets), ~Redefines(sets)
  PROVE  \A s \in DOMAIN sets : \A v \in ValueNames(s) : HasNumber(s, v)
<1>. DEFINE T == {s \in DOMAIN sets : \A v \in ValueNames(s) : HasNumber(s, v)}
<1>1. \A s \in DOMAIN sets :
        ValueNames(s) = Own(s) \union IF HasParent(s) THEN ValueNames(sets[s].parent) ELSE {}
  BY NamesAre
<1>2. ASSUME NEW s \in DOMAIN sets, sets[s].parent = AnyError \/ sets[s].parent \in T, NEW v \in ValueNames(s)
      PROVE  HasNumber(s, v)
  <2>1. CASE v \in Own(s)
    BY <2>1, OwnIsNumbered
  <2>2. CASE v \notin Own(s)
    <3>1. HasParent(s) /\ v \in ValueNames(sets[s].parent)
      BY <1>1, <2>2
    <3>2. HasNumber(sets[s].parent, v)
      BY <1>2, <3>1 DEF HasParent
    <3>. QED BY <2>2, <3>1, <3>2, InheritedIsNumbered
  <2>. QED BY <2>1, <2>2
<1>3. \A s \in DOMAIN sets : sets[s].parent = AnyError \/ sets[s].parent \in T => s \in T
  BY <1>2
<1>4. DOMAIN sets \subseteq T
  <2>. HIDE DEF T
  <2>. QED BY <1>3, FamilyInduction
<1>. QED BY <1>4

(* The message that is expected is the one the set that defines the value
   has for it. *)
LEMMA MessagesAre ==
  ASSUME IsFamily(sets), ~Redefines(sets), NEW s \in DOMAIN sets, NEW v \in ValueNames(s)
  PROVE  get_id_msg_pair_of_value(s, v)[2] = MessageOf(s, v)
<1>1. PICK d : /\ IsDefiner(s, v, d)
               /\ get_id_msg_pair_of_value(s, v)[2] = sets[d].messages[First(sets[d].values, v)]
  BY ValuesAreNumbered DEF HasNumber
<1>. DEFINE definer == CHOOSE t \in {s} \union Ancestors[s] : \E i \in DOMAIN sets[t].values : sets[t].values[i] = v
<1>2. definer = d
  <2>1. d \in {s} \union Ancestors[s] /\ \E i \in DOMAIN sets[d].values : sets[d].values[i] = v
    BY <1>1 DEF IsDefiner, Own
  <2>2. definer \in {s} \union Ancestors[s] /\ \E i \in DOMAIN sets[definer].values : sets[definer].values[i] = v
    BY <2>1
  <2>. HIDE DEF definer
  <2>. QED BY <1>1, <2>2 DEF IsDefiner, Own
<1>3. MessageOf(s, v) = sets[definer].messages[First(sets[definer].values, v)]
  BY DEF MessageOf
<1>. HIDE DEF definer
<1>. QED BY <1>1, <1>2, <1>3

(* Two values of a set have two numbers. *)
LEMMA NumbersDiffer ==
  ASSUME IsFamily(sets), ~Redefines(sets), NEW s \in DOMAIN sets, NEW v \in ValueNames(s), NEW w \in ValueNames(s),
         get_id_msg_pair_of_value(s, v)[1] = get_id_msg_pair_of_value(s, w)[1]
  PROVE  v = w
BY ValuesAreNumbered DEF HasNumber

(* A set has at most as many values as it counts. *)
LEMMA CountsBound ==
  ASSUME IsFamily(sets), ~Redefines(sets), NEW s \in DOMAIN sets
  PROVE  IsFiniteSet(ValueNames(s)) /\ Cardinality(ValueNames(s)) <= get_value_count(s)
<1>. DEFINE n == get_value_count(s)
            S == ValueNames(s)
            U == 0 .. (n - 1)
            f == [v \in S |-> get_id_msg_pair_of_value(s, v)[1]]
<1>1. n \in Nat
  BY CountsAre
<1>2. \A v \in S : f[v] \in U
  <2>1. \A v \in S : f[v] \in Nat /\ f[v] < n
    BY ValuesAreNumbered DEF HasNumber
  <2>. HIDE DEF f, n, S
  <2>. QED BY <1>1, <2>1
<1>3. \A v, w \in S : f[v] = f[w] => v = w
  BY NumbersDiffer
<1>4. f \in Injection(S, U)
  <2>. HIDE DEF U
  <2>. QED BY <1>2, <1>3 DEF Injection, IsInjective
<1>5. IsFiniteSet(U) /\ Cardinality(U) = n
  <2>. HIDE DEF n
  <2>1. IsFiniteSet(U) /\ Cardinality(U) = IF 0 > n - 1 THEN 0 ELSE n - 1 - 0 + 1
    BY <1>1, FS_Interval
  <2>. QED BY <1>1, <2>1
<1>. HIDE DEF S, U, f, n
<1>6. IsFiniteSet(S) /\ Cardinality(S) <= Cardinality(U)
  BY <1>4, <1>5, FS_Injection
<1>. QED BY <1>5, <1>6 DEF S, n

(* A value keeps its number in the sets that extend the set it is of. *)
LEMMA CastsKeepNumbers ==
  ASSUME IsFamily(sets), ~Redefines(sets), NEW s \in DOMAIN sets, NEW v \in ValueNames(s)
  PROVE  \A to \in DOMAIN sets : is_parent_of(s, to) =>
           v \in ValueNames(to) /\ get_id_msg_pair_of_value(to, v) = get_id_msg_pair_of_value(s, v)
<1>. DEFINE Carried(to) == v \in ValueNames(to) /\ get_id_msg_pair_of_value(to, v) = get_id_msg_pair_of_value(s, v)
            T == {to \in DOMAIN sets : is_parent_of(s, to) => Carried(to)}
<1>1. ASSUME NEW to \in DOMAIN sets, sets[to].parent = AnyError \/ sets[to].parent \in T, is_parent_of(s, to)
      PROVE  Carried(to)
  <2>. DEFINE p == sets[to].parent
  <2>1. HasParent(to) /\ p \in DOMAIN sets /\ s \in {p} \union Ancestors[p] /\ Ancestors[to] = {p} \union Ancestors[p]
    BY <1>1, AncestorsAre DEF is_parent_of, Ancestors, HasParent, IsFamily
  <2>2. Carried(p)
    <3>1. CASE s = p
      BY <3>1
    <3>2. CASE s # p
      BY <1>1, <2>1, <3>2 DEF is_parent_of, HasParent
    <3>. QED BY <3>1, <3>2
  <2>3. v \notin Own(to)
    <3>1. SUFFICES ASSUME v \in Own(to)
                   PROVE  FALSE
      OBVIOUS
    <3>2. PICK t \in {s} \union Ancestors[s] : v \in Own(t)
      BY DEF ValueNames, Own
    <3>3. t \in Ancestors[to]
      <4>1. s \in Ancestors[to]
        BY <2>1
      <4>2. Ancestors[s] \subseteq Ancestors[to]
        BY <4>1, AncestorsClimb DEF Ancestors
      <4>. QED BY <3>2, <4>1, <4>2
    <3>4. PICK i \in DOMAIN sets[to].values, j \in DOMAIN sets[t].values : sets[to].values[i] = v /\ sets[t].values[j] = v
      BY <3>1, <3>2 DEF Own
    <3>5. sets[t].values[j] = sets[to].values[i] /\ sets[to].parent # AnyError /\ t \in AncestorsIn(sets)[to]
      BY <2>1, <3>3, <3>4 DEF Ancestors, HasParent
    <3>. QED BY <3>4, <3>5 DEF Redefines
  <2>4. v \in ValueNames(to)
    BY <2>1, <2>2, NamesAre
  <2>5. get_id_msg_pair_of_value(to, v) = get_id_msg_pair_of_value(p, v)
    BY <2>1, <2>3, PairsAre
  <2>. QED BY <2>2, <2>4, <2>5
<1>2. \A to \in DOMAIN sets : sets[to].parent = AnyError \/ sets[to].parent \in T => to \in T
  BY <1>1
<1>3. DOMAIN sets \subseteq T
  <2>. HIDE DEF T
  <2>. QED BY <1>2, FamilyInduction
<1>. QED BY <1>3

----------------------------------------
(* The error sets of a function. *)

(* Of lines with at most one anonymous error on each, all errors get into
   the anonymous set, and nothing else does. *)
LEMMA AnonymousValuesAre ==
  ASSUME NEW E, NEW lines \in Seq(Seq(E))
  PROVE  /\ AnonymousValues(lines) \in Seq(E)
         /\ (\A n \in DOMAIN lines : Len(lines[n]) <= 1) =>
              WrittenIn(lines) \subseteq {AnonymousValues(lines)[i] : i \in DOMAIN AnonymousValues(lines)}
<1>. DEFINE N == Len(lines)
            S == Seq(E)
            Longer(n, list) == IF lines[n] = <<>> \/ \E i \in DOMAIN list : list[i] = Head(lines[n])
                              THEN list ELSE Append(list, Head(lines[n]))
            step == [p \in (1 .. N) \X S |-> Longer(p[1], p[2])]
            Is(g) == g = [n \in 0 .. N |-> IF n = 0 THEN <<>> ELSE Longer(n, g[n - 1])]
            seen == CHOOSE g : Is(g)
<1>0. N \in Nat /\ DOMAIN lines = 1 .. N /\ \A n \in 1 .. N : lines[n] \in Seq(E)
  OBVIOUS
<1>1. <<>> \in S /\ step \in [(1 .. N) \X S -> S]
  <2>1. ASSUME NEW n \in 1 .. N, NEW list \in S
        PROVE  Longer(n, list) \in S
    <3>1. CASE lines[n] = <<>>
      BY <3>1
    <3>2. CASE lines[n] # <<>>
      <4>1. Head(lines[n]) \in E
        BY <1>0, <3>2
      <4>2. Append(list, Head(lines[n])) \in S
        BY <4>1
      <4>. QED BY <4>2
    <3>. QED BY <3>1, <3>2
  <2>. HIDE DEF S, N, Longer
  <2>2. step \in [(1 .. N) \X S -> S]
    BY <2>1
  <2>. QED BY <2>2 DEF S
<1>2. \E g : IsNumbered(g, S, <<>>, N, step)
  <2>. HIDE DEF S, N, step
  <2>. QED BY <1>0, <1>1, NumberedIteration
<1>3. PICK g : IsNumbered(g, S, <<>>, N, step)
  BY <1>2
<1>4. g \in [0 .. N -> S] /\ g[0] = <<>> /\ \A n \in 1 .. N : g[n] = Longer(n, g[n - 1])
  <2>1. g \in [0 .. N -> S] /\ g[0] = <<>> /\ \A n \in 1 .. N : g[n] = step[<<n, g[n - 1]>>]
    BY <1>3 DEF IsNumbered
  <2>2. \A n \in 1 .. N : n - 1 \in 0 .. N
    BY <1>0
  <2>. HIDE DEF N, S, Longer
  <2>. QED BY <2>1, <2>2
<1>5. Is(g)
  <2>1. \A n \in 0 .. N : n # 0 => n \in 1 .. N
    BY <1>0
  <2>. HIDE DEF N, S, Longer
  <2>. QED BY <1>4, <2>1
<1>6. Is(seen)
  BY <1>5
<1>7. AnonymousValues(lines) = seen[N]
  BY DEF AnonymousValues
<1>. HIDE DEF seen
<1>8. seen[0] = <<>> /\ \A n \in 1 .. N : seen[n] = Longer(n, seen[n - 1])
  <2>1. \A n \in 1 .. N : n # 0 /\ n \in 0 .. N
    BY <1>0
  <2>2. 0 \in 0 .. N
    BY <1>0
  <2>. HIDE DEF N, Longer
  <2>. QED BY <1>6, <2>1, <2>2
<1>. DEFINE All(n) == /\ seen[n] \in S
                      /\ \A k \in 1 .. n : lines[k] # <<>> => Head(lines[k]) \in Elems(seen[n])
            T == {n \in Nat : n <= N => All(n)}
<1>9. 0 \in T
  <2>1. \A k \in 1 .. 0 : FALSE
    OBVIOUS
  <2>. QED BY <1>1, <1>8, <2>1
<1>10. ASSUME NEW n \in Nat, n \in T
       PROVE  n + 1 \in T
  <2>. SUFFICES ASSUME n + 1 <= N
                PROVE  All(n + 1)
    OBVIOUS
  <2>1. n + 1 \in 1 .. N /\ (n + 1) - 1 = n /\ n <= N
    BY <1>0
  <2>2. All(n)
    BY <1>10, <2>1
  <2>3. seen[n + 1] = Longer(n + 1, seen[n])
    BY <1>8, <2>1
  <2>4. \A k \in 1 .. (n + 1) : k # n + 1 => k \in 1 .. n
    OBVIOUS
  <2>5. CASE lines[n + 1] = <<>> \/ \E i \in DOMAIN seen[n] : seen[n][i] = Head(lines[n + 1])
    <3>1. seen[n + 1] = seen[n]
      BY <2>3, <2>5
    <3>2. lines[n + 1] # <<>> => Head(lines[n + 1]) \in Elems(seen[n])
      BY <2>5 DEF Elems
    <3>. QED BY <2>2, <2>4, <3>1, <3>2
  <2>6. CASE ~(lines[n + 1] = <<>> \/ \E i \in DOMAIN seen[n] : seen[n][i] = Head(lines[n + 1]))
    <3>. DEFINE e == Head(lines[n + 1])
    <3>1. seen[n + 1] = Append(seen[n], e)
      BY <2>3, <2>6
    <3>2. e \in E
      BY <1>0, <2>1, <2>6
    <3>3. seen[n] \in Seq(E) /\ e \notin Elems(seen[n])
      BY <2>2, <2>6 DEF Elems
    <3>4. Append(seen[n], e) \in Seq(E) /\ Elems(Append(seen[n], e)) = Elems(seen[n]) \cup {e}
      <4>. HIDE DEF e, S
      <4>. QED BY <3>2, <3>3, AppendElems
    <3>. QED BY <2>2, <2>4, <3>1, <3>4
  <2>. QED BY <2>5, <2>6
<1>11. All(N)
  <2>1. Nat \subseteq T
    <3>. HIDE DEF T
    <3>. QED BY <1>9, <1>10, SetInduction
  <2>. QED BY <1>0, <2>1
<1>12. ASSUME \A n \in DOMAIN lines : Len(lines[n]) <= 1, NEW v \in WrittenIn(lines)
       PROVE  v \in Elems(seen[N])
  <2>1. PICK n \in DOMAIN lines : \E i \in DOMAIN lines[n] : v = lines[n][i]
    BY DEF WrittenIn
  <2>2. PICK i \in DOMAIN lines[n] : v = lines[n][i]
    BY <2>1
  <2>3. lines[n] \in Seq(E) /\ n \in 1 .. N /\ Len(lines[n]) <= 1
    BY <1>0, <1>12
  <2>4. i = 1 /\ lines[n] # <<>>
    BY <2>3
  <2>5. v = Head(lines[n])
    BY <2>2, <2>3, <2>4
  <2>. QED BY <1>11, <2>3, <2>4, <2>5
<1>. QED BY <1>7, <1>11, <1>12 DEF Elems

(* Without an anonymous error there is no anonymous set. *)
LEMMA AnonymousSets ==
  ASSUME NEW lines, NEW values, values = AnonymousValues(lines)
  PROVE  /\ values = <<>> => AnonymousSet(lines) = <<>>
         /\ values # <<>> =>
              /\ DOMAIN AnonymousSet(lines) = {Anonymous}
              /\ AnonymousSet(lines)[Anonymous].parent = AnyError
              /\ AnonymousSet(lines)[Anonymous].values = values
              /\ DOMAIN AnonymousSet(lines)[Anonymous].messages = DOMAIN values
BY DEF AnonymousSet, create_error

(* With the anonymous set, too, the sets are a family, and an error that
   is written down is in it. *)
LEMMA MergedFamilies ==
  ASSUME NEW family, IsFamily(family), Anonymous \notin DOMAIN family, ~Redefines(family),
         NEW lines \in Seq(Seq(STRING \ {Else})), \A n \in DOMAIN lines : Len(lines[n]) <= 1,
         NEW all, all = Merged(family, AnonymousSet(lines))
  PROVE  /\ IsFamily(all) /\ ~Redefines(all)
         /\ Anonymous \in DOMAIN all => /\ all[Anonymous].parent = AnyError
                                        /\ WrittenIn(lines) \subseteq {all[Anonymous].values[i] : i \in DOMAIN all[Anonymous].values}
<1>. DEFINE values == AnonymousValues(lines)
            own == AnonymousSet(lines)
            D == DOMAIN family
<1>1. values \in Seq(STRING \ {Else}) /\ WrittenIn(lines) \subseteq {values[i] : i \in DOMAIN values}
  BY AnonymousValuesAre
<1>2. /\ DOMAIN own = IF values = <<>> THEN {} ELSE {Anonymous}
      /\ \A s \in DOMAIN own : /\ own[s].parent = AnyError /\ own[s].values = values
                               /\ DOMAIN own[s].messages = DOMAIN values
  <2>1. values = <<>> => DOMAIN own = {}
    BY AnonymousSets
  <2>2. values # <<>> => DOMAIN own = {Anonymous}
    BY AnonymousSets
  <2>3. \A s \in DOMAIN own : values # <<>> /\ s = Anonymous
    BY <2>1, <2>2
  <2>4. \A s \in DOMAIN own : /\ own[s].parent = AnyError /\ own[s].values = values
                              /\ DOMAIN own[s].messages = DOMAIN values
    BY <2>3, AnonymousSets
  <2>. HIDE DEF own, values
  <2>. QED BY <2>1, <2>2, <2>4
<1>3. DOMAIN all = D \union DOMAIN own /\ \A s \in D \union DOMAIN own : all[s] = IF s \in D THEN family[s] ELSE own[s]
  BY DEF Merged
<1>. HIDE DEF values, own
<1>4. /\ \A s \in D : all[s] = family[s]
      /\ \A s \in DOMAIN all \ D : /\ s = Anonymous /\ all[s].parent = AnyError /\ all[s].values = values
                                   /\ DOMAIN all[s].messages = DOMAIN values
  BY <1>2, <1>3
<1>5. IsFiniteSet(DOMAIN all) /\ Cardinality(DOMAIN all) \in Nat /\ Cardinality(DOMAIN all) >= Cardinality(D)
      /\ Cardinality(D) \in Nat /\ \A s \in DOMAIN all : Cardinality(DOMAIN all) >= 1
  <2>1. IsFiniteSet(D)
    BY DEF IsFamily
  <2>2. IsFiniteSet(DOMAIN own)
    BY <1>2, FS_EmptySet, FS_Singleton
  <2>3. IsFiniteSet(DOMAIN all)
    BY <1>3, <2>1, <2>2, FS_Union
  <2>4. Cardinality(D) <= Cardinality(DOMAIN all) /\ D \subseteq DOMAIN all
    BY <1>3, <2>3, FS_Subset
  <2>5. Cardinality(DOMAIN all) \in Nat /\ Cardinality(D) \in Nat
    BY <2>1, <2>3, FS_CardinalityType
  <2>6. Cardinality(DOMAIN all) = 0 <=> DOMAIN all = {}
    BY <2>3, FS_EmptySet
  <2>. QED BY <2>3, <2>4, <2>5, <2>6
<1>6. PICK rank \in [D -> 1 .. Cardinality(D)] :
        \A s \in D : family[s].parent # AnyError => rank[family[s].parent] < rank[s]
  BY DEF IsFamily
<1>. DEFINE r == [s \in DOMAIN all |-> IF s \in D THEN rank[s] ELSE 1]
<1>7. \A s \in D : family[s].parent # AnyError => family[s].parent \in D
  BY DEF IsFamily
<1>8. r \in [DOMAIN all -> 1 .. Cardinality(DOMAIN all)]
  <2>1. \A s \in DOMAIN all : r[s] \in 1 .. Cardinality(DOMAIN all)
    BY <1>5, <1>6
  <2>. QED BY <2>1
<1>9. \A s \in DOMAIN all : all[s].parent # AnyError => r[all[s].parent] < r[s]
  BY <1>3, <1>4, <1>6, <1>7
<1>10. {AnyError, Else, Merge} \cap DOMAIN all = {}
  BY <1>2, <1>3 DEF IsFamily, AnyError, Else, Merge, Anonymous
<1>11. \A s \in DOMAIN all : /\ all[s].parent \in DOMAIN all \union {AnyError}
                             /\ all[s].values \in Seq(STRING \ {Else})
                             /\ DOMAIN all[s].messages = DOMAIN all[s].values
  BY <1>1, <1>3, <1>4 DEF IsFamily
<1>12. IsFamily(all)
  <2>. HIDE DEF r
  <2>. QED BY <1>5, <1>8, <1>9, <1>10, <1>11 DEF IsFamily
<1>13. \A s \in D : AncestorsIn(all)[s] = AncestorsIn(family)[s]
  <2>. DEFINE above == AncestorsIn(family)
              beyond == AncestorsIn(all)
              T == {s \in D : beyond[s] = above[s]}
  <2>1. \A s \in D : above[s] = IF family[s].parent = AnyError THEN {} ELSE {family[s].parent} \union above[family[s].parent]
    BY AncestorsAre
  <2>2. \A s \in D : beyond[s] = IF all[s].parent = AnyError THEN {} ELSE {all[s].parent} \union beyond[all[s].parent]
    BY <1>3, <1>12, AncestorsAre
  <2>. HIDE DEF above, beyond
  <2>3. ASSUME NEW s \in D, family[s].parent = AnyError \/ family[s].parent \in T
        PROVE  s \in T
    <3>1. all[s].parent = family[s].parent
      BY <1>4
    <3>2. above[s] = IF family[s].parent = AnyError THEN {} ELSE {family[s].parent} \union above[family[s].parent]
      BY <2>1
    <3>3. beyond[s] = IF family[s].parent = AnyError THEN {} ELSE {family[s].parent} \union beyond[family[s].parent]
      BY <2>2, <3>1
    <3>. QED BY <2>3, <3>2, <3>3
  <2>4. D \subseteq T
    <3>. HIDE DEF T
    <3>. QED BY <2>3, FamilyInduction
  <2>. QED BY <2>4 DEF above, beyond
<1>14. ~Redefines(all)
  <2>1. SUFFICES ASSUME NEW s \in DOMAIN all, all[s].parent # AnyError,
                        NEW i \in DOMAIN all[s].values, NEW t \in AncestorsIn(all)[s],
                        NEW j \in DOMAIN all[t].values, all[t].values[j] = all[s].values[i]
                 PROVE  FALSE
    BY DEF Redefines
  <2>2. s \in D /\ all[s] = family[s]
    BY <1>4, <2>1
  <2>3. t \in AncestorsIn(family)[s] /\ t \in D /\ all[t] = family[t]
    BY <1>4, <1>13, <2>2, AncestorsAre
  <2>. QED BY <2>1, <2>2, <2>3 DEF Redefines
<1>15. Anonymous \in DOMAIN all => all[Anonymous].parent = AnyError /\ all[Anonymous].values = values
  BY <1>4
<1>. QED BY <1>1, <1>12, <1>14, <1>15

----------------------------------------
(* The invariant. *)

AnonymousAreKnown == Anonymous \in DOMAIN sets => WrittenIn(body) \subseteq ValueNames(Anonymous)
SetsAreSound == IsFamily(sets) /\ ~Redefines(sets) /\ AnonymousAreKnown

(* What is known of an error, and what the program calls it, agree: the
   set has the value, and the number and the message are those of it. *)
IsCalled(e, name) ==
  /\ name.set \in DOMAIN sets /\ name.value \in ValueNames(name.set)
  /\ e.type_id = name.set /\ e.value_id = get_id_msg_pair_of_value(name.set, name.value)[1]
  /\ e.message = name.message
ErrorIsNamed == progress \in {"raised", "caught"} => IsCalled(err, named)

Fields ==
  /\ err = [type_id |-> err.type_id, value_id |-> err.value_id, message |-> err.message]
  /\ named = [set |-> named.set, value |-> named.value, message |-> named.message]

StaticIsRight ==
  /\ static.is = "set" => err.type_id = static.set
  /\ static.is = "variant" => static.sets \subseteq DOMAIN sets

ErrorsInv == SetsAreSound /\ Fields /\ ErrorIsNamed /\ StaticIsRight /\ ErrorsKeepTheirName

(* The sets stay what they are, and with them all that is known of them. *)
LEMMA SetsStay ==
  ASSUME SetsAreSound, sets' = sets, body' = body
  PROVE  SetsAreSound'
<1>1. ValueNames(Anonymous)' = ValueNames(Anonymous)
  BY DEF ValueNames, Ancestors
<1>. QED BY <1>1 DEF SetsAreSound, AnonymousAreKnown

(* What the next error is called, when the sets stay. *)
LEMMA CalledLater ==
  ASSUME sets' = sets, NEW e, NEW name, IsCalled(e, name), err' = e, named' = name
  PROVE  IsCalled(err, named)'
<1>1. (ValueNames(named.set))' = ValueNames(name.set)
  BY DEF ValueNames, Ancestors
<1>2. (get_id_msg_pair_of_value(named.set, named.value))' = get_id_msg_pair_of_value(name.set, name.value)
  BY DEF get_id_msg_pair_of_value, NumberOf, HasParent, get_value_count, value_count, First, NoPair
<1>. QED BY <1>1, <1>2 DEF IsCalled

(* The first step finds every error named. *)
LEMMA InitIsSound ==
  ASSUME ErrorsInit, ErrorsCareless = {}
  PROVE  ErrorsInv
<1>1. PICK family \in Families, lines \in Bodies :
        /\ ~Redefines(family) /\ \A n \in DOMAIN lines : Len(lines[n]) <= 1
        /\ sets = Merged(family, AnonymousSet(lines)) /\ body = lines
  BY DEF ErrorsInit
<1>2. IsFamily(family) /\ Anonymous \notin DOMAIN family /\ lines \in Seq(Seq(STRING \ {Else}))
  BY ErrorsAssumption
<1>3. /\ IsFamily(sets) /\ ~Redefines(sets)
      /\ Anonymous \in DOMAIN sets => /\ sets[Anonymous].parent = AnyError
                                      /\ WrittenIn(body) \subseteq Own(Anonymous)
  BY <1>1, <1>2, MergedFamilies DEF Own
<1>4. AnonymousAreKnown
  BY <1>3, NamesAre DEF AnonymousAreKnown
<1>. QED
  BY <1>3, <1>4 DEF ErrorsInit, ErrorsInv, SetsAreSound, Fields, ErrorIsNamed, StaticIsRight, ErrorsKeepTheirName,
                    RightBranchRuns, NoError, NoName, Unheld, NotSwitched

(* A throw. *)
LEMMA ThrowsAreNamed ==
  ASSUME ErrorsInv, NEW s \in DOMAIN sets, NEW v \in ValueNames(s), NEW message, ThrowLiteral(s, v, message)
  PROVE  ErrorsInv'
<1>. DEFINE pair == get_id_msg_pair_of_value(s, v)
            given == Given(message, pair[2])
            e == [type_id |-> s, value_id |-> pair[1], message |-> given]
            name == [set |-> s, value |-> v, message |-> given]
<1>1. sets' = sets /\ body' = body /\ progress' = "raised" /\ static' = Unheld /\ ran' = NotSwitched
  BY DEF ThrowLiteral, Raise
<1>2. pair[2] = MessageOf(s, v)
  BY MessagesAre DEF ErrorsInv, SetsAreSound
<1>3. err' = e /\ named' = name
  BY <1>2 DEF ThrowLiteral
<1>4. IsCalled(e, name)
  <2>. HIDE DEF pair, given
  <2>. QED BY DEF IsCalled, pair
<1>5. IsCalled(err, named)'
  <2>. HIDE DEF e, name
  <2>. QED BY <1>1, <1>3, <1>4, CalledLater
<1>6. SetsAreSound'
  BY <1>1, SetsStay DEF ErrorsInv
<1>. HIDE DEF pair, given
<1>7. Fields'
  BY <1>3 DEF Fields
<1>. QED
  BY <1>1, <1>5, <1>6, <1>7 DEF ErrorsInv, ErrorIsNamed, StaticIsRight, ErrorsKeepTheirName, RightBranchRuns,
                                Unheld, NotSwitched

(* What leaves the error alone leaves its name alone. *)
LEMMA UntouchedStaysNamed ==
  ASSUME ErrorsInv, progress \in {"raised", "caught"}, UNCHANGED <<sets, body, err, named>>
  PROVE  SetsAreSound' /\ Fields' /\ ErrorIsNamed'
<1>1. IsCalled(err, named)
  BY DEF ErrorsInv, ErrorIsNamed
<1>2. PICK e, name : e = err /\ name = named
  OBVIOUS
<1>3. IsCalled(err, named)'
  BY <1>1, <1>2, CalledLater
<1>4. Fields'
  BY DEF ErrorsInv, Fields
<1>. QED BY <1>3, <1>4, SetsStay DEF ErrorsInv, ErrorIsNamed

(* A throw of an anonymous error: the set of the function has it. *)
LEMMA AnonymousThrowsAreNamed ==
  ASSUME ErrorsInv, NEW v \in WrittenIn(body), NEW message, ThrowAnonymous(v, message)
  PROVE  ErrorsInv'
<1>1. Anonymous \in DOMAIN sets /\ v \in ValueNames(Anonymous)
  BY DEF ThrowAnonymous, ErrorsInv, SetsAreSound, AnonymousAreKnown
<1>2. get_id_msg_pair_of_value(Anonymous, v) # NoPair
  BY <1>1, ValuesAreNumbered DEF HasNumber, ErrorsInv, SetsAreSound
<1>3. ThrowLiteral(Anonymous, v, message)
  BY <1>2 DEF ThrowAnonymous
<1>. QED BY <1>1, <1>3, ThrowsAreNamed

(* An error that is thrown on. *)
LEMMA RethrowsAreNamed ==
  ASSUME ErrorsInv, ThrowVariable
  PROVE  ErrorsInv'
<1>1. SetsAreSound' /\ Fields' /\ ErrorIsNamed'
  BY UntouchedStaysNamed DEF ThrowVariable, Raise
<1>. QED
  BY <1>1 DEF ThrowVariable, Raise, ErrorsInv, StaticIsRight, ErrorsKeepTheirName, RightBranchRuns, Unheld, NotSwitched

(* A catch: whatever sets it declares. *)
LEMMA CatchesAreNamed ==
  ASSUME ErrorsInv, NEW declared \in SUBSET DOMAIN sets, create_catch(declared)
  PROVE  ErrorsInv'
<1>1. SetsAreSound' /\ Fields' /\ ErrorIsNamed'
  BY UntouchedStaysNamed DEF create_catch
<1>2. StaticIsRight'
  BY DEF create_catch, StaticIsRight, OfAnyError, OfVariant, AnyError
<1>. QED
  BY <1>1, <1>2 DEF create_catch, ErrorsInv, StaticIsRight, ErrorsKeepTheirName, RightBranchRuns, OfAnyError, OfVariant, AnyError

(* What is printed is the name: the number leads back to the value. *)
LEMMA ReportsAreNamed ==
  ASSUME ErrorsInv, Report
  PROVE  ErrorsInv'
<1>1. SetsAreSound' /\ Fields' /\ ErrorIsNamed'
  BY UntouchedStaysNamed DEF Report
<1>2. printed' = named
  <2>1. IsCalled(err, named)
    BY DEF Report, ErrorsInv, ErrorIsNamed
  <2>2. HasNumber(named.set, named.value)
    BY <2>1, ValuesAreNumbered DEF IsCalled, ErrorsInv, SetsAreSound
  <2>3. get_err_val_str(err.type_id, err.value_id) = named.value
    BY <2>1, <2>2 DEF IsCalled, HasNumber
  <2>4. get_err_type_str(err.type_id) = named.set
    BY <2>1 DEF IsCalled, get_err_type_str
  <2>5. named = [set |-> named.set, value |-> named.value, message |-> named.message]
    BY DEF ErrorsInv, Fields
  <2>6. printed' = [set |-> named.set, value |-> named.value, message |-> named.message]
    BY <2>1, <2>3, <2>4 DEF Report, get_err_str, IsCalled
  <2>. QED BY <2>5, <2>6
<1>. QED
  BY <1>1, <1>2 DEF Report, ErrorsInv, StaticIsRight, ErrorsKeepTheirName, RightBranchRuns, NotSwitched

(* A cast to a set that extends the error's: the number stays, and so does
   the value. *)
LEMMA CastsAreNamed ==
  ASSUME ErrorsInv, NEW to \in DOMAIN sets, generate_type_cast(to)
  PROVE  ErrorsInv'
<1>. DEFINE v == named.value
            e == [type_id |-> to, value_id |-> err.value_id, message |-> err.message]
            name == [set |-> to, value |-> v, message |-> named.message]
<1>1. sets' = sets /\ body' = body /\ progress = "caught" /\ progress' = "caught" /\ static' = OfSet(to) /\ ran' = NotSwitched
  BY DEF generate_type_cast
<1>2. IsCalled(err, named) /\ static.set = err.type_id
  BY <1>1 DEF ErrorsInv, ErrorIsNamed, StaticIsRight, generate_type_cast
<1>3. err' = e /\ named' = name
  <2>1. /\ err = [type_id |-> err.type_id, value_id |-> err.value_id, message |-> err.message]
        /\ named = [set |-> named.set, value |-> named.value, message |-> named.message]
    BY DEF ErrorsInv, Fields
  <2>2. err' = [err EXCEPT !.type_id = to] /\ named' = [named EXCEPT !.set = to]
    BY DEF generate_type_cast
  <2>. QED BY <2>1, <2>2
<1>4. /\ v \in ValueNames(to)
      /\ get_id_msg_pair_of_value(to, v) = get_id_msg_pair_of_value(named.set, v)
  <2>1. is_parent_of(named.set, to)
    BY <1>2 DEF generate_type_cast, IsCalled
  <2>. QED BY <1>2, <2>1, CastsKeepNumbers DEF IsCalled, ErrorsInv, SetsAreSound
<1>5. IsCalled(e, name)
  BY <1>2, <1>4 DEF IsCalled
<1>6. IsCalled(err, named)'
  <2>. HIDE DEF e, name
  <2>. QED BY <1>1, <1>3, <1>5, CalledLater
<1>7. SetsAreSound'
  BY <1>1, SetsStay DEF ErrorsInv
<1>8. Fields'
  BY <1>3 DEF Fields
<1>9. err'.type_id = to /\ static'.is = "set" /\ static'.set = to
  BY <1>1, <1>3 DEF OfSet
<1>. QED
  BY <1>1, <1>6, <1>7, <1>8, <1>9 DEF ErrorsInv, ErrorIsNamed, StaticIsRight, ErrorsKeepTheirName, RightBranchRuns, NotSwitched

(* An unwrap: the variable is of the error's set, or the program ends. *)
LEMMA UnwrapsAreNamed ==
  ASSUME ErrorsInv, NEW s, generate_variant_unwrap(s)
  PROVE  ErrorsInv'
<1>1. SetsAreSound' /\ Fields' /\ IsCalled(err, named)'
  <2>1. IsCalled(err, named)
    BY DEF ErrorsInv, ErrorIsNamed, generate_variant_unwrap
  <2>2. PICK e, name : e = err /\ name = named
    OBVIOUS
  <2>3. sets' = sets /\ body' = body /\ err' = err /\ named' = named
    BY DEF generate_variant_unwrap
  <2>. QED BY <2>1, <2>2, <2>3, CalledLater, SetsStay DEF ErrorsInv, Fields
<1>2. StaticIsRight'
  BY DEF ErrorsInv, StaticIsRight, generate_variant_unwrap, OfSet, Matches
<1>. QED
  BY <1>1, <1>2 DEF generate_variant_unwrap, ErrorsInv, ErrorIsNamed, StaticIsRight, ErrorsKeepTheirName, RightBranchRuns,
                    NotSwitched

(* A switch without an else in the wrong place has a branch for every set. *)
LEMMA BranchesCover ==
  ASSUME NEW declared, IsFiniteSet(declared), NEW branches \in BranchLists(declared),
         ~IsMisplaced(branches), AnyError \notin declared, Else \notin declared
  PROVE  /\ ~ElseInFront(branches) /\ ~({AnyError, Else} \subseteq Labels(branches))
         /\ Labels(branches) \intersect {AnyError, Else} # {}
<1>1. AcceptsBranches(branches, declared)
  BY DEF BranchLists
<1>2. Cardinality(declared) \in Nat
  BY FS_CardinalityType
<1>3. branches \in [1 .. (Cardinality(declared) + 1) -> declared \union {AnyError, Else}]
  BY DEF BranchLists
<1>4. ElseInFront(branches) => Else \in Labels(branches)
  <2>1. SUFFICES ASSUME NEW i \in 1 .. (Len(branches) - 1), branches[i] = Else
                 PROVE  Else \in Labels(branches)
    BY DEF ElseInFront
  <2>2. Len(branches) = Cardinality(declared) + 1
    BY <1>1 DEF AcceptsBranches
  <2>3. DOMAIN branches = 1 .. (Cardinality(declared) + 1)
    BY <1>3
  <2>4. i \in DOMAIN branches
    BY <1>2, <2>2, <2>3
  <2>. QED BY <2>1, <2>4 DEF Labels
<1>5. ~(Labels(branches) \subseteq declared)
  <2>1. Labels(branches) \subseteq declared => Cardinality(Labels(branches)) <= Cardinality(declared)
    BY FS_Subset
  <2>2. Cardinality(Labels(branches)) = Cardinality(declared) + 1
    BY <1>1 DEF AcceptsBranches
  <2>. QED BY <1>2, <2>1, <2>2
<1>6. Labels(branches) \subseteq declared \union {AnyError, Else}
  BY <1>1 DEF AcceptsBranches
<1>. QED BY <1>4, <1>5, <1>6 DEF IsMisplaced

(* A switch on the set: one branch runs, that of the set or the one for
   all others. *)
LEMMA SetSwitchesAreNamed ==
  ASSUME ErrorsInv, static.is = "variant", NEW branches \in BranchLists(static.sets), SwitchOnSet(branches),
         ErrorsCareless = {}
  PROVE  ErrorsInv'
<1>1. IsCalled(err, named) /\ static.sets \subseteq DOMAIN sets
  BY DEF ErrorsInv, ErrorIsNamed, StaticIsRight, SwitchOnSet
<1>2. IsFiniteSet(DOMAIN sets) /\ AnyError \notin DOMAIN sets /\ Else \notin DOMAIN sets
  BY DEF ErrorsInv, SetsAreSound, IsFamily
<1>3. IsFiniteSet(static.sets) /\ AnyError \notin static.sets /\ Else \notin static.sets
  BY <1>1, <1>2, FS_Subset
<1>4. ~IsMisplaced(branches)
  BY DEF SwitchOnSet
<1>5. /\ ~ElseInFront(branches) /\ ~({AnyError, Else} \subseteq Labels(branches))
      /\ Labels(branches) \intersect {AnyError, Else} # {}
  BY <1>3, <1>4, BranchesCover
<1>6. PICK label \in BranchesTaken(branches) :
        /\ static' = IF label = AnyError THEN OfAnyError
                     ELSE IF label \in static.sets THEN OfSet(label) ELSE static
        /\ ran' = [on |-> "sets", branches |-> Labels(branches), taken |-> label]
        /\ progress' = progress
  BY <1>5 DEF SwitchOnSet
<1>7. sets' = sets /\ body' = body /\ err' = err /\ named' = named /\ progress = "caught" /\ printed' = printed
  BY DEF SwitchOnSet
<1>8. SetsAreSound' /\ Fields' /\ ErrorIsNamed'
  BY <1>7, UntouchedStaysNamed
<1>9. named.set = err.type_id /\ named.set \in DOMAIN sets
  BY <1>1 DEF IsCalled
<1>10. CASE named.set \in Labels(branches)
  <2>1. label = named.set
    BY <1>2, <1>5, <1>9, <1>10 DEF BranchesTaken, Matches
  <2>2. RightBranchRuns'
    BY <1>6, <1>7, <1>10, <2>1 DEF RightBranchRuns
  <2>3. static' = IF label \in static.sets THEN OfSet(label) ELSE static
    BY <1>2, <1>6, <1>9, <2>1
  <2>4. StaticIsRight'
    BY <1>7, <1>9, <2>1, <2>3 DEF ErrorsInv, StaticIsRight, OfSet
  <2>. QED BY <1>6, <1>7, <1>8, <2>2, <2>4 DEF ErrorsInv, ErrorsKeepTheirName, StaticIsRight
<1>11. CASE named.set \notin Labels(branches)
  <2>1. label \in Labels(branches) \intersect {AnyError, Else}
    BY <1>2, <1>5, <1>9, <1>11 DEF BranchesTaken, Matches
  <2>2. RightBranchRuns'
    BY <1>6, <1>7, <1>11, <2>1 DEF RightBranchRuns
  <2>3. static' = OfAnyError \/ static' = static
    BY <1>3, <1>6, <2>1
  <2>4. StaticIsRight'
    BY <1>7, <2>3 DEF ErrorsInv, StaticIsRight, OfAnyError, AnyError
  <2>. QED BY <1>6, <1>7, <1>8, <2>2, <2>4 DEF ErrorsInv, ErrorsKeepTheirName, StaticIsRight
<1>. QED BY <1>10, <1>11

(* The branches of a switch on values are of values the set has; without
   an else they are of all of them. *)
LEMMA ValueBranchesCover ==
  ASSUME IsFamily(sets), ~Redefines(sets), NEW s \in DOMAIN sets, NEW branches \in ValueBranches(s),
         AcceptsValues(s, branches)
  PROVE  /\ UNION (branches \ {{Else}}) \subseteq ValueNames(s)
         /\ {Else} \notin branches => UNION branches = ValueNames(s)
<1>. DEFINE values == UNION (branches \ {{Else}})
<1>1. values \subseteq ValueNames(s)
  <2>. DEFINE Single(chosen) == {{v} : v \in chosen}
  <2>. DEFINE all == UNION {{Single(chosen), {chosen} \ {{}}} : chosen \in SUBSET ValueNames(s)}
  <2>4. ValueBranches(s) = {bs \union e : bs \in all, e \in {{}, {{Else}}}}
    BY DEF ValueBranches
  <2>1. PICK bs \in all, e \in {{}, {{Else}}} : branches = bs \union e
    <3>. HIDE DEF all
    <3>. QED BY <2>4
  <2>2. PICK chosen \in SUBSET ValueNames(s) : bs = Single(chosen) \/ bs = {chosen} \ {{}}
    <3>. HIDE DEF Single
    <3>. QED BY <2>1
  <2>3. UNION bs \subseteq ValueNames(s)
    BY <2>2
  <2>. QED BY <2>1, <2>3
<1>2. ASSUME {Else} \notin branches
      PROVE  values = ValueNames(s)
  <2>1. Cardinality(values) = get_value_count(s)
    BY <1>2 DEF AcceptsValues
  <2>2. IsFiniteSet(ValueNames(s)) /\ Cardinality(ValueNames(s)) <= get_value_count(s)
    BY CountsBound
  <2>3. Cardinality(values) <= Cardinality(ValueNames(s))
        /\ (Cardinality(values) = Cardinality(ValueNames(s)) => values = ValueNames(s))
    <3>. HIDE DEF values
    <3>. QED BY <1>1, <2>2, FS_Subset
  <2>4. Cardinality(values) \in Nat /\ Cardinality(ValueNames(s)) \in Nat
    <3>1. IsFiniteSet(values)
      <4>. HIDE DEF values
      <4>. QED BY <1>1, <2>2, FS_Subset
    <3>. HIDE DEF values
    <3>. QED BY <2>2, <3>1, FS_CardinalityType
  <2>5. get_value_count(s) \in Nat
    BY CountsAre
  <2>. HIDE DEF values
  <2>. QED BY <2>1, <2>2, <2>3, <2>4, <2>5
<1>. QED BY <1>1, <1>2

(* A switch on the value: no other value of the set has the number. *)
LEMMA ValueSwitchesAreNamed ==
  ASSUME ErrorsInv, static.is = "set", NEW branches \in ValueBranches(static.set), SwitchOnValue(branches)
  PROVE  ErrorsInv'
<1>. DEFINE s == named.set
            v == named.value
            Numbered(w) == get_id_msg_pair_of_value(s, w)[1] = err.value_id
            matching == {b \in branches \ {{Else}} : \E w \in b : Numbered(w)}
<1>1. /\ IsCalled(err, named) /\ static.set = s /\ s \in DOMAIN sets /\ v \in ValueNames(s)
      /\ IsFamily(sets) /\ ~Redefines(sets)
  BY DEF ErrorsInv, ErrorIsNamed, StaticIsRight, SwitchOnValue, IsCalled, SetsAreSound
<1>2. PICK b \in ValuesTaken(s, branches) : ran' = [on |-> "values", branches |-> branches, taken |-> b]
  BY <1>1 DEF SwitchOnValue
<1>3. AcceptsValues(s, branches) /\ branches \in ValueBranches(s)
  BY <1>1 DEF SwitchOnValue
<1>4. /\ UNION (branches \ {{Else}}) \subseteq ValueNames(s)
      /\ {Else} \notin branches => UNION branches = ValueNames(s)
  BY <1>1, <1>3, ValueBranchesCover
<1>5. v # Else
  <2>1. PICK t \in {s} \union Ancestors[s] : \E i \in DOMAIN sets[t].values : sets[t].values[i] = v
    BY <1>1 DEF ValueNames
  <2>2. t \in DOMAIN sets
    BY <1>1, <2>1, AncestorsAre DEF Ancestors
  <2>3. sets[t].values \in Seq(STRING \ {Else})
    BY <1>1, <2>2 DEF IsFamily
  <2>4. PICK i \in DOMAIN sets[t].values : sets[t].values[i] = v
    BY <2>1
  <2>. QED BY <2>3, <2>4
<1>6. \A c \in branches \ {{Else}} : (\E w \in c : Numbered(w)) <=> v \in c
  <2>1. Numbered(v)
    BY <1>1 DEF IsCalled
  <2>2. \A w \in ValueNames(s) : Numbered(w) => w = v
    BY <1>1, <2>1, NumbersDiffer
  <2>3. ASSUME NEW c \in branches \ {{Else}}, NEW w \in c
        PROVE  w \in ValueNames(s)
    <3>1. w \in UNION (branches \ {{Else}})
      OBVIOUS
    <3>. QED BY <1>4, <3>1
  <2>. HIDE DEF Numbered, s, v
  <2>. QED BY <2>1, <2>2, <2>3
<1>7. matching = {c \in branches : v \in c}
  <2>. DEFINE Matched(c) == \E w \in c : Numbered(w)
  <2>1. \A c \in branches \ {{Else}} : Matched(c) <=> v \in c
    BY <1>6
  <2>2. v \notin {Else}
    BY <1>5
  <2>3. matching = {c \in branches \ {{Else}} : Matched(c)}
    OBVIOUS
  <2>4. \A c : c \in matching <=> c \in branches \ {{Else}} /\ Matched(c)
    BY <2>3
  <2>. HIDE DEF Matched, v, matching
  <2>5. \A c : c \in matching <=> c \in branches /\ v \in c
    BY <2>1, <2>2, <2>4
  <2>. QED BY <2>5
<1>8. b \in IF matching # {} THEN matching ELSE IF {Else} \in branches THEN {{Else}} ELSE {{Merge}}
  BY <1>2 DEF ValuesTaken
<1>9. RightBranchRuns'
  <2>1. CASE \E c \in branches : v \in c
    <3>1. v \in b
      <4>. HIDE DEF matching, v
      <4>. QED BY <1>7, <1>8, <2>1
    <3>2. named' = named /\ ran'.on = "values" /\ ran'.branches = branches /\ ran'.taken = b
      BY <1>2 DEF SwitchOnValue
    <3>. QED BY <2>1, <3>1, <3>2 DEF RightBranchRuns
  <2>2. CASE ~ \E c \in branches : v \in c
    <3>1. {Else} \in branches
      BY <1>1, <1>4, <2>2
    <3>2. b = {Else}
      <4>. HIDE DEF matching, v
      <4>. QED BY <1>7, <1>8, <2>2, <3>1
    <3>3. named' = named /\ ran'.on = "values" /\ ran'.branches = branches /\ ran'.taken = b
      BY <1>2 DEF SwitchOnValue
    <3>. QED BY <2>2, <3>2, <3>3 DEF RightBranchRuns
  <2>. QED BY <2>1, <2>2
<1>10. SetsAreSound' /\ Fields' /\ ErrorIsNamed'
  BY UntouchedStaysNamed DEF SwitchOnValue
<1>. QED BY <1>9, <1>10 DEF SwitchOnValue, ErrorsInv, StaticIsRight, ErrorsKeepTheirName

(* Every step keeps the invariant. *)
LEMMA NextKeepsNames ==
  ASSUME ErrorsInv, [ErrorsNext]_errors, ErrorsCareless = {}
  PROVE  ErrorsInv'
<1>1. ASSUME NEW s \in DOMAIN sets, NEW v \in ValueNames(s), NEW message, ThrowLiteral(s, v, message)
      PROVE  ErrorsInv'
  BY <1>1, ThrowsAreNamed
<1>2. ASSUME NEW v \in WrittenIn(body), NEW message, ThrowAnonymous(v, message)
      PROVE  ErrorsInv'
  BY <1>2, AnonymousThrowsAreNamed
<1>3. CASE ThrowVariable
  BY <1>3, RethrowsAreNamed
<1>4. ASSUME NEW declared \in SUBSET (DOMAIN sets \ {Anonymous}), create_catch(declared)
      PROVE  ErrorsInv'
  BY <1>4, CatchesAreNamed
<1>5. ASSUME static.is = "variant", NEW branches \in BranchLists(static.sets), SwitchOnSet(branches)
      PROVE  ErrorsInv'
  BY <1>5, SetSwitchesAreNamed
<1>6. ASSUME NEW s, generate_variant_unwrap(s)
      PROVE  ErrorsInv'
  BY <1>6, UnwrapsAreNamed
<1>7. ASSUME NEW s \in DOMAIN sets, generate_type_cast(s)
      PROVE  ErrorsInv'
  BY <1>7, CastsAreNamed
<1>8. ASSUME static.is = "set", NEW branches \in ValueBranches(static.set), SwitchOnValue(branches)
      PROVE  ErrorsInv'
  BY <1>8, ValueSwitchesAreNamed
<1>9. CASE Report
  BY <1>9, ReportsAreNamed
<1>10. CASE UNCHANGED errors
  <2>1. PICK e, name : e = err /\ name = named
    OBVIOUS
  <2>2. sets' = sets /\ body' = body /\ err' = err /\ named' = named /\ progress' = progress
    BY <1>10 DEF errors
  <2>3. ErrorIsNamed'
    BY <2>1, <2>2, CalledLater DEF ErrorsInv, ErrorIsNamed
  <2>. QED
    BY <1>10, <2>2, <2>3, SetsStay DEF errors, ErrorsInv, Fields, StaticIsRight, ErrorsKeepTheirName, RightBranchRuns
<1>. QED
  BY <1>1, <1>2, <1>3, <1>4, <1>5, <1>6, <1>7, <1>8, <1>9, <1>10 DEF ErrorsNext

(* Errors keep the name they were thrown with, whatever the family of sets
   and the program: the branch that names them runs and their name is what
   is printed. *)
THEOREM NamesStaySound ==
  ASSUME ErrorsCareless = {}
  PROVE  ErrorsSpec => []ErrorsKeepTheirName
<1>1. ErrorsInit => ErrorsInv
  BY InitIsSound
<1>2. ErrorsInv /\ [ErrorsNext]_errors => ErrorsInv'
  BY NextKeepsNames
<1>3. ErrorsInv => ErrorsKeepTheirName
  BY DEF ErrorsInv
<1>. QED BY <1>1, <1>2, <1>3, PTL DEF ErrorsSpec

=============================================================================
