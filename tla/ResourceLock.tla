---------------------------- MODULE ResourceLock ----------------------------
(***************************************************************************)
(* The RAII lock on a named resource of include/resolver/resource_lock.hpp:*)
(* a map from the resource's name to a mutex and to the number of threads  *)
(* that hold it or wait for it, whose entries come and go with their use.  *)
(*                                                                         *)
(* map_mutex protects the map, so the part of the constructor before the   *)
(* unlock is one action, locking the resource's own mutex (through a       *)
(* reference into the map, which is no longer protected) is another, and   *)
(* the whole destructor is a third.  As everywhere in the compiler, a      *)
(* thread has at most one ResourceLock at a time.                          *)
(***************************************************************************)
EXTENDS Naturals, FiniteSets

CONSTANTS
  Threads,    (* whoever constructs ResourceLocks                          *)
  Resources,  (* the names that are locked                                 *)
  NoThread    (* the owner of an unlocked mutex                            *)

ASSUME ResourceLockAssumption ==
  /\ IsFiniteSet(Threads)
  /\ NoThread \notin Threads

VARIABLES
  mutex_map,  (* resource -> [count, owner], for the resources in use      *)
  counted,    (* <<t, r>>: t has raised r's count and waits for its mutex  *)
  holding     (* <<t, r>>: t's constructor for r has returned              *)

vars == <<mutex_map, counted, holding>>

Engaged(t) == \E r \in Resources : <<t, r>> \in counted \cup holding

Init == mutex_map = [r \in {} |-> NoThread] /\ counted = {} /\ holding = {}

(* Mutant of Register: a fresh mutex although the resource has one. *)
RegisterAfresh(t, r) ==
  /\ ~Engaged(t)
  /\ mutex_map' = [q \in DOMAIN mutex_map \cup {r} |->
                     IF q = r THEN [count |-> 1, owner |-> NoThread] ELSE mutex_map[q]]
  /\ counted' = counted \cup {<<t, r>>}
  /\ UNCHANGED holding

(* The constructor up to lock.unlock(): get or create the entry, count it. *)
Register(t, r) ==
  /\ ~Engaged(t)
  /\ mutex_map' = [q \in DOMAIN mutex_map \cup {r} |->
                     IF q # r THEN mutex_map[q]
                     ELSE IF r \in DOMAIN mutex_map
                            THEN [mutex_map[r] EXCEPT !.count = @ + 1]
                            ELSE [count |-> 1, owner |-> NoThread]]
  /\ counted' = counted \cup {<<t, r>>}
  /\ UNCHANGED holding

(* mtx.second->lock() returns. *)
Acquire(t, r) ==
  /\ <<t, r>> \in counted
  /\ r \in DOMAIN mutex_map /\ mutex_map[r].owner = NoThread
  /\ mutex_map' = [mutex_map EXCEPT ![r].owner = t]
  /\ counted' = counted \ {<<t, r>>}
  /\ holding' = holding \cup {<<t, r>>}

(* Mutant of Release: the count goes down and the mutex stays locked. *)
ReleaseWithoutUnlock(t, r) ==
  /\ <<t, r>> \in holding
  /\ mutex_map' = [mutex_map EXCEPT ![r].count = @ - 1]
  /\ holding' = holding \ {<<t, r>>}
  /\ UNCHANGED counted

(* The destructor: unlock, uncount, and erase the entry at zero. *)
Release(t, r) ==
  /\ <<t, r>> \in holding
  /\ mutex_map' = IF r \notin DOMAIN mutex_map THEN mutex_map
                  ELSE IF mutex_map[r].count = 1
                    THEN [q \in DOMAIN mutex_map \ {r} |-> mutex_map[q]]
                    ELSE [mutex_map EXCEPT
                            ![r] = [count |-> @.count - 1, owner |-> NoThread]]
  /\ holding' = holding \ {<<t, r>>}
  /\ UNCHANGED counted

Next == \E t \in Threads, r \in Resources :
          Register(t, r) \/ Acquire(t, r) \/ Release(t, r)

Spec == Init /\ [][Next]_vars

(* A free mutex is taken by somebody who waits for it, and a holder's
   scope ends.  Which waiter is served is left open, as std::mutex does. *)
Fairness ==
  \A r \in Resources :
    /\ WF_vars(\E t \in Threads : Acquire(t, r))
    /\ \A t \in Threads : WF_vars(Release(t, r))

FairSpec == Spec /\ Fairness

----------------------------------------
Users(r) == {t \in Threads : <<t, r>> \in counted \cup holding}

(* The map holds a positive count and an owner for each of its resources. *)
TypeOK ==
  /\ DOMAIN mutex_map \subseteq Resources
  /\ mutex_map \in [DOMAIN mutex_map -> [count : Nat \ {0}, owner : Threads \cup {NoThread}]]
  /\ counted \subseteq Threads \X Resources
  /\ holding \subseteq Threads \X Resources

(* "they are not allowed to work on the same resource at the same time" *)
MutualExclusion ==
  \A r \in Resources, t, u \in Threads :
    <<t, r>> \in holding /\ <<u, r>> \in holding => t = u

(* The reference a constructor keeps into the map, after it has unlocked
   map_mutex, stays valid: the entry of a resource exists as long as a
   thread holds it or waits for it, and counts those threads exactly. *)
EntryCountsItsUsers ==
  \A r \in Resources :
    Users(r) # {} => r \in DOMAIN mutex_map
                     /\ mutex_map[r].count = Cardinality(Users(r))

(* The lock keeps its promise: one holder per resource, and a map that
   knows exactly the threads it is used by. *)
LockIsSafe == TypeOK /\ MutualExclusion /\ EntryCountsItsUsers

(* The map does not grow with the names it has seen: an entry nobody uses
   is gone. *)
NoIdleEntry == \A r \in DOMAIN mutex_map : Users(r) # {}

(* A mutex is locked exactly by the thread that will unlock it. *)
OwnerHolds ==
  \A r \in DOMAIN mutex_map, t \in Threads :
    mutex_map[r].owner = t <=> <<t, r>> \in holding

(* While threads wait for a resource, one of them gets it. *)
SomeoneIsServed ==
  \A r \in Resources :
    (\E t \in Threads : <<t, r>> \in counted) ~> (\E t \in Threads : <<t, r>> \in holding)
=============================================================================
