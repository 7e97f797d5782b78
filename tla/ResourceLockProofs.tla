------------------------- MODULE ResourceLockProofs -------------------------
(***************************************************************************)
(* Proofs about the resource lock, for any finite set of threads and any   *)
(* resources.                                                              *)
(***************************************************************************)
EXTENDS ResourceLock, FiniteSetTheorems, TLAPS

(* A thread is engaged with at most one resource, and waits or holds. *)
OneAtATime ==
  /\ counted \cap holding = {}
  /\ \A t \in Threads, q, r \in Resources :
       <<t, q>> \in counted \cup holding /\ <<t, r>> \in counted \cup holding => q = r

Inv ==
  /\ TypeOK
  /\ OneAtATime
  /\ EntryCountsItsUsers
  /\ NoIdleEntry
  /\ OwnerHolds

(* The users of a name can be counted. *)
LEMMA UsersFinite ==
  ASSUME NEW r
  PROVE  IsFiniteSet(Users(r)) /\ Cardinality(Users(r)) \in Nat
BY ResourceLockAssumption, FS_Subset, FS_CardinalityType DEF Users

(* Nothing is locked at first. *)
LEMMA InitInv == Init => Inv
BY FS_EmptySet DEF Init, Inv, TypeOK, OneAtATime, EntryCountsItsUsers, NoIdleEntry,
                   OwnerHolds, Users

(* A constructor counts itself in, in an entry that is there or new. *)
LEMMA RegisterInv ==
  ASSUME Inv, NEW t \in Threads, NEW r \in Resources, Register(t, r)
  PROVE  Inv'
<1>. USE DEF Register
<1>1. TypeOK'
  BY DEF Inv, TypeOK
<1>2. OneAtATime'
  BY DEF Inv, OneAtATime, TypeOK, Engaged
<1>3. /\ t \notin Users(r) /\ Users(r)' = Users(r) \cup {t}
      /\ \A q \in Resources \ {r} : Users(q)' = Users(q)
  BY DEF Users, Engaged
<1>4. Cardinality(Users(r)') = Cardinality(Users(r)) + 1
  BY <1>3, UsersFinite, FS_AddElement
<1>5. r \notin DOMAIN mutex_map => Cardinality(Users(r)) = 0
  BY FS_EmptySet DEF Inv, EntryCountsItsUsers
<1>6. r \in DOMAIN mutex_map => mutex_map[r].count = Cardinality(Users(r))
  BY DEF Inv, EntryCountsItsUsers, NoIdleEntry
<1>7. /\ r \in DOMAIN mutex_map' /\ mutex_map'[r].count = Cardinality(Users(r)) + 1
      /\ \A q \in Resources \ {r} : /\ q \in DOMAIN mutex_map' <=> q \in DOMAIN mutex_map
                                    /\ q \in DOMAIN mutex_map => mutex_map'[q] = mutex_map[q]
  BY <1>5, <1>6 DEF Inv, TypeOK
<1>8. EntryCountsItsUsers'
  BY <1>3, <1>4, <1>7 DEF Inv, EntryCountsItsUsers
<1>9. NoIdleEntry'
  <2>1. \A q \in DOMAIN mutex_map' : q # r => Users(q)' # {}
    BY <1>3, <1>7 DEF Inv, TypeOK, NoIdleEntry
  <2>. QED BY <1>3, <2>1 DEF NoIdleEntry
<1>10. OwnerHolds'
  <2>1. mutex_map'[r].owner = IF r \in DOMAIN mutex_map THEN mutex_map[r].owner ELSE NoThread
    BY DEF Inv, TypeOK
  <2>2. r \notin DOMAIN mutex_map => \A u \in Threads : <<u, r>> \notin holding
    BY DEF Inv, EntryCountsItsUsers, Users
  <2>3. \A u \in Threads : mutex_map'[r].owner = u <=> <<u, r>> \in holding
    BY <2>1, <2>2, ResourceLockAssumption DEF Inv, OwnerHolds
  <2>. QED BY <1>7, <2>3 DEF Inv, TypeOK, OwnerHolds
<1>. QED BY <1>1, <1>2, <1>8, <1>9, <1>10 DEF Inv

(* A mutex is taken by one of those that wait for it. *)
LEMMA AcquireInv ==
  ASSUME Inv, NEW t \in Threads, NEW r \in Resources, Acquire(t, r)
  PROVE  Inv'
<1>. USE DEF Acquire
<1>1. TypeOK'
  BY DEF Inv, TypeOK
<1>2. OneAtATime'
  BY DEF Inv, OneAtATime, TypeOK
<1>3. \A q \in Resources : Users(q)' = Users(q)
  BY DEF Users
<1>4. /\ DOMAIN mutex_map' = DOMAIN mutex_map
      /\ \A q \in DOMAIN mutex_map : mutex_map'[q].count = mutex_map[q].count
      /\ \A q \in DOMAIN mutex_map : q # r => mutex_map'[q] = mutex_map[q]
      /\ mutex_map'[r].owner = t
  BY DEF Inv, TypeOK
<1>5. EntryCountsItsUsers'
  BY <1>3, <1>4 DEF Inv, EntryCountsItsUsers
<1>6. NoIdleEntry'
  BY <1>3, <1>4 DEF Inv, NoIdleEntry, TypeOK
<1>7. OwnerHolds'
  <2>1. \A u \in Threads : <<u, r>> \notin holding
    BY ResourceLockAssumption DEF Inv, OwnerHolds
  <2>. QED BY <1>4, <2>1 DEF Inv, OwnerHolds
<1>. QED BY <1>1, <1>2, <1>5, <1>6, <1>7 DEF Inv

(* A destructor erases the entry when it was the last to use it. *)
LEMMA ReleaseInv ==
  ASSUME Inv, NEW t \in Threads, NEW r \in Resources, Release(t, r)
  PROVE  Inv'
<1>. USE DEF Release
<1>1. /\ t \in Users(r) /\ Users(r)' = Users(r) \ {t}
      /\ \A q \in Resources \ {r} : Users(q)' = Users(q)
  BY DEF Users, Inv, OneAtATime
<1>2. /\ r \in DOMAIN mutex_map
      /\ mutex_map[r].count = Cardinality(Users(r))
      /\ mutex_map[r].owner = t
  BY <1>1 DEF Inv, EntryCountsItsUsers, OwnerHolds
<1>3. /\ Cardinality(Users(r)') = Cardinality(Users(r)) - 1
      /\ Cardinality(Users(r)) \in Nat \ {0}
      /\ Cardinality(Users(r)) = 1 <=> Users(r)' = {}
  <2>1. IsFiniteSet(Users(r)') /\ Cardinality(Users(r)') = Cardinality(Users(r)) - 1
    BY <1>1, UsersFinite, FS_RemoveElement
  <2>2. Cardinality(Users(r)) \in Nat /\ Cardinality(Users(r)) # 0
    BY <1>1, UsersFinite, FS_EmptySet
  <2>3. Cardinality(Users(r)') = 0 <=> Users(r)' = {}
    BY <2>1, FS_EmptySet
  <2>. QED BY <2>1, <2>2, <2>3
<1>4. CASE mutex_map[r].count = 1
  <2>1. /\ DOMAIN mutex_map' = DOMAIN mutex_map \ {r}
        /\ \A q \in DOMAIN mutex_map' : mutex_map'[q] = mutex_map[q]
    BY <1>2, <1>4
  <2>2. Users(r)' = {}
    BY <1>2, <1>3, <1>4
  <2>3. TypeOK'
    BY <2>1 DEF Inv, TypeOK
  <2>4. OneAtATime'
    BY DEF Inv, OneAtATime
  <2>5. EntryCountsItsUsers'
    BY <1>1, <2>1, <2>2 DEF Inv, EntryCountsItsUsers
  <2>6. NoIdleEntry'
    BY <1>1, <2>1 DEF Inv, NoIdleEntry, TypeOK
  <2>7. OwnerHolds'
    BY <2>1 DEF Inv, OwnerHolds
  <2>. QED BY <2>3, <2>4, <2>5, <2>6, <2>7 DEF Inv
<1>5. CASE mutex_map[r].count # 1
  <2>1. /\ DOMAIN mutex_map' = DOMAIN mutex_map
        /\ \A q \in DOMAIN mutex_map : q # r => mutex_map'[q] = mutex_map[q]
        /\ mutex_map'[r] = [count |-> mutex_map[r].count - 1, owner |-> NoThread]
    BY <1>2, <1>5
  <2>2. mutex_map[r].count - 1 \in Nat \ {0} /\ Users(r)' # {}
    BY <1>2, <1>3, <1>5
  <2>3. TypeOK'
    <3>1. \A q \in DOMAIN mutex_map : mutex_map'[q] \in [count : Nat \ {0}, owner : Threads \cup {NoThread}]
      BY <2>1, <2>2 DEF Inv, TypeOK
    <3>2. mutex_map' = [q \in DOMAIN mutex_map' |-> mutex_map'[q]]
      BY <1>2, <1>5 DEF Inv, TypeOK
    <3>. QED BY <2>1, <3>1, <3>2 DEF Inv, TypeOK
  <2>4. OneAtATime'
    BY DEF Inv, OneAtATime
  <2>5. EntryCountsItsUsers'
    BY <1>1, <1>2, <1>3, <2>1 DEF Inv, EntryCountsItsUsers
  <2>6. NoIdleEntry'
    BY <1>1, <2>1, <2>2 DEF Inv, NoIdleEntry, TypeOK
  <2>7. OwnerHolds'
    <3>1. \A u \in Threads : <<u, r>> \notin holding'
      BY <1>2 DEF Inv, OwnerHolds
    <3>. QED BY <2>1, <3>1, ResourceLockAssumption DEF Inv, OwnerHolds
  <2>. QED BY <2>3, <2>4, <2>5, <2>6, <2>7 DEF Inv
<1>. QED BY <1>4, <1>5

(* Every step keeps the invariant. *)
LEMMA NextInv == Inv /\ [Next]_vars => Inv'
<1>1. ASSUME Inv, NEW t \in Threads, NEW r \in Resources,
             Register(t, r) \/ Acquire(t, r) \/ Release(t, r)
      PROVE  Inv'
  BY <1>1, RegisterInv, AcquireInv, ReleaseInv
<1>2. ASSUME Inv, UNCHANGED vars PROVE Inv'
  <2>1. \A r \in Resources : Users(r)' = Users(r)
    BY <1>2 DEF vars, Users
  <2>2. TypeOK' /\ OneAtATime' /\ OwnerHolds'
    BY <1>2 DEF vars, Inv, TypeOK, OneAtATime, OwnerHolds
  <2>3. EntryCountsItsUsers'
    BY <1>2, <2>1 DEF vars, Inv, EntryCountsItsUsers
  <2>4. NoIdleEntry'
    BY <1>2, <2>1 DEF vars, Inv, NoIdleEntry, TypeOK
  <2>. QED BY <2>2, <2>3, <2>4 DEF Inv
<1>. QED BY <1>1, <1>2 DEF Next

----------------------------------------
(* The map's entries are exactly the resources in use, each with the exact
   count and the right owner, in every reachable state. *)
THEOREM LockInvariant == Spec => []Inv
<1>1. Init => Inv
  BY InitInv
<1>2. Inv /\ [Next]_vars => Inv'
  BY NextInv
<1>. QED BY <1>1, <1>2, PTL DEF Spec

(* The lock map keeps its types: no count of 0 is ever kept. *)
THEOREM LockTypeCorrect == Spec => []TypeOK
BY LockInvariant, PTL DEF Inv

(* The unprotected reference into the map never dangles. *)
THEOREM EntriesOutliveUsers == Spec => []EntryCountsItsUsers
BY LockInvariant, PTL DEF Inv

(* No two threads work on one resource at the same time. *)
THEOREM LockExcludes == Spec => []MutualExclusion
<1>1. Inv => MutualExclusion
  <2>. SUFFICES ASSUME Inv, NEW r \in Resources, NEW t \in Threads, NEW u \in Threads,
                       <<t, r>> \in holding, <<u, r>> \in holding
                PROVE  t = u
    BY DEF MutualExclusion
  <2>1. r \in DOMAIN mutex_map
    BY DEF Inv, EntryCountsItsUsers, Users
  <2>. QED BY <2>1 DEF Inv, OwnerHolds
<1>. QED BY <1>1, LockInvariant, PTL

(* The lock excludes, and its map knows its users, for any number of
   threads and resources. *)
THEOREM LockKeepsItsPromise == Spec => []LockIsSafe
BY LockTypeCorrect, LockExcludes, EntriesOutliveUsers, PTL DEF LockIsSafe
=============================================================================
