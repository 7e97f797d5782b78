--------------------------- MODULE SharingProofs ---------------------------
(***************************************************************************)
(* Proofs about what is shared with others.  In the first part the threads *)
(* of the compiler share the graph of imports (Resolver), in the second    *)
(* part a compiled program shares files, the terminal, its environment and *)
(* its input with other programs (CoreIO).  The parts do not depend on     *)
(* each other.                                                             *)
(*                                                                         *)
(* The first part holds for any finite set of files, any number of threads *)
(* and any imports.  Inv is its inductive invariant: its conjuncts say     *)
(* where each call is, what the file locks protect and what has become of  *)
(* every import.  What is true of one file's lock comes from module        *)
(* ResourceLockProofs.                                                     *)
(*                                                                         *)
(* The second part holds for texts of any length, any buffer, commands,    *)
(* variables and answers of the C library; what it assumes of the programs *)
(* is in CapturesCarefully, ExpectsLittle and FilesExpectLittle.           *)
(***************************************************************************)
EXTENDS Resolver, CoreIO, DataTheorems, FiniteSetTheorems, TLAPS

LockProofs == INSTANCE ResourceLockProofs WITH
                Threads <- Files, Resources <- Files, NoThread <- NoFile

(* The places of a call between taking the file lock and giving it back. *)
LockedLabels == {"lookup", "known", "create", "claim", "parse", "add", "link", "schedule",
                 "unlock"}

(* A call behind EnterLock is at an import that is a file. *)
CallsAreAtFiles ==
  \A t \in Files : pc[t] \in LockedLabels \cup {"locking"} => left[t] # <<>> /\ dep(t) \in Files

(* A call holds the lock of the file it is at, and no other. *)
LocksFollowCalls ==
  \A t, f \in Files :
    /\ <<t, f>> \in holding <=> pc[t] \in LockedLabels /\ f = dep(t)
    /\ <<t, f>> \in counted <=> pc[t] = "locking" /\ f = dep(t)

(* Calls run within their wave, on what is left of their file's imports. *)
CallsFollowWaves ==
  /\ postponed = {}
  /\ phase = "open" => \A t \in Files : pc[t] \in {"idle", "ok"}
  /\ phase = "wave" =>
       /\ next \cap open = {}
       /\ \A t \in Files :
            /\ pc[t] # "idle" => t \in open
            /\ pc[t] = "ok" => left[t] = <<>>
            /\ Elems(left[t]) \subseteq Elems(imports[t])

(* The maps are filled in one order, and broken files get no node. *)
MapsAreNested ==
  /\ Main \in dependency_node_map
  /\ dependency_node_map \subseteq dependency_map /\ dependency_map \subseteq namespace_map
  /\ open \cup next \subseteq dependency_node_map
  /\ broken \cap dependency_node_map = {}

(* What a call has found out about its file stays true while it holds the
   lock. *)
CallsKnowTheirFile ==
  \A t \in Files :
    /\ pc[t] = "known" => dep(t) \in namespace_map
    /\ pc[t] \in {"create", "claim"} => dep(t) \notin namespace_map
    /\ pc[t] \in {"parse", "add"} => dep(t) \in namespace_map \ dependency_map
    /\ pc[t] = "link" => dep(t) \in dependency_map \ dependency_node_map
    /\ pc[t] \in {"add", "link"} => dep(t) \notin broken
    /\ pc[t] = "schedule" => dep(t) \in dependency_node_map
    /\ phase = "wave" /\ pc[t] = "schedule" => dep(t) \notin open
    /\ pc[t] \in {"schedule", "unlock"} => <<t, dep(t)>> \in shared \cup weak

(* Edges are imports, and a file that waits for its wave has none. *)
EdgesAreImports ==
  /\ \A f, g \in Files : <<f, g>> \in shared \cup weak =>
       /\ f \in dependency_node_map /\ g \in dependency_node_map /\ g \in Imported(f)
       /\ f \notin next /\ (phase = "open" => f \notin open)
  /\ \A t, g \in Files : pc[t] = "schedule" => <<dep(t), g>> \notin shared \cup weak

(* No file is forgotten: an import of a node is an edge unless it is still
   to be come to.
   The import g of node f is still to be come to: f waits for its wave,
   its call has g ahead of it, or a call is about to schedule f. *)
Waits(f, g) ==
  \/ phase = "open" /\ f \in open
  \/ phase = "wave" /\ f \in next
  \/ phase = "wave" /\ f \in open /\ g \in Elems(left[f])
  \/ phase = "wave" /\ \E t \in Files : pc[t] = "schedule" /\ dep(t) = f

ImportsAreEdges ==
  phase \in {"open", "wave", "done"} =>
    \A f \in dependency_node_map : \A g \in Imported(f) :
      <<f, g>> \in shared \cup weak \/ Waits(f, g)

(* Every node can be reached from the main file, by its imports ... *)
NodesAreReachable ==
  \A X \in SUBSET Files :
    Main \in X /\ (\A f \in X : Imported(f) \subseteq X) => dependency_node_map \subseteq X

(* ... and down from it by the owners. *)
NodesAreOwned ==
  /\ OneOwner
  /\ \A f \in Files : f \notin dependency_node_map => root[f] = NoFile
  /\ \A f \in dependency_node_map \ {Main} : root[f] \in dependency_node_map
  /\ \A X \in SUBSET Files :
       Main \in X /\ (\A f \in Files : root[f] \in X => f \in X) => dependency_node_map \subseteq X

(* An exception is thrown at a file that did not parse, and at no other. *)
CrashMeansBroken ==
  (\E t \in Files : pc[t] = "threw") \/ phase = "crashed" => broken # {}

(* The inductive invariant. *)
Inv ==
  /\ TypeOK
  /\ LockProofs!Inv
  /\ CallsAreAtFiles
  /\ LocksFollowCalls
  /\ CallsFollowWaves
  /\ MapsAreNested
  /\ CallsKnowTheirFile
  /\ NodesFollowNamespaces
  /\ EdgesAreImports
  /\ ImportsAreEdges
  /\ NodesAreReachable
  /\ NodesAreOwned
  /\ CrashMeansBroken

----------------------------------------
(* What can be reached. *)

(* Climb collects the files main owns, directly or not, and only them. *)
LEMMA OwnersClimb == IsDescendants(Climb[Cardinality(Files)], Main, root, Files)
<1>. DEFINE climb == CHOOSE c : c = [n \in Nat |->
               IF n = 0 THEN {Main} ELSE c[n - 1] \cup {f \in Files : root[f] \in c[n - 1]}]
<1>1. IsFiniteSet(Files) /\ Main \in Files
  BY ResolverAssumption
<1>2. IsDescendants(climb[Cardinality(Files)], Main, root, Files)
  BY <1>1, Descendants
<1>3. climb = Climb
  BY DEF Climb
<1>. QED BY <1>2, <1>3

(* Program is what the imports reach from main, and the least such set. *)
LEMMA ProgramIsReachable ==
  /\ Program \in SUBSET Files /\ Main \in Program
  /\ \A f \in Program : Imported(f) \subseteq Program
  /\ \A X \in SUBSET Files :
       Main \in X /\ (\A f \in X : Imported(f) \subseteq X) => Program \subseteq X
<1>. DEFINE I == [f \in Files |-> Imported(f)]
<1>1. I \in [Files -> SUBSET Files] /\ \A f \in Files : I[f] = Imported(f)
  BY DEF Imported
<1>. HIDE DEF I
<1>2. PICK c \in [Nat -> SUBSET Files] :
        /\ c = [n \in Nat |-> IF n = 0 THEN {Main}
                                       ELSE c[n - 1] \cup UNION {I[f] : f \in c[n - 1]}]
        /\ IsReachable(c[Cardinality(Files)], Main, I, Files)
  BY <1>1, Reachable, ResolverAssumption
<1>3. ASSUME NEW n \in Nat
      PROVE  UNION {I[f] : f \in c[n]} = UNION {Imported(f) : f \in c[n]}
  <2>1. c[n] \subseteq Files
    BY <1>2
  <2>. QED BY <1>1, <2>1
<1>4. c[0] = {Main} /\ \A n \in Nat : c[n + 1] = c[n] \cup UNION {Imported(f) : f \in c[n]}
  BY <1>2, <1>3
<1>5. c = [n \in Nat |-> IF n = 0 THEN {Main}
                                  ELSE c[n - 1] \cup UNION {Imported(f) : f \in c[n - 1]}]
  <2>1. \A n \in Nat : n # 0 => n - 1 \in Nat
    OBVIOUS
  <2>2. \A n \in Nat : n # 0 => UNION {I[f] : f \in c[n - 1]} = UNION {Imported(f) : f \in c[n - 1]}
    BY <1>3, <2>1
  <2>. QED BY <1>2, <2>2
<1>6. Within = [n \in Nat |-> IF n = 0 THEN {Main}
                          ELSE Within[n - 1] \cup UNION {Imported(f) : f \in Within[n - 1]}]
  BY <1>5 DEF Within
<1>7. Within[0] = {Main}
      /\ \A n \in Nat : Within[n + 1] = Within[n] \cup UNION {Imported(f) : f \in Within[n]}
  BY <1>6
<1>8. \A n \in Nat : Within[n] = c[n]
  <2>. DEFINE T == {n \in Nat : Within[n] = c[n]}
  <2>1. 0 \in T
    BY <1>4, <1>7
  <2>2. ASSUME NEW n \in Nat, n \in T
        PROVE  n + 1 \in T
    <3>1. Within[n] = c[n]
      BY <2>2
    <3>2. Within[n + 1] = c[n + 1]
      BY <1>4, <1>7, <3>1
    <3>. QED BY <3>2
  <2>3. Nat \subseteq T
    <3>. HIDE DEF T
    <3>. QED BY <2>1, <2>2, SetInduction
  <2>. QED BY <2>3
<1>9. Cardinality(Files) \in Nat
  BY FS_CardinalityType, ResolverAssumption
<1>10. IsReachable(Program, Main, I, Files)
  BY <1>2, <1>8, <1>9 DEF Program
<1>. QED BY <1>1, <1>10 DEF IsReachable

----------------------------------------
(* What a step of a call does to the calls. *)

(* An empty sequence has no elements. *)
LEMMA ElemsEmpty == \A s : s = <<>> => Elems(s) = {}
BY DEF Elems

(* A step of a call is taken in a wave, moves this call only, and either
   keeps what it has left to import or drops the first. *)
LEMMA CallFrame ==
  ASSUME TypeOK, CallsAreAtFiles, NEW t \in Files, CallStep(t)
  PROVE  /\ phase = "wave" /\ phase' = "wave"
         /\ UNCHANGED <<imports, broken, open, postponed>>
         /\ \A u \in Files : u # t => pc'[u] = pc[u] /\ left'[u] = left[u]
         /\ pc[t] # "idle" /\ pc'[t] # "idle" /\ pc'[t] \in Labels
         /\ pc' \in [Files -> Labels]
         /\ left' \in [Files -> Seq(Files \cup {Core, Library})]
         /\ \/ left'[t] = left[t]
            \/ left[t] # <<>> /\ left'[t] = Tail(left[t]) /\ pc'[t] = "import"
<1>. USE DEF Goto, TypeOK, Labels, input, waves
<1>1. CASE StartCall(t)
  BY <1>1 DEF StartCall
<1>2. CASE ReturnTrue(t)
  BY <1>2 DEF ReturnTrue
<1>3. CASE SkipLibrary(t)
  BY <1>3, TailElems DEF SkipLibrary
<1>4. CASE EnterLock(t)
  BY <1>4 DEF EnterLock
<1>5. CASE GetLock(t)
  BY <1>5 DEF GetLock
<1>6. CASE Lookup(t)
  BY <1>6 DEF Lookup
<1>7. CASE AddWeak(t)
  BY <1>7 DEF AddWeak
<1>8. CASE NodeMissing(t)
  BY <1>8 DEF NodeMissing
<1>9. CASE Create(t)
  BY <1>9 DEF Create
<1>10. CASE Claim(t)
  BY <1>10 DEF Claim
<1>11. CASE ParseSucceeds(t)
  BY <1>11 DEF ParseSucceeds
<1>12. CASE ParseFails(t)
  BY <1>12 DEF ParseFails
<1>13. CASE AddFile(t)
  BY <1>13 DEF AddFile
<1>14. CASE Link(t)
  BY <1>14 DEF Link
<1>15. CASE Schedule(t)
  BY <1>15 DEF Schedule
<1>16. CASE Unlock(t)
  <2>1. left[t] # <<>>
    BY <1>16 DEF Unlock, CallsAreAtFiles, LockedLabels
  <2>. QED BY <1>16, <2>1, TailElems DEF Unlock
<1>. QED BY <1>1, <1>2, <1>3, <1>4, <1>5, <1>6, <1>7, <1>8, <1>9, <1>10, <1>11, <1>12,
             <1>13, <1>14, <1>15, <1>16 DEF CallStep

(* Every step keeps the types. *)
LEMMA TypeStep ==
  ASSUME TypeOK, CallsAreAtFiles, [Next]_vars
  PROVE  TypeOK'
<1>1. ASSUME NEW t \in Files, CallStep(t)
      PROVE  TypeOK'
  <2>1. /\ phase' \in {"open", "wave", "done", "failed", "crashed"}
        /\ imports' \in [Files -> Seq(Files \cup {Core, Library})] /\ broken' \subseteq Files
        /\ {open', postponed'} \subseteq SUBSET Files
        /\ pc' \in [Files -> Labels] /\ left' \in [Files -> Seq(Files \cup {Core, Library})]
    BY <1>1, CallFrame DEF TypeOK
  <2>2. pc[t] \in LockedLabels => dep(t) \in Files
    BY DEF CallsAreAtFiles
  <2>3. /\ {namespace_map', dependency_map', dependency_node_map', next'} \subseteq SUBSET Files
        /\ shared' \subseteq Files \X Files /\ weak' \subseteq Files \X Files
        /\ root' \in [Files -> Files \cup {NoFile}]
    <3>. USE <2>2 DEF TypeOK, LockedLabels, graph
    <3>1. CASE Claim(t)
      BY <3>1 DEF Claim
    <3>2. CASE AddFile(t)
      BY <3>2 DEF AddFile
    <3>3. CASE AddWeak(t)
      BY <3>3 DEF AddWeak
    <3>4. CASE Link(t)
      BY <3>4 DEF Link
    <3>5. CASE Schedule(t)
      BY <3>5 DEF Schedule
    <3>6. CASE UNCHANGED <<namespace_map, dependency_map, graph, next>>
      BY <3>6
    <3>. QED BY <1>1, <3>1, <3>2, <3>3, <3>4, <3>5, <3>6
              DEF CallStep, StartCall, ReturnTrue, SkipLibrary, EnterLock, GetLock, Lookup,
                  NodeMissing, Create, ParseSucceeds, ParseFails, Unlock
  <2>. QED BY <2>1, <2>3 DEF TypeOK
<1>2. CASE BeginWave
  BY <1>2 DEF BeginWave, TypeOK, Labels, input, graph
<1>3. CASE EndWave \/ Crash \/ EndGraph
  BY <1>3 DEF EndWave, Crash, EndGraph, TypeOK, input, graph
<1>4. CASE UNCHANGED vars
  BY <1>4 DEF vars, input, graph, waves, TypeOK
<1>. QED BY <1>1, <1>2, <1>3, <1>4 DEF Next, GraphStep, Ended

----------------------------------------
(* The locks. *)

(* Two calls that are both behind the lock of one file are the same
   call: this is what parse_source's file_lock is for. *)
LEMMA Exclusive ==
  ASSUME LockProofs!Inv, LocksFollowCalls, NEW t \in Files, NEW u \in Files, dep(t) \in Files,
         pc[t] \in LockedLabels, pc[u] \in LockedLabels, dep(t) = dep(u)
  PROVE  t = u
<1>1. <<t, dep(t)>> \in holding /\ <<u, dep(t)>> \in holding
  BY DEF LocksFollowCalls
<1>2. dep(t) \in DOMAIN mutex_map
  BY <1>1 DEF LockProofs!Inv, LockProofs!EntryCountsItsUsers, LockProofs!Users
<1>. QED BY <1>1, <1>2 DEF LockProofs!Inv, LockProofs!OwnerHolds

(* Every step of the resolver is a step of module ResourceLock or leaves
   the locks alone. *)
LEMMA LocksAreUsed ==
  ASSUME CallsAreAtFiles, [Next]_vars
  PROVE  [LockProofs!Next]_(LockProofs!vars)
<1>3. ASSUME NEW t \in Files, CallStep(t)
      PROVE  LockProofs!Next \/ UNCHANGED lock
  <2>1. pc[t] \in LockedLabels \cup {"locking"} => dep(t) \in Files
    BY DEF CallsAreAtFiles
  <2>2. CASE EnterLock(t)
    <3>1. dep(t) \in Files /\ LockProofs!Register(t, dep(t))
      BY <2>2 DEF EnterLock, Lock!Register, LockProofs!Register, Lock!Engaged, LockProofs!Engaged
    <3>. QED BY <3>1 DEF LockProofs!Next
  <2>3. CASE GetLock(t)
    <3>1. dep(t) \in Files /\ LockProofs!Acquire(t, dep(t))
      BY <2>1, <2>3 DEF GetLock, Lock!Acquire, LockProofs!Acquire
    <3>. QED BY <3>1 DEF LockProofs!Next
  <2>4. CASE NodeMissing(t) \/ ParseFails(t) \/ Unlock(t)
    <3>1. dep(t) \in Files /\ LockProofs!Release(t, dep(t))
      BY <2>1, <2>4 DEF NodeMissing, ParseFails, Unlock, Lock!Release, LockProofs!Release, LockedLabels
    <3>. QED BY <3>1 DEF LockProofs!Next
  <2>. QED BY <1>3, <2>2, <2>3, <2>4
            DEF CallStep, StartCall, ReturnTrue, SkipLibrary, Lookup, AddWeak, Create, Claim,
                ParseSucceeds, AddFile, Link, Schedule
<1>4. GraphStep \/ UNCHANGED vars => UNCHANGED lock
  BY DEF GraphStep, BeginWave, EndWave, Crash, EndGraph, vars
<1>5. LockProofs!Next \/ UNCHANGED lock
  BY <1>3, <1>4 DEF Next, GraphStep, Ended
<1>. QED BY <1>5 DEF lock, LockProofs!vars

(* So every step keeps the invariant of the locks. *)
LEMMA LockStep ==
  ASSUME LockProofs!Inv, CallsAreAtFiles, [Next]_vars
  PROVE  LockProofs!Inv'
<1>1. IsFiniteSet(Files) /\ NoFile \notin Files
  BY ResolverAssumption
<1>2. LockProofs!IsFiniteSet(Files)
  BY <1>1 DEF LockProofs!IsFiniteSet, IsFiniteSet
<1>. QED BY <1>1, <1>2, LocksAreUsed, LockProofs!NextInv

(* Every step keeps CallsAreAtFiles. *)
LEMMA AtFilesStep ==
  ASSUME TypeOK, CallsAreAtFiles, [Next]_vars
  PROVE  CallsAreAtFiles'
<1>1. ASSUME NEW t \in Files, CallStep(t)
      PROVE  CallsAreAtFiles'
  <2>1. pc'[t] \in LockedLabels \cup {"locking"} =>
          \/ pc[t] \in LockedLabels \cup {"locking"}
          \/ left[t] # <<>> /\ dep(t) \in Files
    BY <1>1 DEF CallStep, StartCall, ReturnTrue, SkipLibrary, EnterLock, GetLock, Lookup, AddWeak,
                NodeMissing, Create, Claim, ParseSucceeds, ParseFails, AddFile, Link, Schedule,
                Unlock, Goto, TypeOK, LockedLabels
  <2>2. /\ \A u \in Files : u # t => pc'[u] = pc[u] /\ left'[u] = left[u]
        /\ left'[t] = left[t] \/ pc'[t] = "import"
    BY <1>1, CallFrame
  <2>. QED BY <2>1, <2>2 DEF CallsAreAtFiles, LockedLabels, dep
<1>2. CASE BeginWave
  BY <1>2 DEF BeginWave, CallsAreAtFiles, LockedLabels, dep
<1>3. CASE EndWave \/ Crash \/ EndGraph \/ UNCHANGED vars
  BY <1>3 DEF EndWave, Crash, EndGraph, vars, CallsAreAtFiles, dep
<1>. QED BY <1>1, <1>2, <1>3 DEF Next, GraphStep, Ended

(* Every step keeps LocksFollowCalls. *)
LEMMA LocksFollowStep ==
  ASSUME TypeOK, CallsAreAtFiles, LocksFollowCalls, CallsFollowWaves, [Next]_vars
  PROVE  LocksFollowCalls'
<1>1. ASSUME NEW t \in Files, CallStep(t)
      PROVE  LocksFollowCalls'
  <2>1. /\ \A u \in Files : u # t => pc'[u] = pc[u] /\ left'[u] = left[u]
        /\ left'[t] = left[t] \/ pc'[t] = "import"
    BY <1>1, CallFrame
  <2>2. ASSUME NEW u \in Files, u # t, NEW f \in Files
        PROVE  (<<u, f>> \in holding' <=> <<u, f>> \in holding)
               /\ (<<u, f>> \in counted' <=> <<u, f>> \in counted)
    BY <1>1, <2>2 DEF CallStep, StartCall, ReturnTrue, SkipLibrary, EnterLock, GetLock, Lookup,
                AddWeak, NodeMissing, Create, Claim, ParseSucceeds, ParseFails, AddFile, Link,
                Schedule, Unlock, lock, Lock!Register, Lock!Acquire, Lock!Release
  <2>3. ASSUME NEW f \in Files
        PROVE  /\ <<t, f>> \in holding' <=> pc'[t] \in LockedLabels /\ f = Head(left'[t])
               /\ <<t, f>> \in counted' <=> pc'[t] = "locking" /\ f = Head(left'[t])
    <3>0. /\ <<t, f>> \in holding <=> pc[t] \in LockedLabels /\ f = dep(t)
          /\ <<t, f>> \in counted <=> pc[t] = "locking" /\ f = dep(t)
      BY DEF LocksFollowCalls
    <3>. USE <3>0 DEF TypeOK, Goto, LockedLabels, dep
    <3>1. CASE EnterLock(t)
      BY <3>1 DEF EnterLock, Lock!Register
    <3>2. CASE GetLock(t)
      BY <3>2 DEF GetLock, Lock!Acquire
    <3>3. CASE NodeMissing(t)
      BY <3>3 DEF NodeMissing, Lock!Release
    <3>4. CASE ParseFails(t)
      BY <3>4 DEF ParseFails, Lock!Release
    <3>5. CASE Unlock(t)
      BY <3>5 DEF Unlock, Lock!Release
    <3>6. CASE SkipLibrary(t) \/ StartCall(t) \/ ReturnTrue(t)
      BY <3>6 DEF SkipLibrary, StartCall, ReturnTrue, lock
    <3>7. CASE \/ Lookup(t) \/ AddWeak(t) \/ Create(t) \/ Claim(t) \/ ParseSucceeds(t)
               \/ AddFile(t) \/ Link(t) \/ Schedule(t)
      BY <3>7 DEF Lookup, AddWeak, Create, Claim, ParseSucceeds, AddFile, Link, Schedule, lock
    <3>. QED BY <1>1, <3>1, <3>2, <3>3, <3>4, <3>5, <3>6, <3>7 DEF CallStep
  <2>4. ASSUME NEW u \in Files, u # t, NEW f \in Files
        PROVE  /\ <<u, f>> \in holding' <=> pc'[u] \in LockedLabels /\ f = Head(left'[u])
               /\ <<u, f>> \in counted' <=> pc'[u] = "locking" /\ f = Head(left'[u])
    BY <2>1, <2>2, <2>4 DEF LocksFollowCalls, dep
  <2>. QED BY <2>3, <2>4 DEF LocksFollowCalls, dep
<1>2. CASE BeginWave
  <2>1. \A t, f \in Files : <<t, f>> \notin holding /\ <<t, f>> \notin counted
    BY <1>2 DEF BeginWave, CallsFollowWaves, LocksFollowCalls, LockedLabels
  <2>. QED BY <1>2, <2>1 DEF BeginWave, LocksFollowCalls, LockedLabels, lock
<1>3. CASE EndWave \/ Crash \/ EndGraph \/ UNCHANGED vars
  BY <1>3 DEF EndWave, Crash, EndGraph, vars, lock, LocksFollowCalls, dep
<1>. QED BY <1>1, <1>2, <1>3 DEF Next, GraphStep, Ended

----------------------------------------
(* Waves, maps and what the calls know. *)

(* Every step keeps CallsFollowWaves: a file scheduled for the next wave
   is not in this one. *)
LEMMA WavesStep ==
  ASSUME TypeOK, CallsAreAtFiles, CallsFollowWaves, MapsAreNested, CallsKnowTheirFile, [Next]_vars
  PROVE  CallsFollowWaves'
<1>1. ASSUME NEW t \in Files, CallStep(t)
      PROVE  CallsFollowWaves'
  <2>1. /\ phase = "wave" /\ phase' = "wave"
        /\ UNCHANGED <<imports, open, postponed>>
        /\ \A u \in Files : u # t => pc'[u] = pc[u] /\ left'[u] = left[u]
        /\ pc[t] # "idle"
        /\ \/ left'[t] = left[t]
           \/ left[t] # <<>> /\ left'[t] = Tail(left[t]) /\ pc'[t] = "import"
    BY <1>1, CallFrame
  <2>2. next' \cap open = {}
    <3>0. next \cap open = {}
      BY <2>1 DEF CallsFollowWaves
    <3>1. CASE Schedule(t)
      <4>1. phase = "wave" /\ pc[t] = "schedule" /\ next' \subseteq next \cup {dep(t)}
        BY <3>1 DEF Schedule
      <4>2. dep(t) \notin open
        BY <4>1 DEF CallsKnowTheirFile
      <4>. QED BY <3>0, <4>1, <4>2
    <3>2. CASE next' = next
      BY <2>1, <3>2 DEF CallsFollowWaves
    <3>. QED BY <1>1, <3>1, <3>2 DEF CallStep, StartCall, ReturnTrue, SkipLibrary, EnterLock,
                GetLock, Lookup, AddWeak, NodeMissing, Create, Claim, ParseSucceeds, ParseFails,
                AddFile, Link, Unlock
  <2>3. pc'[t] = "ok" => left'[t] = <<>>
    BY <1>1, <2>1 DEF CallsFollowWaves, CallStep, StartCall, ReturnTrue, TypeOK, Goto,
                SkipLibrary, EnterLock, GetLock, Lookup, AddWeak, NodeMissing, Create, Claim,
                ParseSucceeds, ParseFails, AddFile, Link, Schedule, Unlock
  <2>4. Elems(left'[t]) \subseteq Elems(left[t])
    <3>1. left[t] \in Seq(Files \cup {Core, Library})
      BY DEF TypeOK
    <3>2. left[t] # <<>> => Elems(Tail(left[t])) \subseteq Elems(left[t])
      BY <3>1, TailElems
    <3>. QED BY <2>1, <3>2
  <2>. QED BY <2>1, <2>2, <2>3, <2>4 DEF CallsFollowWaves
<1>2. CASE BeginWave
  <2>1. postponed' = {} /\ open' \subseteq Files
    BY <1>2 DEF BeginWave, MapsAreNested, TypeOK
  <2>2. next' \cap open' = {} /\ phase' = "wave" /\ imports' = imports
    BY <1>2 DEF BeginWave, input
  <2>3. ASSUME NEW t \in Files
        PROVE  /\ pc'[t] # "idle" => t \in open'
               /\ pc'[t] # "ok"
               /\ left'[t] = imports[t] \/ left'[t] = <<>>
    BY <1>2 DEF BeginWave
  <2>. QED BY <2>1, <2>2, <2>3, ElemsEmpty DEF CallsFollowWaves
<1>3. CASE EndWave
  <2>1. postponed' = {} /\ phase' # "wave" /\ pc' = pc
    BY <1>3 DEF EndWave, CallsFollowWaves
  <2>2. phase' = "open" => \A t \in Files : pc[t] \in {"idle", "ok"}
    BY <1>3 DEF EndWave, CallsFollowWaves
  <2>. QED BY <2>1, <2>2 DEF CallsFollowWaves
<1>4. CASE Crash \/ EndGraph
  BY <1>4 DEF Crash, EndGraph, CallsFollowWaves
<1>5. CASE UNCHANGED vars
  BY <1>5 DEF vars, input, waves, CallsFollowWaves
<1>. QED BY <1>1, <1>2, <1>3, <1>4, <1>5 DEF Next, GraphStep, Ended

(* Every step keeps MapsAreNested. *)
LEMMA MapsStep ==
  ASSUME TypeOK, CallsAreAtFiles, CallsFollowWaves, MapsAreNested, CallsKnowTheirFile, [Next]_vars
  PROVE  MapsAreNested'
<1>1. ASSUME NEW t \in Files, CallStep(t)
      PROVE  MapsAreNested'
  <2>1. UNCHANGED <<broken, open>>
    BY <1>1, CallFrame
  <2>. USE <2>1 DEF MapsAreNested, graph
  <2>2. CASE Claim(t)
    BY <2>2 DEF Claim
  <2>3. CASE AddFile(t)
    BY <2>3 DEF AddFile, CallsKnowTheirFile
  <2>4. CASE AddWeak(t)
    BY <2>4 DEF AddWeak
  <2>5. CASE Link(t)
    BY <2>5 DEF Link, CallsKnowTheirFile
  <2>6. CASE Schedule(t)
    BY <2>6 DEF Schedule, CallsKnowTheirFile
  <2>7. CASE UNCHANGED <<namespace_map, dependency_map, graph, next>>
    BY <2>7
  <2>. QED BY <1>1, <2>2, <2>3, <2>4, <2>5, <2>6, <2>7
            DEF CallStep, StartCall, ReturnTrue, SkipLibrary, EnterLock, GetLock, Lookup,
                NodeMissing, Create, ParseSucceeds, ParseFails, Unlock
<1>2. CASE BeginWave
  BY <1>2 DEF BeginWave, MapsAreNested, input, graph
<1>3. CASE EndWave \/ Crash \/ EndGraph
  BY <1>3 DEF EndWave, Crash, EndGraph, MapsAreNested, CallsFollowWaves, input, graph
<1>4. CASE UNCHANGED vars
  BY <1>4 DEF vars, input, graph, waves, MapsAreNested
<1>. QED BY <1>1, <1>2, <1>3, <1>4 DEF Next, GraphStep, Ended

(* The maps and the edges grow by the file the call is at. *)
LEMMA MapsGrow ==
  ASSUME NEW t \in Files, CallStep(t)
  PROVE  /\ \/ namespace_map' = namespace_map
            \/ pc[t] \in LockedLabels /\ namespace_map' = namespace_map \cup {dep(t)}
         /\ \/ dependency_map' = dependency_map
            \/ pc[t] \in LockedLabels /\ dependency_map' = dependency_map \cup {dep(t)}
         /\ \/ dependency_node_map' = dependency_node_map
            \/ pc[t] \in LockedLabels /\ dependency_node_map' = dependency_node_map \cup {dep(t)}
         /\ \/ (shared \cup weak)' = shared \cup weak
            \/ pc[t] \in LockedLabels /\ (shared \cup weak)' = (shared \cup weak) \cup {<<t, dep(t)>>}
         /\ \/ next' = next
            \/ pc[t] \in LockedLabels /\ next' = next \cup {dep(t)}
BY DEF CallStep, StartCall, ReturnTrue, SkipLibrary, EnterLock, GetLock, Lookup, AddWeak,
       NodeMissing, Create, Claim, ParseSucceeds, ParseFails, AddFile, Link, Schedule,
       Unlock, graph, LockedLabels

(* Every step keeps CallsKnowTheirFile: another call cannot change what
   this one has read, because it would have to hold the same lock. *)
LEMMA KnowStep ==
  ASSUME Inv, [Next]_vars
  PROVE  CallsKnowTheirFile'
<1>. USE DEF Inv
<1>1. ASSUME NEW t \in Files, CallStep(t)
      PROVE  CallsKnowTheirFile'
  <2>1. /\ phase = "wave" /\ UNCHANGED <<broken, open>>
        /\ \A u \in Files : u # t => pc'[u] = pc[u] /\ left'[u] = left[u]
        /\ left'[t] = left[t] \/ pc'[t] = "import"
    BY <1>1, CallFrame
  <2>2. ASSUME NEW u \in Files, u # t, pc[u] \in LockedLabels
        PROVE  pc[t] \in LockedLabels => dep(u) # dep(t)
    BY <2>2, Exclusive DEF CallsAreAtFiles
  <2>3. ASSUME NEW u \in Files, u # t
        PROVE  /\ pc[u] = "known" => dep(u) \in namespace_map'
               /\ pc[u] \in {"create", "claim"} => dep(u) \notin namespace_map'
               /\ pc[u] \in {"parse", "add"} => dep(u) \in namespace_map' \ dependency_map'
               /\ pc[u] = "link" => dep(u) \in dependency_map' \ dependency_node_map'
               /\ pc[u] \in {"add", "link"} => dep(u) \notin broken
               /\ pc[u] = "schedule" => dep(u) \in dependency_node_map' /\ dep(u) \notin open
               /\ pc[u] \in {"schedule", "unlock"} => <<u, dep(u)>> \in (shared \cup weak)'
    BY <1>1, <2>1, <2>2, <2>3, MapsGrow DEF CallsKnowTheirFile, LockedLabels
  <2>4. LET f == dep(t) IN
        /\ pc'[t] = "known" => f \in namespace_map'
        /\ pc'[t] \in {"create", "claim"} => f \notin namespace_map'
        /\ pc'[t] \in {"parse", "add"} => f \in namespace_map' \ dependency_map'
        /\ pc'[t] = "link" => f \in dependency_map' \ dependency_node_map'
        /\ pc'[t] \in {"add", "link"} => f \notin broken
        /\ pc'[t] = "schedule" => f \in dependency_node_map' /\ f \notin open
        /\ pc'[t] \in {"schedule", "unlock"} => <<t, f>> \in (shared \cup weak)'
    <3>. USE DEF CallsKnowTheirFile, TypeOK, Goto, graph
    <3>1. CASE Lookup(t)
      BY <3>1 DEF Lookup
    <3>2. CASE Create(t)
      BY <3>2 DEF Create
    <3>3. CASE Claim(t)
      BY <3>3 DEF Claim, MapsAreNested
    <3>4. CASE ParseSucceeds(t)
      BY <3>4 DEF ParseSucceeds
    <3>5. CASE AddFile(t)
      BY <3>5 DEF AddFile, MapsAreNested
    <3>6. CASE Link(t)
      BY <3>6 DEF Link, MapsAreNested
    <3>7. CASE Schedule(t) \/ AddWeak(t)
      BY <3>7 DEF Schedule, AddWeak
    <3>8. CASE \/ StartCall(t) \/ ReturnTrue(t) \/ SkipLibrary(t) \/ EnterLock(t) \/ GetLock(t)
               \/ NodeMissing(t) \/ ParseFails(t) \/ Unlock(t)
      BY <3>8 DEF StartCall, ReturnTrue, SkipLibrary, EnterLock, GetLock, NodeMissing, ParseFails,
                  Unlock
    <3>. QED BY <1>1, <3>1, <3>2, <3>3, <3>4, <3>5, <3>6, <3>7, <3>8 DEF CallStep
  <2>. QED BY <2>1, <2>3, <2>4 DEF CallsKnowTheirFile, dep
<1>2. CASE BeginWave
  BY <1>2 DEF BeginWave, CallsKnowTheirFile
<1>3. CASE EndWave \/ Crash \/ EndGraph
  BY <1>3 DEF EndWave, Crash, EndGraph, CallsKnowTheirFile, dep, graph, input
<1>4. CASE UNCHANGED vars
  BY <1>4 DEF vars, input, graph, waves, CallsKnowTheirFile, dep
<1>. QED BY <1>1, <1>2, <1>3, <1>4 DEF Next, GraphStep, Ended

(* Every step keeps NodesFollowNamespaces. *)
LEMMA NamespacesStep ==
  ASSUME Inv, [Next]_vars
  PROVE  NodesFollowNamespaces'
<1>. USE DEF Inv
<1>1. ASSUME NEW t \in Files, CallStep(t)
      PROVE  NodesFollowNamespaces'
  <2>1. /\ UNCHANGED <<broken, open>>
        /\ \A u \in Files : u # t => pc'[u] = pc[u] /\ left'[u] = left[u]
    BY <1>1, CallFrame
  <2>2. open' \subseteq dependency_node_map'
    BY <1>1, <2>1, MapsGrow DEF NodesFollowNamespaces
  <2>3. ASSUME NEW f \in namespace_map' \ dependency_node_map', f \notin broken
        PROVE  \E u \in Files : pc'[u] \in {"parse", "add", "link"} /\ Head(left'[u]) = f
    <3>1. ASSUME f \in namespace_map
          PROVE  \E u \in Files : pc[u] \in {"parse", "add", "link"} /\ dep(u) = f
      BY <1>1, <2>3, <3>1, MapsGrow DEF NodesFollowNamespaces
    <3>2. pc[t] \in {"parse", "add", "link"} /\ dep(t) = f =>
            pc'[t] \in {"parse", "add", "link"} /\ left'[t] = left[t]
      BY <1>1, <2>3 DEF CallStep, StartCall, ReturnTrue, SkipLibrary, EnterLock, GetLock, Lookup,
            AddWeak, NodeMissing, Create, Claim, ParseSucceeds, ParseFails, AddFile, Link, Schedule,
            Unlock, Goto, TypeOK, CallsKnowTheirFile
    <3>3. f \notin namespace_map => pc'[t] = "parse" /\ left'[t] = left[t] /\ dep(t) = f
      BY <1>1, <2>3 DEF CallStep, StartCall, ReturnTrue, SkipLibrary, EnterLock, GetLock, Lookup,
            AddWeak, NodeMissing, Create, Claim, ParseSucceeds, ParseFails, AddFile, Link, Schedule,
            Unlock, Goto, TypeOK
    <3>. QED BY <2>1, <3>1, <3>2, <3>3 DEF dep
  <2>. QED BY <2>1, <2>2, <2>3 DEF NodesFollowNamespaces, dep
<1>2. CASE BeginWave
  <2>1. \A t \in Files : pc[t] \notin {"parse", "add", "link"}
    BY <1>2 DEF BeginWave, CallsFollowWaves
  <2>. QED BY <1>2, <2>1 DEF BeginWave, NodesFollowNamespaces, input, graph
<1>3. CASE EndWave \/ Crash \/ EndGraph
  <2>1. open' \subseteq dependency_node_map'
    BY <1>3 DEF EndWave, Crash, EndGraph, MapsAreNested, CallsFollowWaves, graph
  <2>2. UNCHANGED <<namespace_map, dependency_node_map, broken, pc, left>>
    BY <1>3 DEF EndWave, Crash, EndGraph, graph, input
  <2>. QED BY <2>1, <2>2 DEF NodesFollowNamespaces, dep
<1>4. CASE UNCHANGED vars
  BY <1>4 DEF vars, input, graph, waves, NodesFollowNamespaces, dep
<1>. QED BY <1>1, <1>2, <1>3, <1>4 DEF Next, GraphStep, Ended

----------------------------------------
(* The edges and the nodes. *)

(* The file a call is at is imported by the file it works for. *)
LEMMA AtAnImport ==
  ASSUME Inv, phase = "wave", NEW t \in Files, pc[t] \in LockedLabels
  PROVE  /\ t \in open /\ t \in dependency_node_map /\ t \notin next
         /\ dep(t) \in Files /\ dep(t) \in Imported(t)
<1>. USE DEF Inv
<1>1. t \in open /\ t \in dependency_node_map /\ t \notin next
  BY DEF CallsFollowWaves, MapsAreNested, LockedLabels
<1>2. left[t] # <<>> /\ dep(t) \in Files
  BY DEF CallsAreAtFiles
<1>3. dep(t) \in Elems(left[t])
  BY <1>2, TailElems DEF TypeOK, dep
<1>4. dep(t) \in Elems(imports[t])
  BY <1>3 DEF CallsFollowWaves
<1>. QED BY <1>1, <1>2, <1>4 DEF Imported, Elems

(* Every step keeps EdgesAreImports. *)
LEMMA EdgesStep ==
  ASSUME Inv, [Next]_vars
  PROVE  EdgesAreImports'
<1>. USE DEF Inv
<1>1. ASSUME NEW t \in Files, CallStep(t)
      PROVE  EdgesAreImports'
  <2>1. /\ phase = "wave" /\ phase' = "wave" /\ UNCHANGED <<imports, open>>
        /\ \A u \in Files : u # t => pc'[u] = pc[u] /\ left'[u] = left[u]
    BY <1>1, CallFrame
  <2>. DEFINE edges == shared \cup weak
  <2>2. CASE AddWeak(t) \/ Link(t)
    <3>1. /\ pc[t] \in LockedLabels /\ edges' = edges \cup {<<t, dep(t)>>} /\ next' = next
          /\ dep(t) \in dependency_node_map' /\ dependency_node_map \subseteq dependency_node_map'
      BY <2>2 DEF AddWeak, Link, LockedLabels
    <3>2. t \in open /\ t \in dependency_node_map /\ t \notin next /\ dep(t) \in Imported(t)
      BY <2>1, <3>1, AtAnImport
    <3>3. ASSUME NEW f \in Files, NEW g \in Files, <<f, g>> \in edges'
          PROVE  /\ f \in dependency_node_map' /\ g \in dependency_node_map'
                 /\ g \in Imported(f) /\ f \notin next'
      BY <3>1, <3>2, <3>3 DEF EdgesAreImports
    <3>4. ASSUME NEW u \in Files, NEW g \in Files, pc'[u] = "schedule"
          PROVE  <<Head(left'[u]), g>> \notin edges'
      <4>1. CASE u # t
        <5>1. pc[u] = "schedule" /\ Head(left'[u]) = dep(u)
          BY <2>1, <3>4, <4>1 DEF dep
        <5>2. dep(u) # t
          BY <2>1, <3>2, <5>1 DEF CallsKnowTheirFile
        <5>3. <<dep(u), g>> \notin edges
          BY <5>1 DEF EdgesAreImports
        <5>. QED BY <3>1, <5>1, <5>2, <5>3
      <4>2. CASE u = t
        <5>1. Link(t) /\ Head(left'[u]) = dep(t)
          BY <2>2, <3>4, <4>2 DEF AddWeak, Link, Goto, TypeOK, dep
        <5>2. dep(t) \notin dependency_node_map /\ dep(t) \in Files
          BY <5>1 DEF Link, CallsKnowTheirFile, CallsAreAtFiles, LockedLabels
        <5>3. <<dep(t), g>> \notin edges
          BY <5>2 DEF EdgesAreImports
        <5>4. dep(t) # t
          BY <3>2, <5>2
        <5>. QED BY <3>1, <5>1, <5>3, <5>4
      <4>. QED BY <4>1, <4>2
    <3>. QED BY <2>1, <3>3, <3>4 DEF EdgesAreImports, Imported, dep
  <2>3. CASE ~(AddWeak(t) \/ Link(t))
    <3>1. UNCHANGED <<shared, weak, dependency_node_map>>
      BY <1>1, <2>3 DEF CallStep, StartCall, ReturnTrue, SkipLibrary, EnterLock, GetLock, Lookup,
            NodeMissing, Create, Claim, ParseSucceeds, ParseFails, AddFile, Schedule, Unlock, graph
    <3>2. next' = next \/ (pc[t] = "schedule" /\ next' = next \cup {dep(t)})
      BY <1>1, <2>3 DEF CallStep, StartCall, ReturnTrue, SkipLibrary, EnterLock, GetLock, Lookup,
            NodeMissing, Create, Claim, ParseSucceeds, ParseFails, AddFile, Schedule, Unlock
    <3>3. ASSUME NEW f \in Files, NEW g \in Files, <<f, g>> \in edges
          PROVE  f \notin next'
      BY <3>2, <3>3 DEF EdgesAreImports
    <3>4. pc'[t] # "schedule"
      BY <1>1, <2>3 DEF CallStep, StartCall, ReturnTrue, SkipLibrary, EnterLock, GetLock, Lookup,
            NodeMissing, Create, Claim, ParseSucceeds, ParseFails, AddFile, Schedule, Unlock,
            Goto, TypeOK
    <3>5. ASSUME NEW u \in Files, NEW g \in Files, pc'[u] = "schedule"
          PROVE  <<Head(left'[u]), g>> \notin edges
      BY <2>1, <3>4, <3>5 DEF EdgesAreImports, dep
    <3>. QED BY <2>1, <3>1, <3>3, <3>5 DEF EdgesAreImports, Imported, dep
  <2>. QED BY <2>2, <2>3
<1>2. CASE BeginWave
  BY <1>2 DEF BeginWave, EdgesAreImports, Imported, input, graph
<1>3. CASE EndWave
  <2>1. open' = next \/ phase' # "open"
    BY <1>3 DEF EndWave, CallsFollowWaves
  <2>2. UNCHANGED <<imports, next, shared, weak, dependency_node_map, pc, left>>
    BY <1>3 DEF EndWave, input, graph
  <2>. QED BY <2>1, <2>2 DEF EdgesAreImports, Imported, dep
<1>4. CASE Crash \/ EndGraph
  BY <1>4 DEF Crash, EndGraph, EdgesAreImports, Imported, dep, input, graph
<1>5. CASE UNCHANGED vars
  BY <1>5 DEF vars, input, graph, waves, EdgesAreImports, Imported, dep
<1>. QED BY <1>1, <1>2, <1>3, <1>4, <1>5 DEF Next, GraphStep, Ended

(* Every step keeps NodesAreReachable: a new node is an import of a
   node. *)
LEMMA ReachableStep ==
  ASSUME Inv, [Next]_vars
  PROVE  NodesAreReachable'
<1>. USE DEF Inv
<1>1. ASSUME NEW t \in Files, Link(t)
      PROVE  NodesAreReachable'
  <2>1. /\ imports' = imports /\ dependency_node_map' = dependency_node_map \cup {dep(t)}
        /\ phase = "wave" /\ pc[t] \in LockedLabels
    BY <1>1 DEF Link, input, LockedLabels
  <2>2. t \in dependency_node_map /\ dep(t) \in Imported(t)
    BY <2>1, AtAnImport
  <2>. QED BY <2>1, <2>2 DEF NodesAreReachable, Imported
<1>2. CASE UNCHANGED <<imports, dependency_node_map>>
  BY <1>2 DEF NodesAreReachable, Imported
<1>3. (\E t \in Files : Link(t)) \/ UNCHANGED <<imports, dependency_node_map>>
  BY DEF Next, GraphStep, Ended, BeginWave, EndWave, Crash, EndGraph, CallStep, StartCall,
         ReturnTrue, SkipLibrary, EnterLock, GetLock, Lookup, AddWeak, NodeMissing, Create, Claim,
         ParseSucceeds, ParseFails, AddFile, Link, Schedule, Unlock, vars, graph, input
<1>. QED BY <1>1, <1>2, <1>3

(* Every step keeps NodesAreOwned: a new node is owned by the file whose
   import created it, and nothing that exists changes its owner. *)
LEMMA OwnedStep ==
  ASSUME Inv, [Next]_vars
  PROVE  NodesAreOwned'
<1>. USE DEF Inv
<1>1. ASSUME NEW t \in Files, Link(t)
      PROVE  NodesAreOwned'
  <2>. DEFINE f == dep(t)
  <2>1. /\ root' = [root EXCEPT ![f] = t] /\ shared' = shared \cup {<<t, f>>}
        /\ dependency_node_map' = dependency_node_map \cup {f}
        /\ phase = "wave" /\ pc[t] \in LockedLabels
    BY <1>1 DEF Link, LockedLabels
  <2>2. t \in dependency_node_map /\ f \in Files
    BY <2>1, AtAnImport
  <2>3. f \notin dependency_node_map /\ f # Main /\ root[f] = NoFile
    <3>1. f \notin dependency_node_map
      BY <1>1 DEF Link, CallsKnowTheirFile
    <3>. QED BY <2>2, <3>1 DEF MapsAreNested, NodesAreOwned
  <2>. HIDE DEF f
  <2>4. root' \in [Files -> Files \cup {NoFile}] /\ root'[f] = t
        /\ \A g \in Files : g # f => root'[g] = root[g]
    BY <2>1, <2>2 DEF TypeOK
  <2>5. dependency_node_map \subseteq Files /\ Main \in Files /\ Main \in dependency_node_map
    BY ResolverAssumption DEF TypeOK, MapsAreNested
  <2>6. OneOwner'
    <3>1. root'[Main] = NoFile
      BY <2>3, <2>4, <2>5 DEF NodesAreOwned, OneOwner
    <3>2. {<<root'[g], g>> : g \in dependency_node_map \ {Main}}
            = {<<root[g], g>> : g \in dependency_node_map \ {Main}}
      BY <2>3, <2>4, <2>5
    <3>3. {<<root'[g], g>> : g \in (dependency_node_map \cup {f}) \ {Main}}
            = {<<root'[g], g>> : g \in dependency_node_map \ {Main}} \cup {<<t, f>>}
      BY <2>3, <2>4
    <3>4. shared = {<<root[g], g>> : g \in dependency_node_map \ {Main}}
      BY DEF NodesAreOwned, OneOwner
    <3>. QED BY <2>1, <3>1, <3>2, <3>3, <3>4 DEF OneOwner
  <2>7. ASSUME NEW g \in Files, g \notin dependency_node_map'
        PROVE  root'[g] = NoFile
    BY <2>1, <2>4, <2>7 DEF NodesAreOwned
  <2>8. ASSUME NEW g \in dependency_node_map' \ {Main}
        PROVE  root'[g] \in dependency_node_map'
    BY <2>1, <2>2, <2>4, <2>5, <2>8 DEF NodesAreOwned
  <2>9. ASSUME NEW X \in SUBSET Files, Main \in X, \A g \in Files : root'[g] \in X => g \in X
        PROVE  dependency_node_map' \subseteq X
    <3>1. \A g \in Files : root[g] \in X => g \in X
      BY <2>3, <2>4, <2>9, ResolverAssumption
    <3>2. dependency_node_map \subseteq X
      BY <2>9, <3>1 DEF NodesAreOwned
    <3>. QED BY <2>1, <2>2, <2>4, <2>9, <3>2
  <2>. QED BY <2>6, <2>7, <2>8, <2>9 DEF NodesAreOwned
<1>2. CASE UNCHANGED <<root, shared, dependency_node_map>>
  BY <1>2 DEF NodesAreOwned, OneOwner
<1>3. (\E t \in Files : Link(t)) \/ UNCHANGED <<root, shared, dependency_node_map>>
  BY DEF Next, GraphStep, Ended, BeginWave, EndWave, Crash, EndGraph, CallStep, StartCall,
         ReturnTrue, SkipLibrary, EnterLock, GetLock, Lookup, AddWeak, NodeMissing, Create, Claim,
         ParseSucceeds, ParseFails, AddFile, Link, Schedule, Unlock, vars, graph, input
<1>. QED BY <1>1, <1>2, <1>3

(* Every step keeps ImportsAreEdges: an import leaves the list only when
   its edge has been drawn. *)
LEMMA ImportsStep ==
  ASSUME Inv, [Next]_vars
  PROVE  ImportsAreEdges'
<1>. USE DEF Inv
<1>. DEFINE edges == shared \cup weak
<1>1. ASSUME NEW t \in Files, CallStep(t)
      PROVE  ImportsAreEdges'
  <2>1. /\ phase = "wave" /\ phase' = "wave" /\ UNCHANGED <<imports, open>>
        /\ \A u \in Files : u # t => pc'[u] = pc[u] /\ left'[u] = left[u]
        /\ \/ left'[t] = left[t]
           \/ left[t] # <<>> /\ left'[t] = Tail(left[t]) /\ pc'[t] = "import"
    BY <1>1, CallFrame
  <2>2. edges \subseteq edges' /\ next \subseteq next'
    BY <1>1, MapsGrow
  <2>3. \A f \in Files : Imported(f)' = Imported(f)
    BY <2>1 DEF Imported
  <2>4. ASSUME NEW f \in dependency_node_map, NEW g \in Imported(f)
        PROVE  <<f, g>> \in edges' \/ Waits(f, g)'
    <3>1. f \in Files /\ g \in Files
      BY <2>4 DEF TypeOK, Imported
    <3>2. <<f, g>> \in edges \/ Waits(f, g)
      BY <2>1, <2>4 DEF ImportsAreEdges
    <3>3. CASE <<f, g>> \in edges
      BY <2>2, <3>3
    <3>4. CASE f \in next
      BY <2>1, <2>2, <3>4 DEF Waits
    <3>5. CASE f \in open /\ g \in Elems(left[f])
      <4>1. CASE left'[f] = left[f]
        BY <2>1, <3>5, <4>1 DEF Waits
      <4>2. CASE left'[f] # left[f]
        <5>1. f = t /\ left[t] # <<>> /\ left'[t] = Tail(left[t])
          BY <2>1, <3>1, <4>2
        <5>2. Elems(left[t]) = Elems(left'[t]) \cup {dep(t)}
          BY <5>1, TailElems DEF TypeOK, dep
        <5>3. CASE g \in Elems(left'[t])
          BY <2>1, <3>5, <5>1, <5>3 DEF Waits
        <5>4. CASE g = dep(t)
          <6>1. dep(t) \notin {Core, Library}
            BY <3>1, <5>4, ResolverAssumption
          <6>2. Unlock(t)
            BY <1>1, <4>2, <5>1, <6>1 DEF CallStep, StartCall, ReturnTrue, SkipLibrary, EnterLock,
                GetLock, Lookup, AddWeak, NodeMissing, Create, Claim, ParseSucceeds, ParseFails,
                AddFile, Link, Schedule
          <6>3. <<t, dep(t)>> \in edges
            BY <6>2 DEF Unlock, CallsKnowTheirFile
          <6>. QED BY <2>2, <5>1, <5>4, <6>3
        <5>. QED BY <3>5, <5>1, <5>2, <5>3, <5>4
      <4>. QED BY <4>1, <4>2
    <3>6. ASSUME NEW u \in Files, pc[u] = "schedule", dep(u) = f
          PROVE  Waits(f, g)'
      <4>1. CASE u # t
        BY <2>1, <3>6, <4>1 DEF Waits, dep
      <4>2. CASE u = t
        <5>1. Schedule(t)
          BY <1>1, <3>6, <4>2 DEF CallStep, StartCall, ReturnTrue, SkipLibrary, EnterLock,
                GetLock, Lookup, AddWeak, NodeMissing, Create, Claim, ParseSucceeds, ParseFails,
                AddFile, Link, Unlock
        <5>2. imports[f] # <<>>
          BY <2>4 DEF Imported
        <5>3. f \in next'
          BY <3>6, <4>2, <5>1, <5>2 DEF Schedule
        <5>. QED BY <2>1, <5>3 DEF Waits
      <4>. QED BY <4>1, <4>2
    <3>. QED BY <2>1, <3>2, <3>3, <3>4, <3>5, <3>6 DEF Waits
  <2>5. ASSUME NEW f \in dependency_node_map', f \notin dependency_node_map
        PROVE  \A g : Waits(f, g)'
    <3>1. Link(t)
      BY <1>1, <2>5 DEF CallStep, StartCall, ReturnTrue, SkipLibrary, EnterLock, GetLock, Lookup,
            AddWeak, NodeMissing, Create, Claim, ParseSucceeds, ParseFails, AddFile, Schedule,
            Unlock, graph
    <3>2. f = dep(t) /\ pc'[t] = "schedule" /\ left'[t] = left[t]
      BY <2>5, <3>1 DEF Link, Goto, TypeOK
    <3>. QED BY <2>1, <3>2 DEF Waits, dep
  <2>6. dependency_node_map' \subseteq Files
    BY TypeStep DEF TypeOK
  <2>7. ASSUME NEW f \in dependency_node_map', NEW g \in Imported(f)'
        PROVE  <<f, g>> \in edges' \/ Waits(f, g)'
    BY <2>3, <2>4, <2>5, <2>6
  <2>. QED BY <2>7 DEF ImportsAreEdges
<1>2. CASE BeginWave
  <2>1. /\ phase = "open" /\ phase' = "wave" /\ imports' = imports /\ edges' = edges
        /\ dependency_node_map' = dependency_node_map
    BY <1>2 DEF BeginWave, input, graph
  <2>2. ASSUME NEW f \in open
        PROVE  f \in open' /\ left'[f] = imports[f]
    BY <1>2, <2>2 DEF BeginWave, MapsAreNested, TypeOK
  <2>3. ASSUME NEW f \in dependency_node_map, NEW g \in Imported(f)
        PROVE  <<f, g>> \in edges \/ Waits(f, g)'
    <3>1. CASE <<f, g>> \in edges
      BY <3>1
    <3>2. CASE f \in open
      BY <2>1, <2>2, <2>3, <3>2 DEF Waits, Imported, Elems
    <3>. QED BY <2>1, <2>3, <3>1, <3>2 DEF ImportsAreEdges, Waits
  <2>. QED BY <2>1, <2>3 DEF ImportsAreEdges, Imported
<1>3. CASE EndWave
  <2>1. /\ phase = "wave" /\ imports' = imports /\ edges' = edges
        /\ dependency_node_map' = dependency_node_map
    BY <1>3 DEF EndWave, input, graph
  <2>2. CASE phase' = "failed"
    BY <2>2 DEF ImportsAreEdges
  <2>3. CASE phase' # "failed"
    <3>1. phase' = "open" /\ open' = next /\ \A t \in open : pc[t] = "ok"
      BY <1>3, <2>3 DEF EndWave, CallsFollowWaves
    <3>2. ASSUME NEW f \in dependency_node_map, NEW g \in Imported(f)
          PROVE  <<f, g>> \in edges \/ f \in next
      <4>1. \A t \in open : Elems(left[t]) = {}
        BY <2>1, <3>1, ElemsEmpty DEF CallsFollowWaves, TypeOK
      <4>2. \A t \in Files : pc[t] # "schedule"
        BY <2>1, <3>1 DEF CallsFollowWaves
      <4>. QED BY <2>1, <3>2, <4>1, <4>2 DEF ImportsAreEdges, Waits
    <3>. QED BY <2>1, <3>1, <3>2, ZenonT(60) DEF ImportsAreEdges, Waits, Imported
  <2>. QED BY <2>2, <2>3
<1>4. CASE Crash
  BY <1>4 DEF Crash, ImportsAreEdges
<1>5. CASE EndGraph
  <2>1. /\ phase = "open" /\ open = {} /\ imports' = imports /\ edges' = edges
        /\ dependency_node_map' = dependency_node_map
    BY <1>5 DEF EndGraph, input, graph
  <2>2. \A f \in dependency_node_map : \A g \in Imported(f) : <<f, g>> \in edges
    BY <2>1 DEF ImportsAreEdges, Waits
  <2>. QED BY <2>1, <2>2 DEF ImportsAreEdges, Imported
<1>6. CASE UNCHANGED vars
  BY <1>6 DEF vars, input, graph, waves, ImportsAreEdges, Waits, Imported, dep
<1>. QED BY <1>1, <1>2, <1>3, <1>4, <1>5, <1>6 DEF Next, GraphStep, Ended

----------------------------------------
(* Every step keeps CrashMeansBroken. *)
LEMMA CrashStep ==
  ASSUME Inv, [Next]_vars
  PROVE  CrashMeansBroken'
<1>. USE DEF Inv
<1>1. ASSUME NEW t \in Files, NodeMissing(t)
      PROVE  broken # {}
  <2>1. /\ pc[t] = "known" /\ pc[t] \in LockedLabels
        /\ dep(t) \in namespace_map \ dependency_node_map
    BY <1>1 DEF NodeMissing, CallsKnowTheirFile, LockedLabels
  <2>2. dep(t) \in Files
    BY <2>1 DEF CallsAreAtFiles
  <2>3. ASSUME NEW u \in Files, pc[u] \in {"parse", "add", "link"}, dep(u) = dep(t)
        PROVE  FALSE
    <3>1. pc[u] \in LockedLabels
      BY <2>3 DEF LockedLabels
    <3>2. t = u
      BY <2>1, <2>2, <2>3, <3>1, Exclusive
    <3>. QED BY <2>1, <2>3, <3>2
  <2>. QED BY <2>1, <2>3 DEF NodesFollowNamespaces
<1>2. ASSUME NEW t \in Files, CallStep(t)
      PROVE  CrashMeansBroken'
  <2>1. /\ broken' = broken /\ phase' = "wave"
        /\ \A u \in Files : u # t => pc'[u] = pc[u]
    BY <1>2, CallFrame
  <2>2. pc'[t] = "threw" => NodeMissing(t)
    BY <1>2 DEF CallStep, StartCall, ReturnTrue, SkipLibrary, EnterLock, GetLock, Lookup, AddWeak,
                Create, Claim, ParseSucceeds, ParseFails, AddFile, Link, Schedule, Unlock, Goto,
                TypeOK
  <2>. QED BY <1>1, <2>1, <2>2 DEF CrashMeansBroken
<1>3. CASE BeginWave
  BY <1>3 DEF BeginWave, CrashMeansBroken, input
<1>4. CASE EndWave \/ Crash \/ EndGraph
  BY <1>4 DEF EndWave, Crash, EndGraph, CrashMeansBroken, TypeOK, input
<1>5. CASE UNCHANGED vars
  BY <1>5 DEF vars, input, waves, CrashMeansBroken
<1>. QED BY <1>2, <1>3, <1>4, <1>5 DEF Next, GraphStep, Ended

(* The invariant holds at the start. *)
LEMMA InitInv == Init => Inv
<1>. SUFFICES ASSUME Init PROVE Inv
  OBVIOUS
<1>. USE ResolverAssumption DEF Init
<1>1. TypeOK
  BY DEF TypeOK, Labels
<1>2. LockProofs!Inv
  <2>1. IsFiniteSet(Files) /\ NoFile \notin Files
    OBVIOUS
  <2>2. LockProofs!IsFiniteSet(Files)
    BY <2>1 DEF LockProofs!IsFiniteSet, IsFiniteSet
  <2>3. LockProofs!Init
    BY DEF LockProofs!Init, Lock!Init
  <2>. QED BY <2>1, <2>2, <2>3, LockProofs!InitInv
<1>3. CallsAreAtFiles /\ CallsFollowWaves /\ MapsAreNested /\ CallsKnowTheirFile
  BY <1>1 DEF CallsAreAtFiles, CallsFollowWaves, MapsAreNested, CallsKnowTheirFile, LockedLabels
<1>4. LocksFollowCalls
  BY DEF LocksFollowCalls, LockedLabels, Lock!Init
<1>5. NodesFollowNamespaces /\ EdgesAreImports /\ ImportsAreEdges
  BY DEF NodesFollowNamespaces, EdgesAreImports, ImportsAreEdges, Waits
<1>6. NodesAreReachable /\ NodesAreOwned /\ CrashMeansBroken
  BY DEF NodesAreReachable, NodesAreOwned, OneOwner, CrashMeansBroken
<1>. QED BY <1>1, <1>2, <1>3, <1>4, <1>5, <1>6 DEF Inv

(* Every step keeps the invariant. *)
LEMMA NextInv == Inv /\ [Next]_vars => Inv'
<1>. SUFFICES ASSUME Inv, [Next]_vars PROVE Inv'
  OBVIOUS
<1>1. TypeOK' /\ LockProofs!Inv' /\ CallsAreAtFiles' /\ LocksFollowCalls'
  BY TypeStep, LockStep, AtFilesStep, LocksFollowStep DEF Inv
<1>2. CallsFollowWaves' /\ MapsAreNested' /\ CallsKnowTheirFile' /\ NodesFollowNamespaces'
  BY WavesStep, MapsStep, KnowStep, NamespacesStep DEF Inv
<1>3. EdgesAreImports' /\ ImportsAreEdges' /\ NodesAreReachable' /\ NodesAreOwned'
      /\ CrashMeansBroken'
  BY EdgesStep, ImportsStep, ReachableStep, OwnedStep, CrashStep
<1>. QED BY <1>1, <1>2, <1>3 DEF Inv

(* What Inv says of the graph. *)
LEMMA InvGraphIsSound == Inv => GraphIsSound
<1>. SUFFICES ASSUME Inv PROVE GraphIsSound
  OBVIOUS
<1>. USE DEF Inv
<1>1. ParsedOnce
  <2>1. ASSUME NEW t \in Files, pc[t] = "claim"
        PROVE  dep(t) \notin namespace_map
    BY <2>1 DEF CallsKnowTheirFile
  <2>2. ASSUME NEW t \in Files, NEW u \in Files, dep(t) = dep(u),
               {pc[t], pc[u]} \subseteq {"create", "claim", "parse", "add", "link", "schedule"}
        PROVE  t = u
    <3>1. pc[t] \in LockedLabels /\ pc[u] \in LockedLabels /\ dep(t) \in Files
      BY <2>2 DEF LockedLabels, CallsAreAtFiles
    <3>. QED BY <2>2, <3>1, Exclusive
  <2>. QED BY <2>1, <2>2 DEF ParsedOnce
<1>2. ProcessedOnce
  BY DEF ProcessedOnce, EdgesAreImports, CallsFollowWaves, TypeOK
<1>3. OwnersLeadToMain
  <2>. DEFINE all == Climb[Cardinality(Files)]
  <2>1. IsDescendants(all, Main, root, Files)
    BY OwnersClimb
  <2>. HIDE DEF all
  <2>2. all \subseteq dependency_node_map
    <3>1. \A f \in Files : root[f] \in dependency_node_map => f \in dependency_node_map
      BY ResolverAssumption DEF NodesAreOwned, TypeOK
    <3>. QED BY <2>1, <3>1 DEF IsDescendants, MapsAreNested, TypeOK
  <2>3. dependency_node_map \subseteq all
    BY <2>1 DEF IsDescendants, NodesAreOwned
  <2>4. dependency_node_map = all
    BY <2>2, <2>3
  <2>. QED BY <2>4 DEF OwnersLeadToMain, all
<1>4. GraphIsTheProgram
  <2>. SUFFICES ASSUME phase = "done"
                PROVE  /\ dependency_node_map = Program /\ Program \cap broken = {}
                       /\ shared \cup weak = {e \in Program \X Program : e[2] \in Imported(e[1])}
    BY DEF GraphIsTheProgram
  <2>1. \A f \in dependency_node_map : \A g \in Imported(f) : <<f, g>> \in shared \cup weak
    BY DEF ImportsAreEdges, Waits
  <2>2. \A f, g \in Files : <<f, g>> \in shared \cup weak =>
          f \in dependency_node_map /\ g \in dependency_node_map /\ g \in Imported(f)
    BY DEF EdgesAreImports
  <2>3. dependency_node_map \in SUBSET Files /\ shared \cup weak \subseteq Files \X Files
        /\ \A f \in Files : Imported(f) \subseteq Files
    BY DEF TypeOK, Imported
  <2>4. \A f \in dependency_node_map : Imported(f) \subseteq dependency_node_map
    BY <2>1, <2>2, <2>3
  <2>5. Program \subseteq dependency_node_map
    BY <2>3, <2>4, ProgramIsReachable DEF MapsAreNested
  <2>6. dependency_node_map \subseteq Program
    BY ProgramIsReachable DEF NodesAreReachable
  <2>7. dependency_node_map = Program
    BY <2>5, <2>6
  <2>8. shared \cup weak = {e \in Program \X Program : e[2] \in Imported(e[1])}
    BY <2>1, <2>2, <2>3, <2>7
  <2>. QED BY <2>7, <2>8 DEF MapsAreNested
<1>. QED BY <1>1, <1>2, <1>3, <1>4 DEF GraphIsSound, EachFileOnce, OwnersFormATree, NodesAreOwned

----------------------------------------
(* Each call is at one place and knows its file, the locks and the maps
   agree with the calls, and what is in the graph is owned and reachable,
   in every reachable state. *)
THEOREM ResolverInvariant == Spec => []Inv
<1>1. Init => Inv
  BY InitInv
<1>2. Inv /\ [Next]_vars => Inv'
  BY NextInv
<1>. QED BY <1>1, <1>2, PTL DEF Spec

(* The graph is sound at every step, and complete when it is returned, for
   any number of files and threads and whatever the files import. *)
THEOREM GraphStaysSound == Spec => []GraphIsSound
BY ResolverInvariant, InvGraphIsSound, PTL

(* An exception ends the compiler only when a file of the program does not
   parse: otherwise a failure is reported by the return value. *)
OnlyBrokenFilesCrash == broken = {} => FailureIsReturned

(* So as long as every file of the program parses nothing is thrown. *)
THEOREM GoodFilesDoNotCrash == Spec => []OnlyBrokenFilesCrash
<1>1. Inv => OnlyBrokenFilesCrash
  BY DEF Inv, CrashMeansBroken, OnlyBrokenFilesCrash, FailureIsReturned
<1>. QED BY <1>1, ResolverInvariant, PTL

(* The calls use the locks of the files as module ResourceLock says, so
   what holds of the locks holds here: LockIsSafe of every file's lock. *)
THEOREM ResolverUsesLocks == Spec => LockProofs!Spec /\ []LockProofs!LockIsSafe
<1>1. Init => LockProofs!Init
  BY DEF Init, Lock!Init, LockProofs!Init
<1>2. Inv /\ [Next]_vars => [LockProofs!Next]_(LockProofs!vars)
  BY LocksAreUsed DEF Inv
<1>3. Spec => LockProofs!Spec
  BY <1>1, <1>2, ResolverInvariant, PTL DEF Spec, LockProofs!Spec
<1>4. IsFiniteSet(Files) /\ NoFile \notin Files
  BY ResolverAssumption
<1>5. LockProofs!IsFiniteSet(Files)
  BY <1>4 DEF LockProofs!IsFiniteSet, IsFiniteSet
<1>6. LockProofs!Spec => []LockProofs!LockIsSafe
  BY <1>4, <1>5, LockProofs!LockKeepsItsPromise
<1>. QED BY <1>3, <1>6, PTL

----------------------------------------
(* Core modules.  Texts and their lines come first.
   What FlattenSeq computes, from left to right. *)
IsFlattening(g, S, s) ==
  /\ g \in [0 .. Len(s) -> Seq(S)] /\ g[0] = << >>
  /\ \A n \in 1 .. Len(s) : g[n] = g[n - 1] \o s[n]

(* It can be computed. *)
LEMMA HasFlattening ==
  ASSUME NEW S, NEW s \in Seq(Seq(S))
  PROVE  \E g : IsFlattening(g, S, s)
<1>1. Len(s) \in Nat /\ \A n \in 1 .. Len(s) : s[n] \in Seq(S)
  BY ElementOfSeq, LenProperties
<1>. DEFINE N == Len(s)
            step == [p \in (1 .. N) \X Seq(S) |-> p[2] \o s[p[1]]]
<1>2. step \in [(1 .. N) \X Seq(S) -> Seq(S)]
  <2>1. \A p \in (1 .. N) \X Seq(S) : p[2] \in Seq(S) /\ s[p[1]] \in Seq(S)
    BY <1>1
  <2>2. \A p \in (1 .. N) \X Seq(S) : p[2] \o s[p[1]] \in Seq(S)
    BY <2>1, ConcatProperties
  <2>. QED BY <2>2
<1>3. << >> \in Seq(S)
  BY EmptySeq
<1>4. PICK g : IsNumbered(g, Seq(S), << >>, N, step)
  <2>. HIDE DEF step, N
  <2>1. N \in Nat
    BY <1>1 DEF N
  <2>. QED BY <2>1, <1>2, <1>3, NumberedIteration
<1>5. ASSUME NEW n \in 1 .. N
      PROVE  g[n] = g[n - 1] \o s[n]
  <2>1. n - 1 \in 0 .. N
    BY <1>1
  <2>2. g[n - 1] \in Seq(S)
    BY <1>4, <2>1 DEF IsNumbered
  <2>3. <<n, g[n - 1]>> \in (1 .. N) \X Seq(S)
    BY <2>2
  <2>4. g[n] = step[<<n, g[n - 1]>>]
    BY <1>4 DEF IsNumbered
  <2>. QED BY <2>3, <2>4
<1>6. IsFlattening(g, S, s)
  BY <1>4, <1>5 DEF IsNumbered, IsFlattening
<1>. QED BY <1>6

(* And is what FlattenSeq is. *)
LEMMA Flattening ==
  ASSUME NEW S, NEW s \in Seq(Seq(S)), NEW g, IsFlattening(g, S, s)
  PROVE  FlattenSeq(s) = g[Len(s)]
<1>1. Len(s) \in Nat /\ \A n \in 1 .. Len(s) : s[n] \in Seq(S)
  BY ElementOfSeq, LenProperties
<1>2. CASE Len(s) = 0
  <2>1. s = << >>
    BY <1>2, EmptySeq
  <2>. QED BY <1>2, <2>1 DEF FlattenSeq, IsFlattening
<1>3. CASE Len(s) # 0
  <2>. DEFINE N == Len(s)
              IsIt(f) == f = [i \in 1 .. N |-> IF i = 1 THEN s[i] ELSE f[i - 1] \o s[i]]
              f0 == [i \in 1 .. N |-> g[i]]
              f1 == CHOOSE f : IsIt(f)
  <2>1. IsIt(f0)
    <3>1. ASSUME NEW i \in 1 .. N
          PROVE  g[i] = IF i = 1 THEN s[i] ELSE f0[i - 1] \o s[i]
      <4>1. g[i] = g[i - 1] \o s[i] /\ s[i] \in Seq(S)
        BY <1>1 DEF IsFlattening
      <4>2. CASE i = 1
        <5>1. i - 1 = 0
          BY <4>2
        <5>2. g[i] = << >> \o s[i]
          BY <4>1, <5>1 DEF IsFlattening
        <5>. QED BY <5>2, <4>1, <4>2, ConcatEmptySeq
      <4>3. CASE i # 1
        <5>1. i - 1 \in 1 .. N
          BY <4>3, <1>1
        <5>. QED BY <5>1, <4>1, <4>3
      <4>. QED BY <4>2, <4>3
    <3>. QED BY <3>1
  <2>2. IsIt(f1)
    BY <2>1, Zenon
  <2>. DEFINE T == {n \in Nat : n \in 1 .. N => f1[n] = g[n]}
  <2>. HIDE DEF f1
  <2>3. Nat \subseteq T
    <3>1. 0 \in T
      OBVIOUS
    <3>2. ASSUME NEW n \in Nat, n \in T
          PROVE  n + 1 \in T
      <4>1. SUFFICES ASSUME n + 1 \in 1 .. N PROVE f1[n + 1] = g[n + 1]
        OBVIOUS
      <4>2. f1[n + 1] = IF n + 1 = 1 THEN s[n + 1] ELSE f1[(n + 1) - 1] \o s[n + 1]
        BY <2>2, <4>1
      <4>3. g[n + 1] = g[(n + 1) - 1] \o s[n + 1] /\ s[n + 1] \in Seq(S)
        BY <1>1, <4>1 DEF IsFlattening
      <4>4. (n + 1) - 1 = n
        OBVIOUS
      <4>5. CASE n = 0
        <5>1. g[n + 1] = << >> \o s[n + 1]
          BY <4>3, <4>4, <4>5 DEF IsFlattening
        <5>2. << >> \o s[n + 1] = s[n + 1]
          BY <4>3, ConcatEmptySeq
        <5>3. n + 1 = 1
          BY <4>5
        <5>. QED BY <4>2, <5>1, <5>2, <5>3
      <4>6. CASE n # 0
        <5>1. n \in 1 .. N /\ n + 1 # 1
          BY <4>1, <4>6, <1>1
        <5>2. f1[n] = g[n]
          BY <3>2, <5>1
        <5>. QED BY <4>2, <4>3, <4>4, <5>1, <5>2
      <4>. QED BY <4>5, <4>6
    <3>. HIDE DEF T
    <3>. QED BY <3>1, <3>2, SetInduction
  <2>4. N \in T /\ N \in 1 .. N
    BY <2>3, <1>1, <1>3
  <2>5. f1[N] = g[N]
    BY <2>4
  <2>6. FlattenSeq(s) = f1[N]
    BY <1>3 DEF FlattenSeq, f1
  <2>. QED BY <2>5, <2>6
<1>. QED BY <1>2, <1>3

(* One more. *)
LEMMA FlattenAppend ==
  ASSUME NEW S, NEW s \in Seq(Seq(S)), NEW t \in Seq(S)
  PROVE  /\ FlattenSeq(Append(s, t)) = FlattenSeq(s) \o t
         /\ FlattenSeq(s) \in Seq(S)
<1>. DEFINE u == Append(s, t)
<1>1. /\ u \in Seq(Seq(S)) /\ Len(u) = Len(s) + 1 /\ u[Len(s) + 1] = t
      /\ \A i \in 1 .. Len(s) : u[i] = s[i]
  BY AppendProperties
<1>2. Len(s) \in Nat
  BY LenProperties
<1>. HIDE DEF u
<1>3. PICK g : IsFlattening(g, S, u)
  BY <1>1, HasFlattening
<1>. DEFINE h == [n \in 0 .. Len(s) |-> g[n]]
<1>4. IsFlattening(h, S, s)
  <2>1. \A n \in 0 .. Len(s) : n \in 0 .. Len(u)
    BY <1>1, <1>2
  <2>2. h \in [0 .. Len(s) -> Seq(S)] /\ h[0] = << >>
    BY <1>2, <1>3, <2>1 DEF IsFlattening
  <2>3. ASSUME NEW n \in 1 .. Len(s)
        PROVE  h[n] = h[n - 1] \o s[n]
    <3>1. n \in 1 .. Len(u) /\ n \in 0 .. Len(s) /\ n - 1 \in 0 .. Len(s)
      BY <1>1, <1>2
    <3>2. g[n] = g[n - 1] \o u[n]
      BY <1>3, <3>1 DEF IsFlattening
    <3>. QED BY <3>1, <3>2, <1>1
  <2>. HIDE DEF h
  <2>. QED BY <2>2, <2>3 DEF IsFlattening
<1>5. FlattenSeq(s) = h[Len(s)] /\ FlattenSeq(u) = g[Len(u)]
  <2>. HIDE DEF h
  <2>. QED BY <1>1, <1>3, <1>4, Flattening
<1>6. h[Len(s)] = g[Len(s)] /\ h[Len(s)] \in Seq(S)
  <2>1. Len(s) \in 0 .. Len(s) /\ Len(s) \in 0 .. Len(u)
    BY <1>1, <1>2
  <2>. QED BY <1>3, <2>1 DEF IsFlattening
<1>7. g[Len(u)] = g[Len(s)] \o t
  <2>1. Len(u) \in 1 .. Len(u) /\ Len(u) - 1 = Len(s) /\ u[Len(u)] = t
    BY <1>1, <1>2
  <2>2. g[Len(u)] = g[Len(u) - 1] \o u[Len(u)]
    BY <1>3, <2>1 DEF IsFlattening
  <2>. QED BY <2>1, <2>2
<1>. QED BY <1>5, <1>6, <1>7 DEF u

(* Lines put together are a text; one line more is behind them. *)
LEMMA UnlinesAppend ==
  ASSUME NEW S, NL \in S, NEW ls \in Seq(Seq(S)), NEW l \in Seq(S)
  PROVE  /\ Unlines(Append(ls, l)) = Unlines(ls) \o Append(l, NL)
         /\ Unlines(ls) \in Seq(S)
<1>. DEFINE all == Append(ls, l)
            parts == [i \in DOMAIN ls |-> Append(ls[i], NL)]
            more == [i \in DOMAIN all |-> Append(all[i], NL)]
<1>1. /\ Len(ls) \in Nat /\ DOMAIN ls = 1 .. Len(ls)
      /\ \A i \in 1 .. Len(ls) : ls[i] \in Seq(S)
  BY LenProperties, ElementOfSeq
<1>2. /\ all \in Seq(Seq(S)) /\ Len(all) = Len(ls) + 1 /\ all[Len(ls) + 1] = l
      /\ \A i \in 1 .. Len(ls) : all[i] = ls[i]
      /\ DOMAIN all = 1 .. Len(ls) + 1
  BY <1>1, AppendProperties, LenProperties
<1>3. /\ parts \in Seq(Seq(S)) /\ Len(parts) = Len(ls)
      /\ \A i \in 1 .. Len(ls) : parts[i] = Append(ls[i], NL)
  <2>1. \A i \in 1 .. Len(ls) : Append(ls[i], NL) \in Seq(S)
    BY <1>1, AppendProperties
  <2>. QED BY <1>1, <2>1
<1>4. Append(l, NL) \in Seq(S)
  BY AppendProperties
<1>5. more = Append(parts, Append(l, NL))
  <2>. DEFINE two == Append(parts, Append(l, NL))
  <2>1. /\ two \in Seq(Seq(S)) /\ Len(two) = Len(ls) + 1 /\ two[Len(ls) + 1] = Append(l, NL)
        /\ \A i \in 1 .. Len(ls) : two[i] = parts[i]
    <3>. HIDE DEF parts
    <3>. QED BY <1>3, <1>4, AppendProperties
  <2>2. DOMAIN two = 1 .. Len(ls) + 1
    <3>. HIDE DEF two
    <3>. QED BY <2>1, LenProperties
  <2>3. \A i \in 1 .. Len(ls) + 1 : more[i] = two[i]
    <3>1. \A i \in 1 .. Len(ls) + 1 : i \in 1 .. Len(ls) \/ i = Len(ls) + 1
      BY <1>1
    <3>2. \A i \in 1 .. Len(ls) + 1 : more[i] = Append(all[i], NL)
      BY <1>2
    <3>. HIDE DEF two, parts, more, all
    <3>. QED BY <1>2, <1>3, <2>1, <3>1, <3>2
  <2>4. two = [i \in 1 .. Len(ls) + 1 |-> two[i]]
    <3>. HIDE DEF two
    <3>. QED BY <2>1, <2>2, LenProperties
  <2>. HIDE DEF two
  <2>. QED BY <1>2, <2>3, <2>4
<1>6. Unlines(all) = FlattenSeq(more) /\ Unlines(ls) = FlattenSeq(parts)
  BY DEF Unlines
<1>. HIDE DEF parts, more
<1>. QED BY <1>3, <1>4, <1>5, <1>6, FlattenAppend

(* No lines, no text. *)
LEMMA UnlinesNothing == Unlines(<< >>) = << >>
<1>1. \A f : DOMAIN f = {} => [i \in DOMAIN f |-> Append(f[i], NL)] = << >>
  OBVIOUS
<1>2. DOMAIN << >> = {} /\ Len(<< >>) = 0
  OBVIOUS
<1>. QED BY <1>1, <1>2 DEF Unlines, FlattenSeq

----------------------------------------
(* Numbers up to n are found again by how many of them are not larger. *)
Rank(E, m) == Cardinality({j \in E : j <= m})

(* One more number: the count grows if it is in the set. *)
LEMMA RankStep ==
  ASSUME NEW E, IsFiniteSet(E), E \subseteq Nat \ {0}, NEW m \in Nat
  PROVE  /\ Rank(E, m) \in Nat
         /\ Rank(E, m + 1) = IF m + 1 \in E THEN Rank(E, m) + 1 ELSE Rank(E, m)
<1>. DEFINE A == {j \in E : j <= m}
            B == {j \in E : j <= m + 1}
<1>1. IsFiniteSet(A)
  BY FS_Subset
<1>2. Cardinality(A) \in Nat
  BY <1>1, FS_CardinalityType
<1>3. \A j \in E : j <= m + 1 <=> (j <= m \/ j = m + 1)
  OBVIOUS
<1>4. ~(m + 1 <= m)
  OBVIOUS
<1>5. CASE m + 1 \in E
  <2>1. B = A \cup {m + 1} /\ m + 1 \notin A
    BY <1>3, <1>4, <1>5
  <2>2. Cardinality(B) = Cardinality(A) + 1
    <3>. HIDE DEF A, B
    <3>. QED BY <1>1, <2>1, FS_AddElement
  <2>. QED BY <1>2, <1>5, <2>2 DEF Rank
<1>6. CASE m + 1 \notin E
  <2>1. B = A
    BY <1>3, <1>6
  <2>. QED BY <1>2, <1>6, <2>1 DEF Rank
<1>. QED BY <1>5, <1>6

(* The same, looking back. *)
LEMMA RankBefore ==
  ASSUME NEW E, IsFiniteSet(E), E \subseteq Nat \ {0}, NEW m \in Nat \ {0}
  PROVE  /\ Rank(E, m) \in Nat /\ Rank(E, m - 1) \in Nat
         /\ Rank(E, m) = IF m \in E THEN Rank(E, m - 1) + 1 ELSE Rank(E, m - 1)
<1>1. PICK k \in Nat : k = m - 1
  OBVIOUS
<1>2. m = k + 1
  BY <1>1
<1>3. Rank(E, k + 1) = IF k + 1 \in E THEN Rank(E, k) + 1 ELSE Rank(E, k)
  BY RankStep
<1>4. Rank(E, k) \in Nat
  BY RankStep
<1>5. Rank(E, m) = IF m \in E THEN Rank(E, k) + 1 ELSE Rank(E, k)
  BY <1>2, <1>3
<1>. QED BY <1>1, <1>4, <1>5

(* The count at both ends. *)
LEMMA RankEnds ==
  ASSUME NEW n \in Nat, NEW E, E \subseteq 1 .. n
  PROVE  /\ Rank(E, 0) = 0 /\ Rank(E, n) = Cardinality(E) /\ IsFiniteSet(E)
         /\ E \subseteq Nat \ {0} /\ Cardinality(E) \in Nat
<1>1. \A j \in E : j \in Nat \ {0} /\ ~(j <= 0) /\ j <= n
  OBVIOUS
<1>2. IsFiniteSet(E)
  <2>1. IsFiniteSet(1 .. n)
    BY FS_Interval
  <2>. QED BY <2>1, FS_Subset
<1>3. {j \in E : j <= 0} = {} /\ {j \in E : j <= n} = E
  BY <1>1
<1>4. Cardinality(E) \in Nat /\ Cardinality({}) = 0
  BY <1>2, FS_CardinalityType, FS_EmptySet
<1>. QED BY <1>1, <1>2, <1>3, <1>4 DEF Rank

(* The count never shrinks. *)
LEMMA RankGrows ==
  ASSUME NEW E, IsFiniteSet(E), E \subseteq Nat \ {0}, NEW k \in Nat, NEW m \in Nat, k <= m
  PROVE  Rank(E, k) <= Rank(E, m)
<1>1. IsFiniteSet({j \in E : j <= m})
  <2>1. {j \in E : j <= m} \subseteq E
    OBVIOUS
  <2>. QED BY <2>1, FS_Subset
<1>2. {j \in E : j <= k} \subseteq {j \in E : j <= m}
  <2>1. \A j \in E : j <= k => j <= m
    OBVIOUS
  <2>. QED BY <2>1
<1>. QED BY <1>1, <1>2, FS_Subset DEF Rank

(* Each of these has one place, and they are in the same order. *)
LEMMA RankFound ==
  ASSUME NEW n \in Nat, NEW E, E \subseteq 1 .. n, NEW k \in 1 .. Cardinality(E)
  PROVE  \E i \in E : Rank(E, i) = k
<1>1. /\ Cardinality(E) \in Nat /\ Rank(E, n) = Cardinality(E) /\ Rank(E, 0) = 0
      /\ IsFiniteSet(E) /\ E \subseteq Nat \ {0}
  BY RankEnds
<1>. DEFINE T == {m \in Nat : Rank(E, m) >= k}
<1>2. n \in T
  BY <1>1
<1>3. PICK m \in T : \A l \in T : m <= l
  <2>. HIDE DEF T
  <2>1. T # {}
    BY <1>2
  <2>2. T \subseteq Nat
    BY DEF T
  <2>. QED BY <2>1, <2>2, LeastNatural
<1>4. m \in Nat \ {0} /\ Rank(E, m) >= k
  BY <1>1, <1>3
<1>5. m - 1 \in Nat /\ ~(m <= m - 1)
  BY <1>4
<1>6. /\ Rank(E, m) = IF m \in E THEN Rank(E, m - 1) + 1 ELSE Rank(E, m - 1)
      /\ Rank(E, m - 1) \in Nat
  BY <1>1, <1>4, RankBefore
<1>7. ~(Rank(E, m - 1) >= k)
  <2>1. m - 1 \notin T
    BY <1>3, <1>5
  <2>. QED BY <2>1, <1>5
<1>8. k \in Nat
  BY <1>1
<1>. QED BY <1>4, <1>6, <1>7, <1>8

(* It grows where a member of the set is passed. *)
LEMMA RankLess ==
  ASSUME NEW E, IsFiniteSet(E), E \subseteq Nat \ {0}, NEW x \in Nat, NEW y \in E, x < y
  PROVE  Rank(E, x) < Rank(E, y)
<1>1. y \in Nat \ {0} /\ y - 1 \in Nat /\ x <= y - 1
  OBVIOUS
<1>2. /\ Rank(E, y) = IF y \in E THEN Rank(E, y - 1) + 1 ELSE Rank(E, y - 1)
      /\ Rank(E, y - 1) \in Nat /\ Rank(E, y) \in Nat
  BY <1>1, RankBefore
<1>3. Rank(E, x) \in Nat
  BY RankStep
<1>4. Rank(E, x) <= Rank(E, y - 1)
  BY <1>1, RankGrows
<1>. QED BY <1>2, <1>3, <1>4

----------------------------------------
(* A text in pieces. *)
LEMMA PieceIsText ==
  ASSUME NEW S, NEW text \in Seq(S), NEW a \in Nat \ {0}, NEW b \in Nat, b <= Len(text)
  PROVE  /\ SubSeq(text, a, b) \in Seq(S)
         /\ Len(SubSeq(text, a, b)) = IF a <= b THEN b - a + 1 ELSE 0
         /\ \A i \in 1 .. Len(SubSeq(text, a, b)) : SubSeq(text, a, b)[i] = text[a + i - 1]
         /\ DOMAIN SubSeq(text, a, b) = 1 .. Len(SubSeq(text, a, b))
<1>1. Len(text) \in Nat /\ \A i \in 1 .. Len(text) : text[i] \in S
  BY LenProperties, ElementOfSeq
<1>2. \A i \in a .. b : text[i] \in S
  BY <1>1
<1>3. a \in Int /\ b \in Int
  OBVIOUS
<1>4. /\ SubSeq(text, a, b) \in Seq(S)
      /\ Len(SubSeq(text, a, b)) = IF a <= b THEN b - a + 1 ELSE 0
      /\ \A i \in 1 .. b - a + 1 : SubSeq(text, a, b)[i] = text[a + i - 1]
  BY <1>2, <1>3, SubSeqProperties
<1>5. \A i \in 1 .. Len(SubSeq(text, a, b)) : i \in 1 .. b - a + 1
  BY <1>4
<1>6. DOMAIN SubSeq(text, a, b) = 1 .. Len(SubSeq(text, a, b))
  BY <1>4, LenProperties
<1>. QED BY <1>4, <1>5, <1>6

(* A piece of a text is a shorter one and its last character. *)
LEMMA PieceAndLast ==
  ASSUME NEW S, NEW text \in Seq(S), NEW a \in 1 .. Len(text), NEW b \in a .. Len(text)
  PROVE  SubSeq(text, a, b) = Append(SubSeq(text, a, b - 1), text[b])
<1>1. Len(text) \in Nat /\ text[b] \in S
  BY LenProperties, ElementOfSeq
<1>2. SubSeq(text, a, b - 1) \in Seq(S)
  BY <1>1, PieceIsText
<1>. QED BY <1>1, <1>2, SubSeqRecursiveSecond, AppendIsConcat

(* Two pieces that lie next to each other are one. *)
LEMMA PiecesTogether ==
  ASSUME NEW S, NEW text \in Seq(S), NEW a \in 0 .. Len(text), NEW b \in a .. Len(text)
  PROVE  SubSeq(text, 1, a) \o SubSeq(text, a + 1, b) = SubSeq(text, 1, b)
<1>1. Len(text) \in Nat
  BY LenProperties
<1>2. 1 \in 1 .. Len(text) + 1 /\ a \in 1 - 1 .. Len(text)
  BY <1>1
<1>. QED BY <1>1, <1>2, ConcatAdjacentSubSeq

----------------------------------------
(* The lines of a text.  Its ends are the places of its line feeds, in
   their order; the n-th is where the n-th line ends. *)
Ends(text) == {i \in DOMAIN text : text[i] = NL}

(* The ends of the lines in their order, the beginning of the text first. *)
AreEnds(pos, text) ==
  /\ pos \in [0 .. Cardinality(Ends(text)) -> 0 .. Len(text)] /\ pos[0] = 0
  /\ \A k \in 1 .. Cardinality(Ends(text)) :
       /\ pos[k] \in Ends(text) /\ pos[k - 1] < pos[k]
       /\ \A e \in Ends(text) : ~(pos[k - 1] < e /\ e < pos[k])
  /\ \A e \in Ends(text) : e <= pos[Cardinality(Ends(text))]

(* What is known of the ends of the lines. *)
LEMMA EndsAre ==
  ASSUME NEW C, NEW text \in Seq(C)
  PROVE  /\ Len(text) \in Nat /\ DOMAIN text = 1 .. Len(text)
         /\ \A i \in 1 .. Len(text) : text[i] \in C
         /\ Ends(text) \subseteq 1 .. Len(text) /\ Ends(text) \subseteq Nat \ {0}
         /\ IsFiniteSet(Ends(text)) /\ Cardinality(Ends(text)) \in Nat
         /\ Rank(Ends(text), 0) = 0 /\ Rank(Ends(text), Len(text)) = Cardinality(Ends(text))
<1>1. /\ Len(text) \in Nat /\ DOMAIN text = 1 .. Len(text)
      /\ \A i \in 1 .. Len(text) : text[i] \in C
  BY LenProperties, ElementOfSeq
<1>2. Ends(text) \subseteq 1 .. Len(text)
  BY <1>1 DEF Ends
<1>. HIDE DEF Ends
<1>. QED BY <1>1, <1>2, RankEnds

(* Numbered by their ranks, the ends are in order. *)
LEMMA EndsInOrder ==
  ASSUME NEW C, NEW text \in Seq(C), NEW nth \in [1 .. Cardinality(Ends(text)) -> Ends(text)],
         \A k \in 1 .. Cardinality(Ends(text)) : Rank(Ends(text), nth[k]) = k
  PROVE  AreEnds([k \in 0 .. Cardinality(Ends(text)) |-> IF k = 0 THEN 0 ELSE nth[k]], text)
<1>. DEFINE E == Ends(text)
            K == Cardinality(E)
            n == Len(text)
            pos == [k \in 0 .. K |-> IF k = 0 THEN 0 ELSE nth[k]]
<1>1. /\ n \in Nat /\ E \subseteq 1 .. n /\ E \subseteq Nat \ {0} /\ IsFiniteSet(E) /\ K \in Nat
      /\ Rank(E, 0) = 0 /\ Rank(E, n) = K
  BY EndsAre
<1>. HIDE DEF E
<1>2. \A k \in 1 .. K : nth[k] \in E /\ Rank(E, nth[k]) = k
  BY DEF E
<1>. HIDE DEF K, n
<1>3. /\ pos[0] = 0 /\ \A k \in 1 .. K : pos[k] = nth[k] /\ pos[k] \in E
      /\ pos \in [0 .. K -> 0 .. n]
  <2>1. \A k \in 1 .. K : k # 0 /\ k \in 0 .. K
    BY <1>1
  <2>2. \A k \in 0 .. K : k = 0 \/ k \in 1 .. K
    BY <1>1
  <2>3. \A e \in E : e \in 0 .. n
    BY <1>1
  <2>4. 0 \in 0 .. n /\ 0 \in 0 .. K
    BY <1>1
  <2>. QED BY <1>2, <2>1, <2>2, <2>3, <2>4
<1>. HIDE DEF pos
<1>4. \A k \in 0 .. K : Rank(E, pos[k]) = k /\ pos[k] \in Nat
  <2>1. \A k \in 0 .. K : k = 0 \/ k \in 1 .. K
    BY <1>1
  <2>. QED BY <1>1, <1>2, <1>3, <2>1
<1>5. ASSUME NEW k \in 1 .. K
      PROVE  pos[k - 1] < pos[k] /\ \A e \in E : ~(pos[k - 1] < e /\ e < pos[k])
  <2>1. k - 1 \in 0 .. K /\ k \in 0 .. K /\ ~(k <= k - 1) /\ k \in Nat
    BY <1>1
  <2>2. /\ Rank(E, pos[k - 1]) = k - 1 /\ Rank(E, pos[k]) = k
        /\ pos[k - 1] \in Nat /\ pos[k] \in Nat
    BY <1>4, <2>1
  <2>3. ~(pos[k] <= pos[k - 1])
    <3>1. SUFFICES ASSUME pos[k] <= pos[k - 1] PROVE FALSE
      OBVIOUS
    <3>2. Rank(E, pos[k]) <= Rank(E, pos[k - 1])
      BY <1>1, <2>2, <3>1, RankGrows
    <3>. QED BY <2>1, <2>2, <3>2
  <2>4. ASSUME NEW e \in E, pos[k - 1] < e, e < pos[k]
        PROVE  FALSE
    <3>1. e \in Nat /\ pos[k] \in E
      BY <1>1, <1>3
    <3>2. Rank(E, pos[k - 1]) < Rank(E, e)
      BY <1>1, <2>2, <2>4, RankLess
    <3>3. Rank(E, e) < Rank(E, pos[k])
      BY <1>1, <2>2, <2>4, <3>1, RankLess
    <3>4. Rank(E, e) \in Nat
      BY <1>1, <3>1, RankStep
    <3>. QED BY <2>1, <2>2, <3>2, <3>3, <3>4
  <2>. QED BY <2>2, <2>3, <2>4
<1>6. ASSUME NEW e \in E
      PROVE  e <= pos[K]
  <2>1. e \in Nat /\ e <= n /\ K \in 0 .. K
    BY <1>1
  <2>2. Rank(E, pos[K]) = K /\ pos[K] \in Nat
    BY <1>4, <2>1
  <2>3. Rank(E, e) <= K /\ Rank(E, e) \in Nat
    BY <1>1, <2>1, RankGrows, RankStep
  <2>4. ASSUME pos[K] < e
        PROVE  FALSE
    <3>1. Rank(E, pos[K]) < Rank(E, e)
      BY <1>1, <2>2, <2>4, RankLess
    <3>. QED BY <1>1, <2>2, <2>3, <3>1
  <2>. QED BY <2>1, <2>2, <2>4
<1>7. AreEnds(pos, text)
  BY <1>3, <1>5, <1>6 DEF AreEnds, E, K, n
<1>. QED BY <1>7 DEF pos, E, K

(* The lines that end. *)
WholeLines(text, pos) == [k \in 1 .. Cardinality(Ends(text)) |-> SubSeq(text, pos[k - 1] + 1, pos[k] - 1)]

(* No line has a line feed in it. *)
Endless(ls) == \A i \in DOMAIN ls : NL \notin {ls[i][j] : j \in DOMAIN ls[i]}

(* The lines up to the last line feed, put together again, are the text up
   to there. *)
LEMMA WholeLinesAre ==
  ASSUME NEW C, NL \in C, NEW text \in Seq(C), NEW pos, AreEnds(pos, text)
  PROVE  /\ WholeLines(text, pos) \in Seq(Seq(C)) /\ Endless(WholeLines(text, pos))
         /\ Unlines(WholeLines(text, pos)) = SubSeq(text, 1, pos[Cardinality(Ends(text))])
<1>. DEFINE K == Cardinality(Ends(text))
            n == Len(text)
            whole == WholeLines(text, pos)
            parts == [k \in DOMAIN whole |-> Append(whole[k], NL)]
            g == [k \in 0 .. K |-> SubSeq(text, 1, pos[k])]
<1>1. /\ n \in Nat /\ DOMAIN text = 1 .. n /\ K \in Nat /\ \A i \in 1 .. n : text[i] \in C
  BY EndsAre
<1>2. /\ pos \in [0 .. K -> 0 .. n] /\ pos[0] = 0
      /\ \A k \in 1 .. K : /\ pos[k] \in Ends(text) /\ pos[k - 1] < pos[k]
                           /\ \A e \in Ends(text) : ~(pos[k - 1] < e /\ e < pos[k])
  BY DEF AreEnds
<1>3. DOMAIN whole = 1 .. K
  BY DEF WholeLines
<1>. HIDE DEF K, n
<1>4. ASSUME NEW k \in 1 .. K
      PROVE  /\ whole[k] \in Seq(C) /\ Append(whole[k], NL) = SubSeq(text, pos[k - 1] + 1, pos[k])
             /\ NL \notin {whole[k][j] : j \in DOMAIN whole[k]}
             /\ SubSeq(text, 1, pos[k - 1]) \o SubSeq(text, pos[k - 1] + 1, pos[k]) = SubSeq(text, 1, pos[k])
             /\ SubSeq(text, pos[k - 1] + 1, pos[k]) \in Seq(C)
  <2>1. k \in 0 .. K /\ k - 1 \in 0 .. K
    BY <1>1
  <2>2. PICK a \in Nat, b \in Nat : a = pos[k - 1] /\ b = pos[k] /\ a <= n /\ b <= n
    BY <1>1, <1>2, <2>1
  <2>3. a < b /\ text[b] = NL /\ \A e \in Ends(text) : ~(a < e /\ e < b)
    BY <1>2, <2>2 DEF Ends
  <2>4. /\ a + 1 \in Nat \ {0} /\ b - 1 \in Nat /\ b - 1 <= n /\ a + 1 \in 1 .. n /\ b \in a + 1 .. n
        /\ a \in 0 .. n /\ b \in a .. n
    BY <1>1, <2>2, <2>3
  <2>5. whole[k] = SubSeq(text, a + 1, b - 1)
    BY <1>3, <2>2 DEF WholeLines, K
  <2>6. /\ SubSeq(text, a + 1, b - 1) \in Seq(C) /\ SubSeq(text, a + 1, b) \in Seq(C)
        /\ \A i \in 1 .. Len(SubSeq(text, a + 1, b - 1)) : SubSeq(text, a + 1, b - 1)[i] = text[a + 1 + i - 1]
        /\ DOMAIN SubSeq(text, a + 1, b - 1) = 1 .. Len(SubSeq(text, a + 1, b - 1))
        /\ Len(SubSeq(text, a + 1, b - 1)) = IF a + 1 <= b - 1 THEN (b - 1) - (a + 1) + 1 ELSE 0
    <3>1. /\ SubSeq(text, a + 1, b) \in Seq(C) /\ b <= Len(text) /\ b - 1 <= Len(text)
      BY <2>2, <2>4, PieceIsText DEF n
    <3>. QED BY <2>4, <3>1, PieceIsText
  <2>7. SubSeq(text, a + 1, b) = Append(SubSeq(text, a + 1, b - 1), NL)
    BY <2>3, <2>4, PieceAndLast DEF n
  <2>8. SubSeq(text, 1, a) \o SubSeq(text, a + 1, b) = SubSeq(text, 1, b)
    BY <2>4, PiecesTogether DEF n
  <2>9. ASSUME NEW j \in DOMAIN SubSeq(text, a + 1, b - 1)
        PROVE  SubSeq(text, a + 1, b - 1)[j] # NL
    <3>1. j \in Nat /\ 1 <= j /\ j <= (b - 1) - (a + 1) + 1
      BY <2>2, <2>6
    <3>0. a \in Nat /\ b \in Nat /\ n \in Nat /\ b <= n
      BY <1>1, <2>2
    <3>2. a + 1 + j - 1 = a + j /\ a + j \in 1 .. n /\ a < a + j /\ a + j < b
      <4>. HIDE DEF whole
      <4>. QED BY <3>0, <3>1
    <3>3. SubSeq(text, a + 1, b - 1)[j] = text[a + j]
      BY <2>6, <3>2
    <3>4. a + j \notin Ends(text)
      BY <2>3, <3>2
    <3>. QED BY <1>1, <3>2, <3>3, <3>4 DEF Ends
  <2>. QED BY <2>2, <2>5, <2>6, <2>7, <2>8, <2>9
<1>5. whole \in Seq(Seq(C)) /\ Len(whole) = K
  <2>1. whole = [k \in 1 .. K |-> whole[k]]
    BY <1>3 DEF WholeLines, K
  <2>. HIDE DEF whole
  <2>2. \A k \in 1 .. K : whole[k] \in Seq(C)
    BY <1>4
  <2>3. whole \in [1 .. K -> Seq(C)]
    BY <2>1, <2>2
  <2>4. whole \in Seq(Seq(C))
    BY <1>1, <2>3
  <2>. QED BY <1>1, <1>3, <2>4, LenProperties
<1>. HIDE DEF whole
<1>6. Endless(whole)
  BY <1>3, <1>4 DEF Endless
<1>7. /\ parts \in Seq(Seq(C)) /\ Len(parts) = K
      /\ \A k \in 1 .. K : parts[k] = SubSeq(text, pos[k - 1] + 1, pos[k])
  <2>1. \A k \in 1 .. K : /\ parts[k] = SubSeq(text, pos[k - 1] + 1, pos[k])
                          /\ parts[k] \in Seq(C)
    BY <1>3, <1>4
  <2>2. parts \in [1 .. K -> Seq(C)] /\ DOMAIN parts = 1 .. K
    BY <1>3, <2>1
  <2>. HIDE DEF parts
  <2>3. parts \in Seq(Seq(C))
    BY <1>1, <2>2
  <2>. QED BY <1>1, <2>1, <2>2, <2>3, LenProperties
<1>8. IsFlattening(g, C, parts)
  <2>1. ASSUME NEW k \in 0 .. K
        PROVE  g[k] \in Seq(C)
    <3>1. pos[k] \in Nat /\ pos[k] <= n
      BY <1>1, <1>2
    <3>. QED BY <3>1, PieceIsText DEF n
  <2>2. g[0] = << >>
    <3>1. SubSeq(text, 1, 0) = << >>
      BY SubSeqEmpty
    <3>2. 0 \in 0 .. K
      BY <1>1
    <3>. QED BY <1>2, <3>1, <3>2
  <2>3. \A k \in 1 .. K : g[k] = g[k - 1] \o parts[k]
    <3>1. \A k \in 1 .. K : k \in 0 .. K /\ k - 1 \in 0 .. K
      BY <1>1
    <3>. HIDE DEF parts
    <3>. QED BY <1>4, <1>7, <3>1
  <2>4. g \in [0 .. K -> Seq(C)]
    BY <2>1
  <2>. HIDE DEF g, parts
  <2>. QED BY <1>7, <2>2, <2>3, <2>4 DEF IsFlattening
<1>9. FlattenSeq(parts) = g[K]
  <2>. HIDE DEF g, parts
  <2>. QED BY <1>7, <1>8, Flattening
<1>10. g[K] = SubSeq(text, 1, pos[K])
  <2>1. K \in 0 .. K
    BY <1>1
  <2>. QED BY <2>1
<1>11. Unlines(whole) = FlattenSeq(parts)
  BY DEF Unlines
<1>. QED BY <1>5, <1>6, <1>9, <1>10, <1>11 DEF whole, K

(* Together with what is behind the last line feed they are the text. *)
LEMMA LinesOfText ==
  ASSUME NEW C, NL \in C, NEW text \in Seq(C), Len(text) = 1 => text = <<NL>>
  PROVE  AreLinesOf(IntoLines(text), text)
<1>. DEFINE E == Ends(text)
            K == Cardinality(E)
            n == Len(text)
            nth == [k \in 1 .. K |-> CHOOSE i \in E : Cardinality({j \in E : j <= i}) = k]
            pos == [k \in 0 .. K |-> IF k = 0 THEN 0 ELSE nth[k]]
            whole == WholeLines(text, pos)
            last == IF E = {} THEN 1 ELSE nth[K]
            rest == After(text, IF E = {} THEN 0 ELSE last)
<1>1. /\ n \in Nat /\ DOMAIN text = 1 .. n /\ K \in Nat /\ \A i \in 1 .. n : text[i] \in C
      /\ E \subseteq 1 .. n /\ IsFiniteSet(E)
  BY EndsAre
<1>2. nth \in [1 .. K -> E] /\ \A k \in 1 .. K : Rank(E, nth[k]) = k
  <2>1. ASSUME NEW k \in 1 .. K
        PROVE  nth[k] \in E /\ Cardinality({j \in E : j <= nth[k]}) = k
    <3>1. \E i \in E : Cardinality({j \in E : j <= i}) = k
      <4>. HIDE DEF E, n
      <4>1. \E i \in E : Rank(E, i) = k
        BY <1>1, RankFound
      <4>. QED BY <4>1 DEF Rank
    <3>. HIDE DEF E, K
    <3>. QED BY <3>1
  <2>. HIDE DEF E, K
  <2>. QED BY <2>1 DEF Rank
<1>3. AreEnds(pos, text)
  <2>. HIDE DEF nth
  <2>. QED BY <1>2, EndsInOrder
<1>4. /\ whole \in Seq(Seq(C)) /\ Endless(whole)
      /\ Unlines(whole) = SubSeq(text, 1, pos[K])
  <2>. HIDE DEF pos
  <2>. QED BY <1>3, WholeLinesAre
<1>5. IntoLines(text) = IF last < n THEN Append(whole, rest) ELSE whole
  <2>. DEFINE start(k) == IF k = 1 THEN 1 ELSE nth[k - 1] + 1
              lines0 == [k \in DOMAIN nth |-> SubSeq(text, start(k), nth[k] - 1)]
  <2>1. IntoLines(text) = IF last < n THEN Append(lines0, rest) ELSE lines0
    BY DEF IntoLines, Ends
  <2>2. lines0 = whole
    <3>1. ASSUME NEW k \in 1 .. K
          PROVE  start(k) = pos[k - 1] + 1 /\ nth[k] = pos[k]
      <4>. HIDE DEF nth, E
      <4>1. k \in 0 .. K /\ k - 1 \in 0 .. K /\ k # 0 /\ (k - 1 = 0 <=> k = 1)
        BY <1>1
      <4>. QED BY <4>1
    <3>2. DOMAIN nth = 1 .. K
      OBVIOUS
    <3>3. whole = [k \in 1 .. K |-> SubSeq(text, pos[k - 1] + 1, pos[k] - 1)]
      BY DEF WholeLines
    <3>. HIDE DEF start, pos, nth, E, whole
    <3>. QED BY <3>1, <3>2, <3>3
  <2>. HIDE DEF lines0, whole
  <2>. QED BY <2>1, <2>2
<1>6. /\ last = (IF E = {} THEN 1 ELSE pos[K]) /\ rest = SubSeq(text, pos[K] + 1, n)
      /\ pos[K] \in 0 .. n /\ (E = {} <=> pos[K] = 0) /\ (E # {} => text[pos[K]] = NL)
  <2>1. E = {} <=> K = 0
    BY <1>1, FS_EmptySet
  <2>4. K \in 0 .. K /\ (K # 0 => K \in 1 .. K)
    <3>. HIDE DEF K
    <3>. QED BY <1>1
  <2>2. CASE E = {}
    <3>1. pos[K] = 0
      BY <2>1, <2>2, <2>4
    <3>2. last = 1 /\ rest = SubSeq(text, 0 + 1, n)
      BY <2>2 DEF After
    <3>. HIDE DEF E, nth, pos, K, last, rest
    <3>. QED BY <1>1, <2>2, <3>1, <3>2
  <2>3. CASE E # {}
    <3>1. K # 0 /\ K \in 1 .. K
      BY <2>1, <2>3, <2>4
    <3>2. pos[K] = nth[K]
      BY <3>1, <2>4
    <3>3. nth[K] \in E
      <4>. HIDE DEF nth, E, K
      <4>. QED BY <1>2, <3>1
    <3>4. pos[K] \in 1 .. n /\ text[pos[K]] = NL
      <4>. HIDE DEF nth, K, pos
      <4>. QED BY <1>1, <3>2, <3>3 DEF Ends
    <3>5. last = nth[K] /\ rest = SubSeq(text, nth[K] + 1, n)
      BY <2>3 DEF After
    <3>. HIDE DEF E, nth, pos, K, last, rest
    <3>6. pos[K] # 0 /\ pos[K] \in 0 .. n
      BY <1>1, <3>4
    <3>. QED BY <2>3, <3>2, <3>4, <3>5, <3>6
  <2>. QED BY <2>2, <2>3
<1>. HIDE DEF whole, rest, last
<1>7. \A e \in E : e <= pos[K]
  BY <1>3 DEF AreEnds
<1>. HIDE DEF pos, nth, K
<1>10. PICK p \in 0 .. n : p = pos[K]
  BY <1>6
<1>11. p \in Nat /\ p <= n
  BY <1>1
<1>8. CASE last < n
  <2>1. rest \in Seq(C) /\ NL \notin {rest[j] : j \in DOMAIN rest}
    <3>1. /\ rest \in Seq(C) /\ DOMAIN rest = 1 .. Len(rest)
          /\ Len(rest) = IF p + 1 <= n THEN n - (p + 1) + 1 ELSE 0
          /\ \A i \in 1 .. Len(rest) : rest[i] = text[p + 1 + i - 1]
      <4>. DEFINE b == p + 1
      <4>1. b \in Nat \ {0} /\ n \in Nat /\ n <= Len(text)
        BY <1>1, <1>6, <1>10, <1>11
      <4>2. rest = SubSeq(text, b, n)
        BY <1>6, <1>10
      <4>. HIDE DEF b
      <4>3. /\ SubSeq(text, b, n) \in Seq(C)
            /\ Len(SubSeq(text, b, n)) = IF b <= n THEN n - b + 1 ELSE 0
            /\ \A i \in 1 .. Len(SubSeq(text, b, n)) : SubSeq(text, b, n)[i] = text[b + i - 1]
            /\ DOMAIN SubSeq(text, b, n) = 1 .. Len(SubSeq(text, b, n))
        BY <4>1, PieceIsText
      <4>4. /\ rest \in Seq(C) /\ DOMAIN rest = 1 .. Len(rest)
            /\ Len(rest) = IF b <= n THEN n - b + 1 ELSE 0
            /\ \A i \in 1 .. Len(rest) : rest[i] = text[b + i - 1]
        BY <4>2, <4>3
      <4>. QED BY <4>4 DEF b
    <3>2. ASSUME NEW j \in DOMAIN rest
          PROVE  rest[j] # NL
      <4>0. j \in Nat /\ 1 <= j /\ j <= n - (p + 1) + 1
        BY <1>1, <1>11, <3>1
      <4>1. p + 1 + j - 1 \in 1 .. n /\ ~(p + 1 + j - 1 <= p)
        BY <1>1, <1>11, <4>0
      <4>. QED BY <1>1, <1>10, <1>7, <3>1, <4>1 DEF Ends
    <3>. QED BY <3>1, <3>2
  <2>2. text # << >> /\ Last(text) # NL
    <3>1. n \in 1 .. n /\ ~(n <= p)
      BY <1>1, <1>6, <1>10, <1>11, <1>8
    <3>2. n \notin E
      BY <1>7, <1>10, <3>1
    <3>. QED BY <1>1, <3>1, <3>2 DEF Last, Ends
  <2>3. Unlines(Append(whole, rest)) = SubSeq(text, 1, p) \o Append(rest, NL)
    BY <1>4, <1>10, <2>1, UnlinesAppend
  <2>4. SubSeq(text, 1, p) \o Append(rest, NL) = Append(text, NL)
    <3>1. SubSeq(text, 1, p) \o rest = text
      <4>0. p \in 0 .. Len(text) /\ n \in p .. Len(text)
        BY <1>1, <1>11
      <4>2. rest = SubSeq(text, p + 1, n)
        BY <1>6, <1>10
      <4>1. SubSeq(text, 1, p) \o rest = SubSeq(text, 1, n)
        BY <4>0, <4>2, PiecesTogether
      <4>. QED BY <4>1, SubSeqFull
    <3>2. SubSeq(text, 1, p) \in Seq(C) /\ <<NL>> \in Seq(C)
      BY <1>1, <1>6, <1>10, <1>11, PieceIsText
    <3>3. Append(rest, NL) = rest \o <<NL>> /\ Append(text, NL) = text \o <<NL>>
      BY <2>1, AppendIsConcat
    <3>4. SubSeq(text, 1, p) \o (rest \o <<NL>>) = (SubSeq(text, 1, p) \o rest) \o <<NL>>
      <4>1. PICK s \in Seq(C), u \in Seq(C) : s = SubSeq(text, 1, p) /\ u = <<NL>>
        BY <3>2
      <4>2. (s \o rest) \o u = s \o (rest \o u)
        BY <2>1, ConcatAssociative
      <4>. QED BY <4>1, <4>2
    <3>. QED BY <3>1, <3>3, <3>4
  <2>5. Endless(Append(whole, rest))
    <3>1. DOMAIN Append(whole, rest) = 1 .. Len(whole) + 1 /\ DOMAIN whole = 1 .. Len(whole) /\ Len(whole) \in Nat
      BY <1>4, <1>10, <2>1, AppendProperties, LenProperties
    <3>2. Append(whole, rest)[Len(whole) + 1] = rest /\ \A i \in 1 .. Len(whole) : Append(whole, rest)[i] = whole[i]
      BY <1>4, <1>10, <2>1, AppendProperties
    <3>3. \A i \in 1 .. Len(whole) + 1 : i \in 1 .. Len(whole) \/ i = Len(whole) + 1
      BY <3>1
    <3>. QED BY <1>4, <1>10, <2>1, <3>1, <3>2, <3>3 DEF Endless
  <2>6. IntoLines(text) = Append(whole, rest)
    BY <1>5, <1>8
  <2>. QED BY <2>2, <2>3, <2>4, <2>5, <2>6 DEF AreLinesOf, Endless
<1>9. CASE ~(last < n)
  <2>1. IntoLines(text) = whole
    BY <1>5, <1>9
  <2>2. pos[K] = n /\ (text = << >> \/ Last(text) = NL)
    <3>1. CASE E # {}
      BY <1>1, <1>6, <1>9, <3>1 DEF Last
    <3>2. CASE E = {}
      <4>1. ~(1 < n) /\ pos[K] = 0
        BY <1>6, <1>9, <3>2
      <4>2. n # 1
        <5>1. ASSUME n = 1 PROVE FALSE
          <6>1. text = <<NL>> /\ 1 \in DOMAIN text
            BY <1>1, <5>1
          <6>2. text[1] = NL
            BY <6>1
          <6>. QED BY <3>2, <6>1, <6>2 DEF Ends
        <5>. QED BY <5>1
      <4>3. n = 0
        BY <1>1, <4>1, <4>2
      <4>. QED BY <4>1, <4>3, EmptySeq
    <3>. QED BY <3>1, <3>2
  <2>3. Unlines(whole) = text
    BY <1>4, <2>2, SubSeqFull
  <2>. QED BY <1>4, <2>1, <2>2, <2>3 DEF AreLinesOf, Endless
<1>. QED BY <1>8, <1>9

(* Which texts there are. *)
LEMMA TextsAre ==
  \A t : t \in Texts <=> t \in Seq(Chars) /\ Len(t) <= MaxText
<1>1. MaxText \in Nat
  BY TextAssumption
<1>2. ASSUME NEW t, t \in Texts
      PROVE  t \in Seq(Chars) /\ Len(t) <= MaxText
  <2>1. PICK n \in 0 .. MaxText : t \in [1 .. n -> Chars]
    BY <1>2 DEF Texts
  <2>2. n \in Nat /\ n <= MaxText
    BY <2>1, <1>1
  <2>3. t \in Seq(Chars)
    BY <2>1, <2>2
  <2>4. DOMAIN t = 1 .. n /\ DOMAIN t = 1 .. Len(t) /\ Len(t) \in Nat
    BY <2>1, <2>3, LenProperties
  <2>5. Len(t) = n
    BY <2>4, <2>2
  <2>. QED BY <2>3, <2>5, <2>2
<1>3. ASSUME NEW t, t \in Seq(Chars), Len(t) <= MaxText
      PROVE  t \in Texts
  <2>1. Len(t) \in Nat /\ t \in [1 .. Len(t) -> Chars]
    BY <1>3, LenProperties
  <2>2. Len(t) \in 0 .. MaxText
    BY <2>1, <1>3, <1>1
  <2>. QED BY <2>1, <2>2 DEF Texts
<1>. QED BY <1>2, <1>3

----------------------------------------
(* Output. *)

(* What is printed is on its way to the right side. *)
OutputIsRight ==
  /\ stdio \in Seq(Chars) /\ terminal \in Seq(Chars)
  /\ outside \in Seq(Chars) /\ inside \in Seq(Chars)
  /\ Len(outside) + Len(inside) <= MaxText
  /\ IF capturing
     THEN /\ stdout_to = "capture" /\ descriptors = 2 /\ terminal = outside
          /\ capture_file \in Seq(Chars) /\ capture_file \o stdio = inside
     ELSE stdout_to = "terminal" /\ descriptors = 0 /\ terminal \o stdio = outside

(* What was captured is returned. *)
CapturesAreRight ==
  at = "returned" =>
    /\ call.fn = "end_capture" => result.text = inside
    /\ call.fn = "end_capture_lines" => AreLinesOf(result.lines, inside)

(* A call that runs is one that has steps. *)
CallsAreRight ==
  /\ at \in {"command", "piped"} => call.fn = "system_command"
  /\ at \in {"getline", "line", "nothing"} => call.fn = "read_str"

(* The inductive invariant of printing and capturing. *)
OutputInvariant == OutputIsRight /\ CapturesAreRight /\ CallsAreRight

(* Programs capture nothing of a single character as lines, and there is
   room for a temporary file. *)
CapturesCarefully == "tmpfile" \notin Fallible /\ "capture one character" \notin ConsoleCareless

(* It holds at first. *)
LEMMA OutputBegins ==
  ASSUME CoreInit
  PROVE  OutputInvariant
<1>1. << >> \in Seq(Chars) /\ Len(<< >>) = 0 /\ << >> \o << >> = << >> /\ MaxText \in Nat
  BY EmptySeq, ConcatEmptySeq, TextAssumption
<1>2. /\ stdio = << >> /\ terminal = << >> /\ outside = << >> /\ inside = << >>
      /\ capture_file = NoCapture /\ stdout_to = "terminal" /\ descriptors = 0 /\ at = "idle"
  BY DEF CoreInit, ConsoleInit
<1>3. OutputIsRight
  BY <1>1, <1>2 DEF OutputIsRight, capturing
<1>. QED BY <1>2, <1>3 DEF OutputInvariant, CapturesAreRight, CallsAreRight

(* Calls that do not print keep what was printed. *)
LEMMA OutputStays ==
  ASSUME OutputIsRight, UNCHANGED out
  PROVE  OutputIsRight'
<1>1. UNCHANGED <<stdio, terminal, outside, inside, capture_file, stdout_to, descriptors>>
  BY DEF out
<1>. QED BY <1>1 DEF OutputIsRight, capturing

(* Lengths that fit. *)
LEMMA LengthsFit ==
  ASSUME NEW x \in Nat, NEW y \in Nat, NEW z \in Nat, NEW m \in Nat, x + y + z <= m
  PROVE  x + (y + z) <= m /\ x + z + y <= m /\ x <= m /\ y <= m
OBVIOUS

(* The parts of a sum that is bounded. *)
LEMMA SumFits ==
  ASSUME NEW x \in Nat, NEW y \in Nat, NEW m \in Nat, x + y <= m
  PROVE  x <= m /\ y <= m /\ x + 0 <= m /\ 0 <= m
OBVIOUS

(* Printing. *)
LEMMA PrintsRight ==
  ASSUME OutputInvariant, NEW text \in Texts, print(text)
  PROVE  OutputInvariant'
<1>1. text \in Seq(Chars) /\ Len(text) \in Nat
  BY TextsAre, LenProperties
<1>2. /\ stdio \in Seq(Chars) /\ terminal \in Seq(Chars) /\ outside \in Seq(Chars) /\ inside \in Seq(Chars)
      /\ Len(outside) \in Nat /\ Len(inside) \in Nat
  BY LenProperties DEF OutputInvariant, OutputIsRight
<1>3. /\ stdio \o text \in Seq(Chars) /\ outside \o text \in Seq(Chars) /\ inside \o text \in Seq(Chars)
      /\ Len(outside \o text) = Len(outside) + Len(text) /\ Len(inside \o text) = Len(inside) + Len(text)
  <2>1. \A s \in Seq(Chars) : s \o text \in Seq(Chars) /\ Len(s \o text) = Len(s) + Len(text)
    BY <1>1, ConcatProperties
  <2>. HIDE <1>1
  <2>. QED BY <1>2, <2>1
<1>4. /\ Len(outside) + Len(inside) + Len(text) <= MaxText
      /\ stdio' = stdio \o text
      /\ UNCHANGED <<stdout_to, terminal, capture_file, descriptors>>
      /\ call'.fn = "print" /\ at' = "returned"
      /\ IF capturing THEN inside' = inside \o text /\ outside' = outside
         ELSE outside' = outside \o text /\ inside' = inside
  BY DEF print, Called, Returns
<1>5. MaxText \in Nat
  BY TextAssumption
<1>6. /\ Len(outside) + (Len(inside) + Len(text)) <= MaxText
      /\ Len(outside) + Len(text) + Len(inside) <= MaxText
  <2>1. Len(outside) \in Nat /\ Len(inside) \in Nat /\ Len(text) \in Nat
    BY <1>1, <1>2
  <2>. QED BY <2>1, <1>4, <1>5, LengthsFit
<1>7. OutputIsRight'
  <2>1. CASE capturing
    <3>1. /\ stdout_to = "capture" /\ descriptors = 2 /\ terminal = outside
          /\ capture_file \in Seq(Chars) /\ capture_file \o stdio = inside
      BY <2>1 DEF OutputInvariant, OutputIsRight
    <3>2. capture_file \o (stdio \o text) = inside \o text
      <4>1. capture_file \in Seq(Chars) /\ stdio \in Seq(Chars) /\ text \in Seq(Chars)
        BY <3>1, <1>1, <1>2
      <4>2. (capture_file \o stdio) \o text = capture_file \o (stdio \o text)
        BY <4>1, ConcatAssociative
      <4>. QED BY <3>1, <4>2
    <3>3. Len(outside) + (Len(inside) + Len(text)) <= MaxText
      BY <1>6
    <3>. QED BY <2>1, <3>1, <3>2, <3>3, <1>2, <1>3, <1>4 DEF OutputIsRight, capturing
  <2>2. CASE ~capturing
    <3>1. stdout_to = "terminal" /\ descriptors = 0 /\ terminal \o stdio = outside
      BY <2>2 DEF OutputInvariant, OutputIsRight
    <3>2. terminal \o (stdio \o text) = outside \o text
      <4>1. terminal \in Seq(Chars) /\ stdio \in Seq(Chars) /\ text \in Seq(Chars)
        BY <3>1, <1>1, <1>2
      <4>2. (terminal \o stdio) \o text = terminal \o (stdio \o text)
        BY <4>1, ConcatAssociative
      <4>. QED BY <3>1, <4>2
    <3>3. Len(outside) + Len(text) + Len(inside) <= MaxText
      BY <1>6
    <3>. QED BY <2>2, <3>1, <3>2, <3>3, <1>2, <1>3, <1>4 DEF OutputIsRight, capturing
  <2>. QED BY <2>1, <2>2
<1>. QED BY <1>4, <1>7 DEF OutputInvariant, CapturesAreRight, CallsAreRight

(* A text that was captured is none that is not. *)
LEMMA CaptureIsText ==
  ASSUME OutputIsRight, capturing, NEW kept \in Seq(Chars), kept = inside
  PROVE  kept # NoCapture
<1>1. Len(outside) \in Nat /\ Len(inside) \in Nat /\ Len(outside) + Len(inside) <= MaxText /\ MaxText \in Nat
  BY LenProperties, TextAssumption DEF OutputIsRight
<1>2. Len(kept) <= MaxText
  <2>1. Len(inside) <= MaxText
    BY <1>1, SumFits
  <2>. QED BY <2>1
<1>3. kept \in Texts
  BY <1>2, TextsAre
<1>. QED BY <1>3, ConsoleAssumption

(* The C library may flush whenever it likes. *)
LEMMA FlushesRight ==
  ASSUME OutputInvariant, StdioFlushes
  PROVE  OutputInvariant'
<1>1. /\ stdio \in Seq(Chars) /\ terminal \in Seq(Chars) /\ outside \in Seq(Chars) /\ inside \in Seq(Chars)
      /\ Len(outside) + Len(inside) <= MaxText
  BY DEF OutputInvariant, OutputIsRight
<1>2. /\ terminal' = Flushed.terminal /\ capture_file' = Flushed.capture_file /\ stdio' = << >>
      /\ UNCHANGED <<stdout_to, descriptors, outside, inside, call, at, result>>
  BY DEF StdioFlushes, calling
<1>3. << >> \in Seq(Chars)
  BY EmptySeq
<1>4. OutputIsRight'
  <2>1. CASE capturing
    <3>1. /\ stdout_to = "capture" /\ descriptors = 2 /\ terminal = outside
          /\ capture_file \in Seq(Chars) /\ capture_file \o stdio = inside
      BY <2>1 DEF OutputInvariant, OutputIsRight
    <3>2. terminal' = terminal /\ capture_file' = inside
      BY <1>2, <3>1 DEF Flushed
    <3>3. inside # NoCapture
      BY <1>1, <2>1, CaptureIsText DEF OutputInvariant
    <3>4. inside \o << >> = inside
      BY <1>1, ConcatEmptySeq
    <3>. QED BY <1>1, <1>2, <1>3, <3>1, <3>2, <3>3, <3>4 DEF OutputIsRight, capturing
  <2>2. CASE ~capturing
    <3>1. stdout_to = "terminal" /\ descriptors = 0 /\ terminal \o stdio = outside
      BY <2>2 DEF OutputInvariant, OutputIsRight
    <3>2. terminal' = outside /\ capture_file' = NoCapture
      BY <1>2, <2>2, <3>1 DEF Flushed, capturing
    <3>4. outside \o << >> = outside
      BY <1>1, ConcatEmptySeq
    <3>. QED BY <1>1, <1>2, <1>3, <3>1, <3>2, <3>4 DEF OutputIsRight, capturing
  <2>. QED BY <2>1, <2>2
<1>. QED BY <1>2, <1>4 DEF OutputInvariant, CapturesAreRight, CallsAreRight

(* A capture begins: what was printed before is flushed before. *)
LEMMA StartsRight ==
  ASSUME CapturesCarefully, OutputInvariant, start_capture
  PROVE  OutputInvariant'
<1>1. /\ stdio \in Seq(Chars) /\ terminal \in Seq(Chars) /\ outside \in Seq(Chars) /\ inside \in Seq(Chars)
      /\ Len(outside) \in Nat /\ Len(inside) \in Nat /\ Len(outside) + Len(inside) <= MaxText /\ MaxText \in Nat
  BY LenProperties, TextAssumption DEF OutputInvariant, OutputIsRight
<1>2. /\ ~capturing /\ call'.fn = "start_capture" /\ at' = "returned"
      /\ terminal' = Flushed.terminal /\ stdio' = << >> /\ descriptors' = descriptors + 2
      /\ capture_file' = << >> /\ stdout_to' = "capture" /\ inside' = << >> /\ outside' = outside
  BY DEF start_capture, Called, Returns, CapturesCarefully
<1>3. stdout_to = "terminal" /\ descriptors = 0 /\ terminal \o stdio = outside
  BY <1>2 DEF OutputInvariant, OutputIsRight
<1>4. terminal' = outside
  BY <1>2, <1>3 DEF Flushed
<1>5. << >> \in Seq(Chars) /\ Len(<< >>) = 0 /\ << >> \o << >> = << >>
  BY EmptySeq, ConcatEmptySeq
<1>6. << >> # NoCapture
  <2>1. << >> \in Texts
    <3>2. 0 <= MaxText
      BY <1>1, SumFits
    <3>3. Len(<< >>) <= MaxText
      BY <3>2, <1>5
    <3>. QED BY <3>3, <1>5, TextsAre
  <2>. QED BY <2>1, ConsoleAssumption
<1>7. Len(outside) + 0 <= MaxText
  BY <1>1, SumFits
<1>8. OutputIsRight'
  <2>1. /\ stdio' = << >> /\ terminal' = outside /\ outside' = outside /\ inside' = << >>
        /\ capture_file' = << >> /\ stdout_to' = "capture" /\ descriptors' = 2
    <3>1. 0 + 2 = 2
      OBVIOUS
    <3>2. descriptors' = 0 + 2
      BY <1>2, <1>3
    <3>. QED BY <1>2, <1>4, <3>1, <3>2
  <2>2. Len(outside) + Len(<< >>) <= MaxText
    BY <1>5, <1>7
  <2>3. outside \in Seq(Chars)
    BY <1>1
  <2>. QED BY <2>1, <2>2, <2>3, <1>5, <1>6 DEF OutputIsRight, capturing
<1>. QED BY <1>2, <1>8 DEF OutputInvariant, CapturesAreRight, CallsAreRight

(* A capture ends and returns what was printed in it. *)
LEMMA EndsRight ==
  ASSUME CapturesCarefully, OutputInvariant, end_capture \/ end_capture_lines
  PROVE  OutputInvariant'
<1>1. /\ stdio \in Seq(Chars) /\ terminal \in Seq(Chars) /\ outside \in Seq(Chars) /\ inside \in Seq(Chars)
      /\ Len(outside) + Len(inside) <= MaxText
  BY DEF OutputInvariant, OutputIsRight
<1>2. /\ capturing
      /\ stdio' = << >> /\ stdout_to' = "terminal" /\ capture_file' = NoCapture
      /\ descriptors' = descriptors - 2 /\ UNCHANGED <<terminal, outside, inside>> /\ at' = "returned"
  BY DEF end_capture, end_capture_lines, EndCapture, Called, Returns
<1>3. /\ stdout_to = "capture" /\ descriptors = 2 /\ terminal = outside
      /\ capture_file \in Seq(Chars) /\ capture_file \o stdio = inside
  BY <1>2 DEF OutputInvariant, OutputIsRight
<1>4. << >> \in Seq(Chars) /\ outside \o << >> = outside
  BY <1>1, EmptySeq, ConcatEmptySeq
<1>5. OutputIsRight'
  BY <1>1, <1>2, <1>3, <1>4 DEF OutputIsRight, capturing
<1>6. Captured = inside
  BY <1>3 DEF Captured, Flushed
<1>7. CASE end_capture
  <2>1. call'.fn = "end_capture" /\ result'.text = inside
    BY <1>6, <1>7 DEF end_capture, EndCapture, Called, Returns, Answer
  <2>. QED BY <1>2, <1>5, <2>1 DEF OutputInvariant, CapturesAreRight, CallsAreRight
<1>8. CASE end_capture_lines
  <2>1. call'.fn = "end_capture_lines" /\ result'.lines = IntoLines(inside)
    BY <1>6, <1>8 DEF end_capture_lines, EndCapture, Called, Returns, Answer
  <2>2. Len(inside) = 1 => inside = <<NL>>
    BY <1>8 DEF end_capture_lines, CapturesCarefully
  <2>3. AreLinesOf(IntoLines(inside), inside)
    BY <1>1, <2>2, LinesOfText DEF Chars
  <2>. QED BY <1>2, <1>5, <2>1, <2>3 DEF OutputInvariant, CapturesAreRight, CallsAreRight
<1>. QED BY <1>7, <1>8

(* The steps that touch nothing of the output. *)
LEMMA OthersPrintNothing ==
  ASSUME OutputInvariant,
         \/ StartAgain \/ EndNothing
         \/ EmptyCommand \/ popen \/ ReadPipe \/ pclose
         \/ \E text \in Texts, code \in ExitCodes, signal \in {0, 9} : CallCommand(text, code, signal)
         \/ \E name \in Names : get_env(name)
         \/ \E name \in Names, content \in Values, overwrite \in BOOLEAN : set_env(name, content, overwrite)
         \/ CallRead \/ GetChar \/ EndOfInput \/ read_str \/ NothingToRead
  PROVE  OutputInvariant'
<1>. USE DEF CapturesAreRight, CallsAreRight, OutputInvariant
<1>1. CASE StartAgain
  BY <1>1, OutputStays DEF StartAgain, Called, Returns
<1>2. CASE EndNothing
  BY <1>2, OutputStays DEF EndNothing, Called, Returns
<1>3. CASE EmptyCommand
  BY <1>3, OutputStays DEF EmptyCommand, Called, Returns
<1>4. CASE popen
  BY <1>4, OutputStays DEF popen, Returns
<1>5. CASE ReadPipe
  BY <1>5, OutputStays DEF ReadPipe
<1>6. CASE pclose
  BY <1>6, OutputStays DEF pclose, Returns
<1>7. ASSUME NEW text \in Texts, NEW code \in ExitCodes, NEW signal \in {0, 9}, CallCommand(text, code, signal)
      PROVE  OutputInvariant'
  BY <1>7, OutputStays DEF CallCommand, Called
<1>8. ASSUME NEW name \in Names, get_env(name)
      PROVE  OutputInvariant'
  BY <1>8, OutputStays DEF get_env, Called, Returns
<1>9. ASSUME NEW name \in Names, NEW content \in Values, NEW overwrite \in BOOLEAN, set_env(name, content, overwrite)
      PROVE  OutputInvariant'
  <2>1. UNCHANGED out /\ call'.fn = "set_env" /\ at' = "returned"
    BY <1>9 DEF set_env, Called, Returns
  <2>. QED BY <2>1, OutputStays
<1>10. CASE CallRead
  BY <1>10, OutputStays DEF CallRead, Called
<1>11. CASE GetChar
  <2>1. UNCHANGED <<out, call>> /\ at = "getline" /\ at' \in {"undefined", "line", "getline"}
    BY <1>11 DEF GetChar
  <2>2. UNCHANGED out
    BY <2>1
  <2>. QED BY <2>1, <2>2, OutputStays
<1>12. CASE EndOfInput
  BY <1>12, OutputStays DEF EndOfInput
<1>13. CASE read_str
  BY <1>13, OutputStays DEF read_str, Returns
<1>14. CASE NothingToRead
  BY <1>14, OutputStays DEF NothingToRead
<1>. QED BY <1>1, <1>2, <1>3, <1>4, <1>5, <1>6, <1>7, <1>8, <1>9, <1>10, <1>11, <1>12, <1>13, <1>14

(* No step breaks the invariant. *)
LEMMA OutputStep ==
  ASSUME CapturesCarefully, OutputInvariant, [CoreNext]_core_vars
  PROVE  OutputInvariant'
<1>1. CASE UNCHANGED console_vars
  <2>1. UNCHANGED <<out, call, at, result, inside>>
    BY <1>1 DEF console_vars, calling, out
  <2>2. UNCHANGED out
    BY <2>1
  <2>. QED BY <2>1, <2>2, OutputStays DEF OutputInvariant, CapturesAreRight, CallsAreRight
<1>2. CASE ConsoleNext
  <2>1. CASE \E text \in Texts : print(text)
    BY <2>1, PrintsRight
  <2>2. CASE StdioFlushes
    BY <2>2, FlushesRight
  <2>3. CASE start_capture
    BY <2>3, StartsRight
  <2>4. CASE end_capture \/ end_capture_lines
    BY <2>4, EndsRight
  <2>. QED BY <1>2, <2>1, <2>2, <2>3, <2>4, OthersPrintNothing DEF ConsoleNext
<1>. QED BY <1>1, <1>2 DEF CoreNext, core_vars

(* Everything that is printed arrives where it should. *)
THEOREM OutputArrives ==
  ASSUME CapturesCarefully
  PROVE  CoreSpec => []OutputGoesWhereItShould
<1>1. CoreInit => OutputInvariant
  BY OutputBegins
<1>2. OutputInvariant /\ [CoreNext]_core_vars => OutputInvariant'
  BY OutputStep
<1>3. OutputInvariant => OutputGoesWhereItShould
  BY DEF OutputInvariant, OutputIsRight, CapturesAreRight, OutputGoesWhereItShould
<1>. QED BY <1>1, <1>2, <1>3, PTL DEF CoreSpec

(* The first place with one of the characters, if there is one. *)
LEMMA FirstInText ==
  ASSUME NEW S, NEW text \in Seq(S), NEW chars, NEW other
  PROVE  /\ (\A i \in 1 .. Len(text) : text[i] \notin chars) => FirstIn(text, chars, other) = other
         /\ (\E i \in 1 .. Len(text) : text[i] \in chars) =>
              \E k \in 1 .. Len(text) :
                /\ FirstIn(text, chars, other) = k /\ text[k] \in chars
                /\ \A j \in 1 .. k - 1 : text[j] \notin chars
<1>1. DOMAIN text = 1 .. Len(text) /\ Len(text) \in Nat
  BY LenProperties
<1>2. ASSUME \E i \in 1 .. Len(text) : text[i] \in chars
      PROVE  \E k \in 1 .. Len(text) :
                /\ FirstIn(text, chars, other) = k /\ text[k] \in chars
                /\ \A j \in 1 .. k - 1 : text[j] \notin chars
  <2>. DEFINE places == {i \in 1 .. Len(text) : text[i] \in chars}
              First(k) == text[k] \in chars /\ \A j \in 1 .. k - 1 : text[j] \notin chars
              found == CHOOSE i \in DOMAIN text : First(i)
  <2>1. places # {} /\ places \subseteq Nat
    BY <1>2
  <2>2. PICK k \in places : \A i \in places : k <= i
    BY <2>1, LeastNatural
  <2>3. \A j \in 1 .. k - 1 : j \in 1 .. Len(text) /\ ~(k <= j)
    BY <1>1, <2>2
  <2>4. \A j \in 1 .. k - 1 : text[j] \notin chars
    BY <2>2, <2>3
  <2>5. k \in DOMAIN text /\ First(k)
    BY <1>1, <2>2, <2>4
  <2>6. found \in DOMAIN text /\ First(found)
    <3>. HIDE DEF First
    <3>. QED BY <2>5
  <2>7. FirstIn(text, chars, other) = found
    BY <1>1, <1>2 DEF FirstIn
  <2>. QED BY <1>1, <2>6, <2>7
<1>. QED BY <1>1, <1>2 DEF FirstIn

(* A text without zero bytes is a C string. *)
LEMMA CStringOfText ==
  ASSUME Zeros = {}, NEW text \in Seq(Chars)
  PROVE  CString(text) = text
<1>1. \A i \in 1 .. Len(text) : text[i] \in Chars
  BY ElementOfSeq
<1>2. NUL \notin Chars
  BY TextAssumption DEF Chars
<1>3. \A i \in 1 .. Len(text) : text[i] \notin {NUL}
  BY <1>1, <1>2
<1>4. FirstIn(text, {NUL}, Len(text) + 1) = Len(text) + 1
  BY <1>3, FirstInText
<1>5. Len(text) \in Nat
  BY LenProperties
<1>6. (Len(text) + 1) - 1 = Len(text)
  BY <1>5
<1>7. CString(text) = SubSeq(text, 1, Len(text))
  <2>1. CString(text) = SubSeq(text, 1, FirstIn(text, {NUL}, Len(text) + 1) - 1)
    BY DEF CString
  <2>2. FirstIn(text, {NUL}, Len(text) + 1) - 1 = Len(text)
    BY <1>4, <1>6
  <2>. QED BY <2>1, <2>2
<1>. QED BY <1>7, SubSeqFull

(* The piece of a text that fgets returns: it ends with the line, with the
   text or with the buffer. *)
IsPiece(k, text) ==
  /\ fgets(text) = SubSeq(text, 1, k)
  /\ \A j \in 1 .. k - 1 : text[j] # NL
  /\ text[k] = NL \/ k = Len(text) \/ k = BufferSize - 1

(* The shorter of two lengths is one of them. *)
LEMMA ShorterIs ==
  ASSUME NEW m \in Nat \ {0}, NEW n \in Nat \ {0}
  PROVE  /\ Shorter(m, n) \in Nat \ {0} /\ Shorter(m, n) <= m
         /\ Shorter(m, n) = m \/ Shorter(m, n) = n
BY DEF Shorter

(* fgets returns a piece of any text that is not empty. *)
LEMMA Piece ==
  ASSUME NEW S, NEW text \in Seq(S), text # << >>
  PROVE  \E k \in 1 .. Len(text) : IsPiece(k, text)
<1>1. Len(text) \in Nat \ {0} /\ BufferSize - 1 \in Nat \ {0}
  BY EmptySeq, TextAssumption
<1>2. PICK e \in 1 .. Len(text) :
           /\ text[e] = NL \/ e = Len(text)
           /\ FirstIn(text, {NL}, Len(text)) = e
           /\ \A j \in 1 .. e - 1 : text[j] # NL
  <2>1. CASE \A i \in 1 .. Len(text) : text[i] \notin {NL}
    <3>1. FirstIn(text, {NL}, Len(text)) = Len(text)
      BY <2>1, FirstInText
    <3>2. Len(text) \in 1 .. Len(text) /\ \A j \in 1 .. Len(text) - 1 : j \in 1 .. Len(text)
      BY <1>1
    <3>. QED BY <2>1, <3>1, <3>2
  <2>2. CASE \E i \in 1 .. Len(text) : text[i] \in {NL}
    <3>1. PICK k \in 1 .. Len(text) :
                /\ FirstIn(text, {NL}, Len(text)) = k /\ text[k] \in {NL}
                /\ \A j \in 1 .. k - 1 : text[j] \notin {NL}
      BY <2>2, FirstInText
    <3>. QED BY <3>1
  <2>. QED BY <2>1, <2>2
<1>. DEFINE k == Shorter(e, BufferSize - 1)
<1>3. /\ k \in 1 .. Len(text) /\ k <= e /\ (k = e \/ k = BufferSize - 1)
      /\ \A j \in 1 .. k - 1 : j \in 1 .. e - 1
  <2>1. e \in Nat \ {0} /\ e <= Len(text)
    BY <1>1
  <2>2. k \in 1 .. Len(text) /\ k <= e /\ (k = e \/ k = BufferSize - 1)
    <3>1. k \in Nat \ {0} /\ k <= e /\ (k = e \/ k = BufferSize - 1)
      BY <1>1, <2>1, ShorterIs
    <3>. HIDE DEF k
    <3>. QED BY <1>1, <2>1, <3>1
  <2>. HIDE DEF k
  <2>. QED BY <2>1, <2>2
<1>4. fgets(text) = SubSeq(text, 1, k)
  BY <1>2 DEF fgets
<1>5. IsPiece(k, text)
  <2>. HIDE DEF k
  <2>. QED BY <1>2, <1>3, <1>4 DEF IsPiece
<1>. QED BY <1>3, <1>5

(* The text is what fgets returns and what is behind it. *)
LEMMA PieceAndRest ==
  ASSUME NEW S, NEW text \in Seq(S), text # << >>
  PROVE  /\ fgets(text) \in Seq(S) /\ After(text, Len(fgets(text))) \in Seq(S)
         /\ text = fgets(text) \o After(text, Len(fgets(text)))
         /\ Len(After(text, Len(fgets(text)))) <= Len(text)
<1>1. PICK k \in 1 .. Len(text) : IsPiece(k, text)
  BY Piece
<1>2. Len(text) \in Nat \ {0} /\ k \in Nat /\ k <= Len(text) /\ k \in 0 .. Len(text)
  BY EmptySeq
<1>3. fgets(text) = SubSeq(text, 1, k)
  BY <1>1 DEF IsPiece
<1>4. SubSeq(text, 1, k) \in Seq(S) /\ Len(SubSeq(text, 1, k)) = IF 1 <= k THEN k - 1 + 1 ELSE 0
  <2>1. 1 \in Nat \ {0}
    OBVIOUS
  <2>. QED BY <1>2, <2>1, PieceIsText
<1>5. Len(fgets(text)) = k
  <2>1. 1 <= k /\ k - 1 + 1 = k
    BY <1>2
  <2>. QED BY <1>3, <1>4, <2>1
<1>6. After(text, k) = SubSeq(text, k + 1, Len(text))
  BY DEF After
<1>7. /\ SubSeq(text, k + 1, Len(text)) \in Seq(S)
      /\ Len(SubSeq(text, k + 1, Len(text))) = IF k + 1 <= Len(text) THEN Len(text) - (k + 1) + 1 ELSE 0
  <2>1. k + 1 \in Nat \ {0} /\ Len(text) \in Nat /\ Len(text) <= Len(text)
    BY <1>2
  <2>. QED BY <2>1, PieceIsText
<1>8. Len(SubSeq(text, k + 1, Len(text))) <= Len(text)
  <2>1. (IF k + 1 <= Len(text) THEN Len(text) - (k + 1) + 1 ELSE 0) <= Len(text)
    BY <1>2
  <2>. QED BY <1>7, <2>1
<1>9. SubSeq(text, 1, k) \o SubSeq(text, k + 1, Len(text)) = SubSeq(text, 1, Len(text))
  <2>1. Len(text) \in k .. Len(text)
    BY <1>2
  <2>. QED BY <1>2, <2>1, PiecesTogether
<1>10. SubSeq(text, 1, Len(text)) = text
  BY SubSeqFull
<1>. QED BY <1>3, <1>4, <1>5, <1>6, <1>7, <1>8, <1>9, <1>10

(* The exit code is in the second byte of the wait status. *)
LEMMA CodeOfStatus ==
  ASSUME NEW code \in 0 .. 255
  PROVE  ExitCode(Status(code, 0)) = code /\ (code = 0 <=> Status(code, 0) = 0)
<1>1. (256 * code + 0) \div 256 = code /\ code % 256 = code
  OBVIOUS
<1>2. code = 0 <=> 256 * code + 0 = 0
  OBVIOUS
<1>. QED BY <1>1, <1>2 DEF ExitCode, Status

----------------------------------------
(* The buffer of getline when it has so many characters. *)
CapOf[n \in Nat] == IF n = 0 THEN InitialCap ELSE 2 * CapOf[n - 1]

(* The capacity is doubled with every character. *)
LEMMA CapGrows ==
  /\ CapOf \in [Nat -> Nat] /\ CapOf[0] = InitialCap
  /\ \A n \in Nat : CapOf[n + 1] = 2 * CapOf[n]
<1>. DEFINE twice == [c \in Nat |-> 2 * c]
            IsCap(f) == f = [n \in Nat |-> IF n = 0 THEN InitialCap ELSE 2 * f[n - 1]]
<1>1. InitialCap \in Nat /\ twice \in [Nat -> Nat]
  <2>1. InitialCap \in Nat
    BY ConsoleAssumption
  <2>2. \A c \in Nat : 2 * c \in Nat
    OBVIOUS
  <2>. QED BY <2>1, <2>2
<1>2. \E g : IsIteration(g, Nat, InitialCap, twice)
  <2>. HIDE DEF twice
  <2>. QED BY <1>1, Iteration
<1>3. PICK g : g \in [Nat -> Nat] /\ g[0] = InitialCap /\ \A n \in Nat : g[n + 1] = 2 * g[n]
  <2>1. PICK g : IsIteration(g, Nat, InitialCap, twice)
    BY <1>2
  <2>2. g \in [Nat -> Nat] /\ g[0] = InitialCap /\ \A n \in Nat : g[n + 1] = twice[g[n]]
    BY <2>1 DEF IsIteration
  <2>3. \A n \in Nat : twice[g[n]] = 2 * g[n]
    BY <2>2
  <2>. QED BY <2>2, <2>3
<1>4. ASSUME NEW n \in Nat
      PROVE  g[n] = IF n = 0 THEN InitialCap ELSE 2 * g[n - 1]
  <2>1. CASE n = 0
    BY <1>3, <2>1
  <2>2. CASE n # 0
    <3>1. n - 1 \in Nat /\ (n - 1) + 1 = n
      BY <2>2
    <3>. QED BY <1>3, <2>2, <3>1
  <2>. QED BY <2>1, <2>2
<1>5. IsCap(g)
  BY <1>3, <1>4
<1>6. CapOf = CHOOSE f : IsCap(f)
  BY DEF CapOf
<1>7. IsCap(CapOf)
  <2>. HIDE DEF IsCap
  <2>. QED BY <1>5, <1>6
<1>8. CapOf = [n \in Nat |-> IF n = 0 THEN InitialCap ELSE 2 * CapOf[n - 1]]
  BY <1>7
<1>. DEFINE T == {n \in Nat : CapOf[n] \in Nat}
<1>9. \A n \in Nat : CapOf[n] = IF n = 0 THEN InitialCap ELSE 2 * CapOf[n - 1]
  <2>. HIDE DEF CapOf
  <2>. QED BY <1>8
<1>10. CapOf[0] = InitialCap
  BY <1>9
<1>11. ASSUME NEW n \in Nat
       PROVE  CapOf[n + 1] = 2 * CapOf[n]
  <2>1. n + 1 \in Nat /\ n + 1 # 0 /\ (n + 1) - 1 = n
    OBVIOUS
  <2>2. CapOf[n + 1] = IF n + 1 = 0 THEN InitialCap ELSE 2 * CapOf[(n + 1) - 1]
    BY <1>9, <2>1
  <2>. QED BY <2>1, <2>2
<1>12. 0 \in T /\ \A n \in Nat : n \in T => n + 1 \in T
  BY <1>1, <1>10, <1>11
<1>13. Nat \subseteq T
  <2>. HIDE DEF T
  <2>. QED BY <1>12, SetInduction
<1>14. DOMAIN CapOf = Nat
  <2>. HIDE DEF CapOf
  <2>. QED BY <1>8
<1>15. CapOf \in [Nat -> Nat]
  <2>1. \A n \in Nat : CapOf[n] \in Nat
    BY <1>13
  <2>2. CapOf = [n \in Nat |-> CapOf[n]]
    <3>. HIDE DEF CapOf
    <3>. QED BY <1>8, <1>14
  <2>. HIDE DEF CapOf
  <2>. QED BY <2>1, <2>2
<1>. QED BY <1>10, <1>11, <1>15

(* It never gets smaller. *)
LEMMA CapsInOrder ==
  ASSUME NEW m \in Nat, NEW n \in Nat, m <= n
  PROVE  CapOf[m] <= CapOf[n]
<1>. DEFINE T == {d \in Nat : CapOf[m] <= CapOf[m + d]}
<1>1. CapOf \in [Nat -> Nat] /\ \A k \in Nat : CapOf[k + 1] = 2 * CapOf[k]
  BY CapGrows
<1>. HIDE DEF CapOf
<1>2. 0 \in T
  <2>1. m + 0 = m /\ CapOf[m] \in Nat
    BY <1>1
  <2>. QED BY <2>1
<1>3. ASSUME NEW d \in Nat, d \in T
      PROVE  d + 1 \in T
  <2>1. m + d \in Nat /\ m + (d + 1) = (m + d) + 1
    OBVIOUS
  <2>2. CapOf[m + (d + 1)] = 2 * CapOf[m + d] /\ CapOf[m] \in Nat /\ CapOf[m + d] \in Nat
    BY <1>1, <2>1
  <2>3. CapOf[m] <= CapOf[m + d]
    BY <1>3
  <2>4. CapOf[m] <= 2 * CapOf[m + d]
    BY <2>2, <2>3
  <2>5. CapOf[m] <= CapOf[m + (d + 1)]
    BY <2>2, <2>4
  <2>. QED BY <2>5
<1>4. Nat \subseteq T
  <2>. HIDE DEF T
  <2>. QED BY <1>2, <1>3, SetInduction
<1>5. n - m \in Nat /\ m + (n - m) = n
  OBVIOUS
<1>6. n - m \in T
  BY <1>4, <1>5
<1>. QED BY <1>5, <1>6

(* What a command said is in its pipe or returned. *)
CommandsAreRight ==
  /\ pipe \in Seq(Chars) /\ Len(pipe) <= MaxText
  /\ at \in {"command", "piped"} =>
       /\ call.text \in Texts /\ call.code \in 0 .. 255 /\ call.signal = 0
       /\ result.err = "none" /\ result.code = 0
  /\ at = "command" => result.text = <<>>
  /\ at = "piped" => result.text \in Seq(Chars) /\ result.text \o pipe = call.text
  /\ at = "returned" /\ call.fn = "system_command" /\ result.err = "none" =>
       /\ result.text = call.text
       /\ result.code = 0 <=> Status(call.code, call.signal) = 0

(* Reading a variable returns what the environment holds for it. *)
VariablesAreRight ==
  /\ env \in [{CString(n) : n \in Names} -> Values \cup {Unset}]
  /\ at = "returned" /\ call.fn = "get_env" /\ result.err = "none" =>
       call.name \in DOMAIN env /\ env[call.name] = result.text

(* What was read and what is left are the input, but for one line feed. *)
LineIsRead ==
  /\ NL \notin {result.text[i] : i \in DOMAIN result.text}
  /\ \/ given = result.text \o <<NL>> \o stdin
     \/ given = result.text /\ stdin = << >>

(* While a line is read, what was read and what is left are the input, and
   the buffer has the capacity its length asks for. *)
ReadsAreRight ==
  /\ stdin \in Seq(Chars) /\ buf \in Seq(Chars) /\ given \in Seq(Chars) /\ cap \in Nat
  /\ Len(buf) + Len(stdin) <= MaxText /\ Len(given) <= MaxText
  /\ at # "undefined"
  /\ at \in {"getline", "line"} => given = buf \o stdin
  /\ at = "getline" => cap = CapOf[Len(buf)] /\ \A i \in 1 .. Len(buf) : buf[i] # NL
  /\ at = "line" =>
       /\ \A i \in 1 .. Len(buf) - 1 : buf[i] # NL
       /\ buf # <<>> /\ (buf[Len(buf)] = NL \/ stdin = <<>>)
  /\ at \in {"nothing", "aborted"} => given = <<>>
  /\ at = "returned" /\ call.fn = "read_str" => LineIsRead

(* The steps of a call that a program without mistakes reaches, and how it
   may end. *)
Steps == {"idle", "returned", "command", "piped", "getline", "line", "nothing", "aborted", "undefined"}

(* A record of an answer. *)
IsAnswer(r) == r = Answer(r.err, r.text, r.lines, r.code) /\ r.code \in 0 .. 255

(* The fields of an answer. *)
LEMMA AnswerIs ==
  ASSUME NEW err, NEW text, NEW ls, NEW code \in 0 .. 255
  PROVE  /\ IsAnswer(Answer(err, text, ls, code))
         /\ Answer(err, text, ls, code).err = err /\ Answer(err, text, ls, code).text = text
         /\ Answer(err, text, ls, code).code = code
BY DEF IsAnswer, Answer

(* The empty answer is one. *)
LEMMA Nothing == 0 \in 0 .. 255 /\ IsAnswer(NoAnswer)
<1>1. 0 \in 0 .. 255
  OBVIOUS
<1>. QED BY <1>1, AnswerIs DEF NoAnswer

(* The inductive invariant of commands, variables and reading. *)
AnswersInvariant ==
  /\ use \in Uses /\ at \in Steps /\ IsAnswer(result)
  /\ CallsAreRight /\ CommandsAreRight /\ VariablesAreRight /\ ReadsAreRight

(* Programs do what the functions expect, and no line outgrows the memory. *)
ExpectsLittle == ConsoleCareless = {} /\ Zeros = {} /\ CapOf[MaxText] <= Memory

(* It holds at first. *)
LEMMA AnswersBegin ==
  ASSUME CoreInit
  PROVE  AnswersInvariant
<1>1. << >> \in Seq(Chars) /\ Len(<< >>) = 0 /\ MaxText \in Nat /\ Len(<< >>) <= MaxText
  <2>1. MaxText \in Nat
    BY TextAssumption
  <2>2. 0 <= MaxText
    BY <2>1
  <2>. QED BY <2>1, <2>2, EmptySeq
<1>2. /\ at = "idle" /\ IsAnswer(result) /\ pipe = << >> /\ cap = 0 /\ buf = << >> /\ given = << >>
      /\ env = [c \in {CString(n) : n \in Names} |-> Unset] /\ use \in Uses
  BY Nothing DEF CoreInit, ConsoleInit
<1>3. stdin \in Seq(Chars) /\ Len(stdin) <= MaxText
  <2>1. stdin \in Texts \/ stdin = << >>
    BY DEF CoreInit, ConsoleInit
  <2>. QED BY <1>1, <2>1, TextsAre
<1>4. Len(buf) + Len(stdin) <= MaxText
  <2>1. Len(stdin) \in Nat /\ Len(buf) = 0
    BY <1>1, <1>2, <1>3, LenProperties
  <2>2. 0 + Len(stdin) = Len(stdin)
    BY <2>1
  <2>. QED BY <2>1, <2>2, <1>3
<1>5. ReadsAreRight
  <2>1. 0 \in Nat
    OBVIOUS
  <2>. QED BY <1>1, <1>2, <1>3, <1>4, <2>1 DEF ReadsAreRight
<1>6. CommandsAreRight
  BY <1>1, <1>2 DEF CommandsAreRight
<1>7. VariablesAreRight
  BY <1>2 DEF VariablesAreRight
<1>. QED BY <1>2, <1>5, <1>6, <1>7 DEF AnswersInvariant, CallsAreRight, Steps

----------------------------------------
(* What the calls of the other parts keep. *)
LEMMA CommandsStay ==
  ASSUME CommandsAreRight, UNCHANGED pipe, at' \notin {"command", "piped"},
         at' = "returned" => call'.fn # "system_command"
  PROVE  CommandsAreRight'
BY DEF CommandsAreRight

(* What leaves the environment alone keeps what is known of it. *)
LEMMA VariablesStay ==
  ASSUME VariablesAreRight, UNCHANGED env, at' = "returned" => call'.fn # "get_env"
  PROVE  VariablesAreRight'
BY DEF VariablesAreRight

(* So does what leaves the input alone. *)
LEMMA ReadsStay ==
  ASSUME ReadsAreRight, UNCHANGED reader, at' \in {"command", "piped", "returned"},
         at' = "returned" => call'.fn # "read_str"
  PROVE  ReadsAreRight'
<1>1. UNCHANGED <<stdin, cap, buf, given>>
  BY DEF reader
<1>. QED BY <1>1 DEF ReadsAreRight

(* A step that changes only the output keeps all of it. *)
LEMMA AnswersStay ==
  ASSUME AnswersInvariant, UNCHANGED <<calling, pipe, env, reader>>
  PROVE  AnswersInvariant'
<1>1. UNCHANGED <<use, call, at, result, pipe, env, stdin, cap, buf, given>>
  BY DEF calling, reader
<1>2. CommandsAreRight'
  BY <1>1 DEF AnswersInvariant, CommandsAreRight, Status
<1>3. VariablesAreRight'
  BY <1>1 DEF AnswersInvariant, VariablesAreRight
<1>4. ReadsAreRight'
  BY <1>1 DEF AnswersInvariant, ReadsAreRight, LineIsRead
<1>. QED BY <1>1, <1>2, <1>3, <1>4 DEF AnswersInvariant, CallsAreRight

(* A call that returns at once and has no answer of its own. *)
LEMMA AnsweredAtOnce ==
  ASSUME AnswersInvariant, UNCHANGED <<use, pipe, env, reader>>, at' = "returned",
         call'.fn \notin {"system_command", "get_env", "read_str"}, IsAnswer(result')
  PROVE  AnswersInvariant'
<1>1. UNCHANGED pipe /\ UNCHANGED env /\ UNCHANGED reader /\ use' = use
  OBVIOUS
<1>2. CommandsAreRight'
  BY <1>1, CommandsStay DEF AnswersInvariant
<1>3. VariablesAreRight'
  BY <1>1, VariablesStay DEF AnswersInvariant
<1>4. ReadsAreRight'
  BY <1>1, ReadsStay DEF AnswersInvariant
<1>. QED BY <1>1, <1>2, <1>3, <1>4 DEF AnswersInvariant, CallsAreRight, Steps

(* Printing and capturing answer nothing. *)
LEMMA OutputAnswers ==
  ASSUME AnswersInvariant,
         \/ \E text \in Texts : print(text)
         \/ StdioFlushes
         \/ start_capture \/ StartAgain \/ end_capture \/ end_capture_lines \/ EndNothing
         \/ EmptyCommand
  PROVE  AnswersInvariant'
<1>0. IsAnswer(NoAnswer) /\ \A t, l : IsAnswer(Answer("none", t, l, 0)) /\ IsAnswer(Answer("EmptyCommand", t, l, 0))
  BY Nothing, AnswerIs
<1>1. ASSUME NEW text \in Texts, print(text)
      PROVE  AnswersInvariant'
  BY <1>0, <1>1, AnsweredAtOnce DEF print, Called, Returns
<1>2. CASE StdioFlushes
  BY <1>2, AnswersStay DEF StdioFlushes
<1>3. CASE start_capture
  BY <1>0, <1>3, AnsweredAtOnce DEF start_capture, Called, Returns
<1>4. CASE StartAgain
  BY <1>0, <1>4, AnsweredAtOnce DEF StartAgain, Called, Returns
<1>5. CASE end_capture
  BY <1>0, <1>5, AnsweredAtOnce DEF end_capture, EndCapture, Called, Returns
<1>6. CASE end_capture_lines
  BY <1>0, <1>6, AnsweredAtOnce DEF end_capture_lines, EndCapture, Called, Returns
<1>7. CASE EndNothing
  BY <1>0, <1>7, AnsweredAtOnce DEF EndNothing, Called, Returns
<1>8. CASE EmptyCommand
  BY <1>0, <1>8, AnsweredAtOnce DEF EmptyCommand, Called, Returns
<1>. QED BY <1>1, <1>2, <1>3, <1>4, <1>5, <1>6, <1>7, <1>8

----------------------------------------
(* Commands. *)
LEMMA CommandAnswers ==
  ASSUME ExpectsLittle, AnswersInvariant,
         NEW text \in Texts, NEW code \in ExitCodes, NEW signal \in {0, 9}, CallCommand(text, code, signal)
  PROVE  AnswersInvariant'
<1>1. code \in 0 .. 255 /\ 0 \in 0 .. 255
  <2>1. code \in 0 .. 255
    BY ConsoleAssumption
  <2>. QED BY <2>1, Nothing
<1>2. /\ UNCHANGED use /\ UNCHANGED pipe /\ UNCHANGED env /\ UNCHANGED reader /\ at' = "command"
      /\ call' = [fn |-> "system_command", text |-> text, code |-> code, signal |-> signal]
      /\ result' = Answer("none", << >>, << >>, 0) /\ signal = 0
  BY DEF CallCommand, Called, ExpectsLittle
<1>3. call'.fn = "system_command" /\ call'.text = text /\ call'.code = code /\ call'.signal = 0
  BY <1>2
<1>4. result'.text = << >> /\ result'.err = "none" /\ result'.code = 0 /\ IsAnswer(result')
  BY <1>1, <1>2, AnswerIs
<1>5. CommandsAreRight'
  BY <1>1, <1>2, <1>3, <1>4 DEF AnswersInvariant, CommandsAreRight
<1>6. VariablesAreRight'
  BY <1>2, VariablesStay DEF AnswersInvariant
<1>7. ReadsAreRight'
  BY <1>2, ReadsStay DEF AnswersInvariant
<1>. QED BY <1>1, <1>2, <1>3, <1>4, <1>5, <1>6, <1>7 DEF AnswersInvariant, CallsAreRight, Steps

(* A command is started, or cannot be. *)
LEMMA PopenAnswers ==
  ASSUME AnswersInvariant, popen
  PROVE  AnswersInvariant'
<1>1. /\ UNCHANGED use /\ UNCHANGED call /\ UNCHANGED env /\ UNCHANGED reader
      /\ at = "command" /\ call.fn = "system_command"
  BY DEF popen, AnswersInvariant, CallsAreRight
<1>2. /\ call.text \in Texts /\ call.code \in 0 .. 255 /\ call.signal = 0
      /\ result.err = "none" /\ result.code = 0 /\ result.text = << >>
  BY <1>1 DEF AnswersInvariant, CommandsAreRight
<1>3. call.text \in Seq(Chars) /\ Len(call.text) <= MaxText /\ << >> \in Seq(Chars) /\ << >> \o call.text = call.text
  BY <1>2, TextsAre, EmptySeq, ConcatEmptySeq
<1>4. VariablesAreRight'
  BY <1>1, VariablesStay DEF AnswersInvariant
<1>5. at' \in {"piped", "returned"} /\ IsAnswer(result')
  <2>1. IsAnswer(result) /\ IsAnswer(Answer("SpawnFailed", << >>, << >>, 0))
    BY Nothing, AnswerIs DEF AnswersInvariant
  <2>. QED BY <2>1 DEF popen, Returns
<1>6. ReadsAreRight'
  BY <1>1, <1>5, ReadsStay DEF AnswersInvariant
<1>7. CommandsAreRight'
  <2>1. CASE pipe' = call.text /\ at' = "piped" /\ UNCHANGED result
    BY <2>1, <1>1, <1>2, <1>3 DEF CommandsAreRight
  <2>2. CASE Returns(Answer("SpawnFailed", << >>, << >>, 0)) /\ UNCHANGED pipe
    <3>1. at' = "returned" /\ result'.err = "SpawnFailed"
      BY <2>2 DEF Returns, Answer
    <3>2. pipe' \in Seq(Chars) /\ Len(pipe') <= MaxText
      BY <2>2 DEF AnswersInvariant, CommandsAreRight
    <3>. QED BY <3>1, <3>2 DEF CommandsAreRight
  <2>. QED BY <2>1, <2>2 DEF popen
<1>. QED BY <1>1, <1>4, <1>5, <1>6, <1>7 DEF AnswersInvariant, CallsAreRight, Steps

(* A piece that moves from the front of one text to the end of another. *)
LEMMA PieceMoves ==
  ASSUME NEW S, NEW said \in Seq(S), NEW text \in Seq(S), text # << >>
  PROVE  (said \o fgets(text)) \o After(text, Len(fgets(text))) = said \o text
<1>. DEFINE a == fgets(text)
            b == After(text, Len(fgets(text)))
<1>1. a \in Seq(S) /\ b \in Seq(S) /\ text = a \o b
  BY PieceAndRest
<1>. HIDE DEF a, b
<1>2. (said \o a) \o b = said \o (a \o b)
  BY <1>1, ConcatAssociative
<1>3. (said \o a) \o b = said \o text
  BY <1>1, <1>2
<1>. QED BY <1>3 DEF a, b

(* A piece of what the command said is read. *)
LEMMA PipeAnswers ==
  ASSUME ExpectsLittle, AnswersInvariant, ReadPipe
  PROVE  AnswersInvariant'
<1>1. /\ UNCHANGED use /\ UNCHANGED call /\ UNCHANGED env /\ UNCHANGED reader
      /\ at = "piped" /\ at' = "piped" /\ call.fn = "system_command" /\ pipe # << >>
      /\ pipe' = After(pipe, Len(fgets(pipe)))
      /\ result' = [result EXCEPT !.text = @ \o CString(fgets(pipe))]
  BY DEF ReadPipe, AnswersInvariant, CallsAreRight
<1>2. /\ call.text \in Texts /\ call.code \in 0 .. 255 /\ call.signal = 0
      /\ result.err = "none" /\ result.code = 0
      /\ pipe \in Seq(Chars) /\ Len(pipe) <= MaxText
      /\ result.text \in Seq(Chars) /\ result.text \o pipe = call.text
  BY <1>1 DEF AnswersInvariant, CommandsAreRight
<1>3. /\ fgets(pipe) \in Seq(Chars) /\ pipe' \in Seq(Chars)
      /\ pipe = fgets(pipe) \o pipe' /\ Len(pipe') <= Len(pipe)
  BY <1>1, <1>2, PieceAndRest
<1>4. CString(fgets(pipe)) = fgets(pipe)
  BY <1>3, CStringOfText DEF ExpectsLittle
<1>5. IsAnswer(result') /\ result'.text = result.text \o fgets(pipe) /\ result'.err = "none" /\ result'.code = 0
  <2>1. result = Answer(result.err, result.text, result.lines, result.code) /\ result.code \in 0 .. 255
    BY DEF AnswersInvariant, IsAnswer
  <2>. DEFINE answer == Answer(result.err, result.text \o fgets(pipe), result.lines, result.code)
  <2>2. result' = answer
    BY <1>1, <1>4, <2>1 DEF Answer
  <2>3. /\ IsAnswer(answer) /\ answer.text = result.text \o fgets(pipe) /\ answer.err = result.err
        /\ answer.code = result.code
    BY <2>1 DEF IsAnswer, Answer
  <2>. HIDE DEF answer
  <2>. QED BY <1>2, <2>2, <2>3
<1>6. result.text \o fgets(pipe) \in Seq(Chars)
  BY <1>2, <1>3, ConcatProperties
<1>7. (result.text \o fgets(pipe)) \o pipe' = call.text
  <2>1. result.text \in Seq(Chars) /\ pipe \in Seq(Chars) /\ pipe # << >>
    BY <1>1, <1>2
  <2>2. (result.text \o fgets(pipe)) \o After(pipe, Len(fgets(pipe))) = result.text \o pipe
    BY <2>1, PieceMoves
  <2>. QED BY <1>1, <1>2, <2>2
<1>8. Len(pipe') <= MaxText
  <2>1. Len(pipe) \in Nat /\ Len(pipe') \in Nat /\ MaxText \in Nat
    BY <1>2, <1>3, LenProperties, TextAssumption
  <2>2. \A x, y, z \in Nat : x <= y /\ y <= z => x <= z
    OBVIOUS
  <2>. QED BY <2>1, <2>2, <1>2, <1>3
<1>9. CommandsAreRight'
  BY <1>1, <1>2, <1>3, <1>5, <1>6, <1>7, <1>8 DEF CommandsAreRight
<1>10. VariablesAreRight'
  BY <1>1, VariablesStay DEF AnswersInvariant
<1>11. ReadsAreRight'
  BY <1>1, ReadsStay DEF AnswersInvariant
<1>. QED BY <1>1, <1>5, <1>9, <1>10, <1>11 DEF AnswersInvariant, CallsAreRight, Steps

(* The command ended: its output and its exit code are returned. *)
LEMMA PcloseAnswers ==
  ASSUME AnswersInvariant, pclose
  PROVE  AnswersInvariant'
<1>1. /\ UNCHANGED use /\ UNCHANGED call /\ UNCHANGED env /\ UNCHANGED reader /\ UNCHANGED pipe
      /\ at = "piped" /\ at' = "returned" /\ call.fn = "system_command" /\ pipe = << >>
      /\ result' = [result EXCEPT !.code = ExitCode(Status(call.code, call.signal))]
  BY DEF pclose, Returns, AnswersInvariant, CallsAreRight
<1>2. /\ call.text \in Texts /\ call.code \in 0 .. 255 /\ call.signal = 0
      /\ result.err = "none" /\ result.code = 0
      /\ pipe \in Seq(Chars) /\ Len(pipe) <= MaxText
      /\ result.text \in Seq(Chars) /\ result.text \o pipe = call.text
  BY <1>1 DEF AnswersInvariant, CommandsAreRight
<1>3. result.text = call.text
  BY <1>1, <1>2, ConcatEmptySeq
<1>4. ExitCode(Status(call.code, call.signal)) = call.code /\ (call.code = 0 <=> Status(call.code, call.signal) = 0)
  BY <1>2, CodeOfStatus
<1>5. IsAnswer(result') /\ result'.text = call.text /\ result'.code = call.code
  <2>1. result = Answer(result.err, result.text, result.lines, result.code)
    BY DEF AnswersInvariant, IsAnswer
  <2>. DEFINE answer == Answer(result.err, result.text, result.lines, call.code)
  <2>2. result' = answer
    BY <1>1, <1>4, <2>1 DEF Answer
  <2>3. IsAnswer(answer) /\ answer.text = result.text /\ answer.code = call.code
    BY <1>2 DEF IsAnswer, Answer
  <2>. HIDE DEF answer
  <2>. QED BY <1>3, <2>2, <2>3
<1>9. CommandsAreRight'
  <2>1. Status(call.code, call.signal)' = Status(call.code, call.signal)
    BY <1>1 DEF Status
  <2>. QED BY <1>1, <1>2, <1>4, <1>5, <2>1 DEF CommandsAreRight
<1>10. VariablesAreRight'
  BY <1>1, VariablesStay DEF AnswersInvariant
<1>11. ReadsAreRight'
  BY <1>1, ReadsStay DEF AnswersInvariant
<1>. QED BY <1>1, <1>5, <1>9, <1>10, <1>11 DEF AnswersInvariant, CallsAreRight, Steps

----------------------------------------
(* Variables. *)
LEMMA GetEnvAnswers ==
  ASSUME ExpectsLittle, AnswersInvariant, NEW name \in Names, get_env(name)
  PROVE  AnswersInvariant'
<1>1. /\ UNCHANGED use /\ UNCHANGED env /\ UNCHANGED reader /\ UNCHANGED pipe
      /\ at' = "returned" /\ call' = [fn |-> "get_env", name |-> name] /\ CString(name) = name
      /\ result' = IF env[CString(name)] = Unset THEN Answer("VarNotFound", << >>, << >>, 0)
                   ELSE Answer("none", env[CString(name)], << >>, 0)
  BY DEF get_env, Called, Returns, ExpectsLittle
<1>2. call'.fn = "get_env" /\ call'.name = name
  BY <1>1
<1>3. /\ IsAnswer(result')
      /\ result'.err = "none" => result'.text = env[name]
  <2>1. CASE env[CString(name)] = Unset
    <3>. DEFINE answer == Answer("VarNotFound", << >>, << >>, 0)
    <3>1. result' = answer
      BY <1>1, <2>1
    <3>2. IsAnswer(answer) /\ answer.err = "VarNotFound"
      BY Nothing, AnswerIs
    <3>. HIDE DEF answer
    <3>. QED BY <3>1, <3>2
  <2>2. CASE env[CString(name)] # Unset
    <3>. DEFINE answer == Answer("none", env[name], << >>, 0)
    <3>1. result' = answer
      BY <1>1, <2>2
    <3>2. IsAnswer(answer) /\ answer.text = env[name]
      BY Nothing DEF IsAnswer, Answer
    <3>. HIDE DEF answer
    <3>. QED BY <3>1, <3>2
  <2>. QED BY <2>1, <2>2
<1>4. env \in [{CString(n) : n \in Names} -> Values \cup {Unset}]
  BY DEF AnswersInvariant, VariablesAreRight
<1>5. CString(name) \in {CString(n) : n \in Names}
  OBVIOUS
<1>6. VariablesAreRight'
  <2>1. name \in DOMAIN env
    BY <1>1, <1>4, <1>5
  <2>. QED BY <1>1, <1>2, <1>3, <1>4, <2>1 DEF VariablesAreRight
<1>7. CommandsAreRight'
  BY <1>1, <1>2, CommandsStay DEF AnswersInvariant
<1>8. ReadsAreRight'
  BY <1>1, <1>2, ReadsStay DEF AnswersInvariant
<1>. QED BY <1>1, <1>3, <1>6, <1>7, <1>8 DEF AnswersInvariant, CallsAreRight, Steps

(* A variable is set. *)
LEMMA SetEnvAnswers ==
  ASSUME AnswersInvariant,
         NEW name \in Names, NEW content \in Values, NEW overwrite \in BOOLEAN, set_env(name, content, overwrite)
  PROVE  AnswersInvariant'
<1>1. /\ UNCHANGED use /\ UNCHANGED reader /\ UNCHANGED pipe
      /\ at' = "returned" /\ call'.fn = "set_env"
  BY DEF set_env, Called, Returns
<1>2. env \in [{CString(n) : n \in Names} -> Values \cup {Unset}] /\ CString(name) \in {CString(n) : n \in Names}
  BY DEF AnswersInvariant, VariablesAreRight
<1>3. IsAnswer(result') /\ env' \in [{CString(n) : n \in Names} -> Values \cup {Unset}]
  <2>1. 1 \in 0 .. 255 /\ 0 \in 0 .. 255
    OBVIOUS
  <2>2. CASE CString(name) # name
    <3>1. result' = Answer("InvalidName", << >>, << >>, 0) /\ UNCHANGED env
      BY <2>2 DEF set_env, Returns
    <3>. QED BY <1>2, <2>1, <3>1, AnswerIs
  <2>3. CASE CString(name) = name /\ CString(content) # content
    <3>1. result' = Answer("InvalidValue", << >>, << >>, 0) /\ UNCHANGED env
      BY <2>3 DEF set_env, Returns
    <3>. QED BY <1>2, <2>1, <3>1, AnswerIs
  <2>4. CASE CString(name) = name /\ CString(content) = content
    <3>1. /\ result' = Answer("none", << >>, << >>, IF name = << >> THEN 0 ELSE 1)
          /\ env' = env \/ env' = [env EXCEPT ![CString(name)] = CString(content)]
      BY <2>4 DEF set_env, Returns
    <3>2. (IF name = << >> THEN 0 ELSE 1) \in 0 .. 255
      BY <2>1
    <3>3. IsAnswer(result')
      BY <3>1, <3>2, AnswerIs
    <3>4. CString(content) \in Values
      BY <2>4
    <3>. QED BY <1>2, <3>1, <3>3, <3>4
  <2>. QED BY <2>2, <2>3, <2>4
<1>6. VariablesAreRight'
  BY <1>1, <1>3 DEF VariablesAreRight
<1>7. CommandsAreRight'
  BY <1>1, CommandsStay DEF AnswersInvariant
<1>8. ReadsAreRight'
  BY <1>1, ReadsStay DEF AnswersInvariant
<1>. QED BY <1>1, <1>3, <1>6, <1>7, <1>8 DEF AnswersInvariant, CallsAreRight, Steps

(* The steps of read_str leave the other parts alone. *)
LEMMA OnlyReads ==
  ASSUME AnswersInvariant, UNCHANGED <<use, pipe, env>>, at' \in Steps, IsAnswer(result'), call'.fn = "read_str",
         at' \notin {"command", "piped"}, ReadsAreRight'
  PROVE  AnswersInvariant'
<1>1. UNCHANGED pipe /\ UNCHANGED env /\ use' = use
  OBVIOUS
<1>2. CommandsAreRight'
  BY <1>1, CommandsStay DEF AnswersInvariant
<1>3. VariablesAreRight'
  BY <1>1, VariablesStay DEF AnswersInvariant
<1>. QED BY <1>1, <1>2, <1>3 DEF AnswersInvariant, CallsAreRight

(* A line is to be read. *)
LEMMA ReadBegins ==
  ASSUME AnswersInvariant, CallRead
  PROVE  AnswersInvariant'
<1>1. /\ UNCHANGED <<use, pipe, env>> /\ stdin' = stdin /\ call'.fn = "read_str" /\ at' = "getline"
      /\ cap' = InitialCap /\ buf' = << >> /\ given' = stdin /\ result' = NoAnswer
  BY DEF CallRead, Called
<1>2. stdin \in Seq(Chars) /\ buf \in Seq(Chars) /\ Len(buf) + Len(stdin) <= MaxText
  BY DEF AnswersInvariant, ReadsAreRight
<1>3. << >> \in Seq(Chars) /\ Len(<< >>) = 0 /\ << >> \o stdin = stdin
  BY <1>2, EmptySeq, ConcatEmptySeq
<1>4. Len(stdin) <= MaxText /\ 0 + Len(stdin) <= MaxText
  <2>1. Len(stdin) \in Nat /\ Len(buf) \in Nat /\ MaxText \in Nat
    BY <1>2, LenProperties, TextAssumption
  <2>2. Len(stdin) <= MaxText
    BY <2>1, <1>2, SumFits
  <2>. QED BY <2>1, <2>2
<1>5. InitialCap \in Nat /\ InitialCap = CapOf[0]
  BY CapGrows, ConsoleAssumption
<1>6. ReadsAreRight'
  <2>1. \A i \in 1 .. 0 : << >>[i] # NL
    OBVIOUS
  <2>. QED BY <1>1, <1>2, <1>3, <1>4, <1>5, <2>1 DEF ReadsAreRight
<1>. QED BY <1>1, <1>6, Nothing, OnlyReads DEF Steps

(* A character more is in the buffer. *)
LEMMA CharMoves ==
  ASSUME NEW S, NEW have \in Seq(S), NEW rest \in Seq(S), rest # << >>
  PROVE  /\ Head(rest) \in S /\ Tail(rest) \in Seq(S) /\ Append(have, Head(rest)) \in Seq(S)
         /\ Append(have, Head(rest)) \o Tail(rest) = have \o rest
         /\ Len(Append(have, Head(rest))) = Len(have) + 1 /\ Len(Tail(rest)) = Len(rest) - 1
         /\ \A i \in 1 .. Len(have) : Append(have, Head(rest))[i] = have[i]
         /\ Append(have, Head(rest))[Len(have) + 1] = Head(rest)
<1>. DEFINE h == Head(rest)
            t == Tail(rest)
<1>1. h \in S /\ t \in Seq(S) /\ Len(t) = Len(rest) - 1 /\ rest = << h >> \o t
  BY HeadTailProperties
<1>. HIDE DEF h, t
<1>2. /\ Append(have, h) \in Seq(S) /\ Len(Append(have, h)) = Len(have) + 1
      /\ \A i \in 1 .. Len(have) : Append(have, h)[i] = have[i]
      /\ Append(have, h)[Len(have) + 1] = h
  BY <1>1, AppendProperties
<1>3. Append(have, h) = have \o << h >> /\ << h >> \in Seq(S)
  BY <1>1, AppendIsConcat
<1>4. (have \o << h >>) \o t = have \o (<< h >> \o t)
  BY <1>1, <1>3, ConcatAssociative
<1>. QED BY <1>1, <1>2, <1>3, <1>4 DEF h, t

(* One character is read, and the buffer fits into the memory. *)
LEMMA CharIsRead ==
  ASSUME ExpectsLittle, AnswersInvariant, GetChar
  PROVE  AnswersInvariant'
<1>1. /\ at = "getline" /\ stdin # << >> /\ cap' = 2 * cap /\ UNCHANGED <<use, call, result, pipe, env>> /\ given' = given
      /\ IF 2 * cap > Memory THEN at' = "undefined" /\ UNCHANGED <<stdin, buf>>
         ELSE /\ buf' = Append(buf, Head(stdin)) /\ stdin' = Tail(stdin)
              /\ at' = IF Head(stdin) = NL THEN "line" ELSE "getline"
  BY DEF GetChar
<1>2. /\ stdin \in Seq(Chars) /\ buf \in Seq(Chars) /\ given \in Seq(Chars)
      /\ Len(buf) + Len(stdin) <= MaxText /\ Len(given) <= MaxText
      /\ given = buf \o stdin
      /\ cap = CapOf[Len(buf)] /\ \A i \in 1 .. Len(buf) : buf[i] # NL
      /\ call.fn = "read_str" /\ IsAnswer(result)
  BY <1>1 DEF AnswersInvariant, ReadsAreRight, CallsAreRight
<1>. DEFINE more == Append(buf, Head(stdin))
<1>3. /\ Tail(stdin) \in Seq(Chars) /\ more \in Seq(Chars)
      /\ more \o Tail(stdin) = given
      /\ Len(more) = Len(buf) + 1 /\ Len(Tail(stdin)) = Len(stdin) - 1
      /\ \A i \in 1 .. Len(buf) : more[i] = buf[i]
      /\ more[Len(buf) + 1] = Head(stdin)
  BY <1>1, <1>2, CharMoves
<1>. HIDE DEF more
<1>4. Len(buf) \in Nat /\ Len(stdin) \in Nat \ {0} /\ MaxText \in Nat
  BY <1>1, <1>2, LenProperties, EmptySeq, TextAssumption
<1>5. Len(buf) + 1 <= MaxText /\ Len(buf) + 1 \in Nat /\ (Len(buf) + 1) + (Len(stdin) - 1) <= MaxText
  <2>1. \A x, m \in Nat : \A y \in Nat \ {0} : x + y <= m => x + 1 <= m /\ x + 1 \in Nat /\ (x + 1) + (y - 1) <= m
    OBVIOUS
  <2>. QED BY <1>2, <1>4, <2>1
<1>6. cap' = CapOf[Len(buf) + 1] /\ cap' \in Nat /\ ~(2 * cap > Memory)
  <2>1. /\ CapOf[Len(buf) + 1] = 2 * cap
        /\ CapOf[Len(buf) + 1] \in Nat /\ CapOf[MaxText] \in Nat
    BY <1>2, <1>4, <1>5, CapGrows
  <2>2. CapOf[Len(buf) + 1] <= CapOf[MaxText]
    BY <1>4, <1>5, CapsInOrder
  <2>3. CapOf[MaxText] <= Memory /\ Memory \in Nat
    BY ConsoleAssumption DEF ExpectsLittle
  <2>4. \A x, y, z \in Nat : x <= y /\ y <= z => ~(x > z)
    OBVIOUS
  <2>5. ~(CapOf[Len(buf) + 1] > Memory)
    BY <2>1, <2>2, <2>3, <2>4
  <2>. QED BY <1>1, <2>1, <2>5
<1>7. /\ buf' = more /\ stdin' = Tail(stdin)
      /\ at' = IF Head(stdin) = NL THEN "line" ELSE "getline"
  BY <1>1, <1>6 DEF more
<1>8. \A i \in 1 .. (Len(buf) + 1) - 1 : more[i] # NL
  <2>1. (Len(buf) + 1) - 1 = Len(buf)
    BY <1>4
  <2>. QED BY <2>1, <1>2, <1>3
<1>9. Head(stdin) # NL => \A i \in 1 .. Len(buf) + 1 : more[i] # NL
  <2>1. \A i \in 1 .. Len(buf) + 1 : i \in 1 .. Len(buf) \/ i = Len(buf) + 1
    BY <1>4
  <2>. QED BY <2>1, <1>2, <1>3
<1>10. more # << >>
  <2>1. Len(<< >>) = 0 /\ Len(more) # 0
    BY <1>3, <1>4
  <2>. QED BY <2>1
<1>11. ReadsAreRight'
  BY <1>1, <1>2, <1>3, <1>5, <1>6, <1>7, <1>8, <1>9, <1>10 DEF ReadsAreRight
<1>12. at' \in {"line", "getline"}
  BY <1>7
<1>. QED BY <1>1, <1>2, <1>11, <1>12, OnlyReads DEF Steps

(* The input ended. *)
LEMMA ReadEnds ==
  ASSUME AnswersInvariant, EndOfInput
  PROVE  AnswersInvariant'
<1>1. /\ at = "getline" /\ stdin = << >> /\ at' = IF buf = << >> THEN "nothing" ELSE "line"
      /\ UNCHANGED <<use, call, result, pipe, env>> /\ UNCHANGED <<stdin, cap, buf, given>>
  BY DEF EndOfInput, reader
<1>2. /\ stdin \in Seq(Chars) /\ buf \in Seq(Chars) /\ given \in Seq(Chars) /\ cap \in Nat
      /\ Len(buf) + Len(stdin) <= MaxText /\ Len(given) <= MaxText
      /\ given = buf \o stdin /\ \A i \in 1 .. Len(buf) : buf[i] # NL
      /\ call.fn = "read_str" /\ IsAnswer(result)
  BY <1>1 DEF AnswersInvariant, ReadsAreRight, CallsAreRight
<1>3. buf = << >> => given = << >>
  BY <1>1, <1>2, ConcatEmptySeq
<1>4. \A i \in 1 .. Len(buf) - 1 : buf[i] # NL
  <2>1. Len(buf) \in Nat
    BY <1>2, LenProperties
  <2>. QED BY <2>1, <1>2
<1>5. at' \in {"nothing", "line"}
  BY <1>1
<1>6. ReadsAreRight'
  BY <1>1, <1>2, <1>3, <1>4, <1>5 DEF ReadsAreRight
<1>. QED BY <1>1, <1>2, <1>5, <1>6, OnlyReads DEF Steps

(* The line without its line feed. *)
LEMMA LineWithout ==
  ASSUME NEW line \in Seq(Chars), line # << >>, \A i \in 1 .. Len(line) - 1 : line[i] # NL
  PROVE  /\ Stripped(line) \in Seq(Chars)
         /\ NL \notin {Stripped(line)[i] : i \in DOMAIN Stripped(line)}
         /\ line[Len(line)] = NL => line = Stripped(line) \o << NL >>
         /\ line[Len(line)] # NL => line = Stripped(line)
<1>1. Len(line) \in Nat \ {0} /\ Last(line) = line[Len(line)] /\ DOMAIN line = 1 .. Len(line)
  BY EmptySeq, LenProperties DEF Last
<1>2. CASE line[Len(line)] = NL
  <2>1. Stripped(line) = SubSeq(line, 1, Len(line) - 1)
    BY <1>1, <1>2 DEF Stripped, Front
  <2>2. /\ 1 \in Nat \ {0} /\ Len(line) - 1 \in Nat /\ Len(line) - 1 <= Len(line)
        /\ 1 \in 1 .. Len(line) /\ Len(line) \in 1 .. Len(line)
    BY <1>1
  <2>3. /\ SubSeq(line, 1, Len(line) - 1) \in Seq(Chars)
        /\ \A i \in 1 .. Len(SubSeq(line, 1, Len(line) - 1)) : SubSeq(line, 1, Len(line) - 1)[i] = line[1 + i - 1]
        /\ DOMAIN SubSeq(line, 1, Len(line) - 1) = 1 .. Len(SubSeq(line, 1, Len(line) - 1))
        /\ Len(SubSeq(line, 1, Len(line) - 1)) = IF 1 <= Len(line) - 1 THEN Len(line) - 1 - 1 + 1 ELSE 0
    BY <2>2, PieceIsText
  <2>4. Len(SubSeq(line, 1, Len(line) - 1)) = Len(line) - 1
    <3>1. (IF 1 <= Len(line) - 1 THEN Len(line) - 1 - 1 + 1 ELSE 0) = Len(line) - 1
      BY <1>1
    <3>. QED BY <2>3, <3>1
  <2>5. \A i \in DOMAIN Stripped(line) : Stripped(line)[i] # NL
    <3>1. \A i \in 1 .. Len(line) - 1 : 1 + i - 1 = i
      BY <1>1
    <3>. QED BY <2>1, <2>3, <2>4, <3>1
  <2>6. SubSeq(line, 1, Len(line)) = Append(SubSeq(line, 1, Len(line) - 1), line[Len(line)])
    <3>1. Len(line) \in 1 .. Len(line) /\ 1 \in 1 .. Len(line)
      BY <2>2
    <3>. QED BY <3>1, PieceAndLast
  <2>7. line = Append(Stripped(line), NL)
    BY <1>2, <2>1, <2>6, SubSeqFull
  <2>8. Append(Stripped(line), NL) = Stripped(line) \o << NL >>
    <3>1. NL \in Chars /\ Stripped(line) \in Seq(Chars)
      BY <2>1, <2>3 DEF Chars
    <3>. QED BY <3>1, AppendIsConcat
  <2>. QED BY <1>2, <2>1, <2>3, <2>5, <2>7, <2>8
<1>3. CASE line[Len(line)] # NL
  <2>1. Stripped(line) = line
    BY <1>1, <1>3 DEF Stripped
  <2>2. \A i \in 1 .. Len(line) : i \in 1 .. Len(line) - 1 \/ i = Len(line)
    <3>1. \A n \in Nat : \A i \in 1 .. n : i \in 1 .. n - 1 \/ i = n
      OBVIOUS
    <3>2. Len(line) \in Nat
      BY <1>1
    <3>. QED BY <3>1, <3>2
  <2>3. \A i \in DOMAIN line : line[i] # NL
    BY <1>1, <1>3, <2>2
  <2>. QED BY <1>3, <2>1, <2>3
<1>. QED BY <1>2, <1>3

(* The line is returned without its line feed. *)
LEMMA LineIsReturned ==
  ASSUME AnswersInvariant, read_str
  PROVE  AnswersInvariant'
<1>1. /\ at = "line" /\ at' = "returned" /\ result' = Answer("none", Stripped(buf), << >>, 0)
      /\ UNCHANGED <<use, call, pipe, env>> /\ stdin' = stdin /\ given' = given /\ cap' = 0 /\ buf' = << >>
  BY DEF read_str, Returns
<1>2. /\ stdin \in Seq(Chars) /\ buf \in Seq(Chars) /\ given \in Seq(Chars)
      /\ Len(buf) + Len(stdin) <= MaxText /\ Len(given) <= MaxText
      /\ given = buf \o stdin
      /\ \A i \in 1 .. Len(buf) - 1 : buf[i] # NL
      /\ buf # <<>> /\ (buf[Len(buf)] = NL \/ stdin = <<>>)
      /\ call.fn = "read_str"
  BY <1>1 DEF AnswersInvariant, ReadsAreRight, CallsAreRight
<1>3. IsAnswer(result') /\ result'.text = Stripped(buf)
  <2>. DEFINE answer == Answer("none", Stripped(buf), << >>, 0)
  <2>1. IsAnswer(answer) /\ answer.text = Stripped(buf)
    BY Nothing, AnswerIs
  <2>2. result' = answer
    BY <1>1
  <2>. HIDE DEF answer
  <2>. QED BY <2>1, <2>2
<1>4. /\ Stripped(buf) \in Seq(Chars)
      /\ NL \notin {Stripped(buf)[i] : i \in DOMAIN Stripped(buf)}
      /\ buf[Len(buf)] = NL => buf = Stripped(buf) \o << NL >>
      /\ buf[Len(buf)] # NL => buf = Stripped(buf)
  BY <1>2, LineWithout
<1>5. \/ given = Stripped(buf) \o <<NL>> \o stdin
      \/ given = Stripped(buf) /\ stdin = << >>
  <2>1. CASE buf[Len(buf)] = NL
    BY <1>2, <1>4, <2>1
  <2>2. CASE buf[Len(buf)] # NL
    <3>1. stdin = << >> /\ buf \o << >> = buf
      BY <1>2, <2>2, ConcatEmptySeq
    <3>. QED BY <1>2, <1>4, <2>2, <3>1
  <2>. QED BY <2>1, <2>2
<1>6. LineIsRead'
  BY <1>1, <1>3, <1>4, <1>5 DEF LineIsRead
<1>7. Len(<< >>) + Len(stdin) <= MaxText /\ << >> \in Seq(Chars) /\ 0 \in Nat
  <2>1. Len(<< >>) = 0 /\ << >> \in Seq(Chars)
    BY EmptySeq
  <2>2. Len(stdin) \in Nat /\ Len(buf) \in Nat /\ MaxText \in Nat
    BY <1>2, LenProperties, TextAssumption
  <2>3. 0 + Len(stdin) = Len(stdin) /\ 0 \in Nat
    BY <2>2
  <2>4. Len(stdin) <= MaxText
    BY <2>2, <1>2, SumFits
  <2>. QED BY <2>1, <2>3, <2>4
<1>8. ReadsAreRight'
  BY <1>1, <1>2, <1>6, <1>7 DEF ReadsAreRight
<1>. QED BY <1>1, <1>2, <1>3, <1>8, OnlyReads DEF Steps

(* There was nothing to read. *)
LEMMA NothingIsRead ==
  ASSUME AnswersInvariant, NothingToRead
  PROVE  AnswersInvariant'
<1>1. /\ at = "nothing" /\ at' = "aborted"
      /\ UNCHANGED <<use, call, result, pipe, env>> /\ UNCHANGED <<stdin, cap, buf, given>>
  BY DEF NothingToRead, reader
<1>2. /\ stdin \in Seq(Chars) /\ buf \in Seq(Chars) /\ given \in Seq(Chars) /\ cap \in Nat
      /\ Len(buf) + Len(stdin) <= MaxText /\ Len(given) <= MaxText
      /\ given = << >> /\ call.fn = "read_str" /\ IsAnswer(result)
  BY <1>1 DEF AnswersInvariant, ReadsAreRight, CallsAreRight
<1>3. ReadsAreRight'
  BY <1>1, <1>2 DEF ReadsAreRight
<1>. QED BY <1>1, <1>2, <1>3, OnlyReads DEF Steps

----------------------------------------
(* Every step keeps the answers right. *)
LEMMA AnswersStep ==
  ASSUME ExpectsLittle, AnswersInvariant, [CoreNext]_core_vars
  PROVE  AnswersInvariant'
<1>1. CASE UNCHANGED console_vars
  <2>1. UNCHANGED <<calling, pipe, env, reader>>
    BY <1>1 DEF console_vars
  <2>. QED BY <2>1, AnswersStay
<1>2. CASE ConsoleNext
  <2>1. CASE \/ \E text \in Texts : print(text)
             \/ StdioFlushes
             \/ start_capture \/ StartAgain \/ end_capture \/ end_capture_lines \/ EndNothing
             \/ EmptyCommand
    BY <2>1, OutputAnswers
  <2>2. CASE popen \/ ReadPipe \/ pclose
    BY <2>2, PopenAnswers, PipeAnswers, PcloseAnswers
  <2>3. CASE \E text \in Texts, code \in ExitCodes, signal \in {0, 9} : CallCommand(text, code, signal)
    BY <2>3, CommandAnswers
  <2>4. CASE \E name \in Names : get_env(name)
    BY <2>4, GetEnvAnswers
  <2>5. CASE \E name \in Names, content \in Values, overwrite \in BOOLEAN : set_env(name, content, overwrite)
    BY <2>5, SetEnvAnswers
  <2>6. CASE CallRead \/ GetChar \/ EndOfInput \/ read_str \/ NothingToRead
    BY <2>6, ReadBegins, CharIsRead, ReadEnds, LineIsReturned, NothingIsRead
  <2>. QED BY <1>2, <2>1, <2>2, <2>3, <2>4, <2>5, <2>6 DEF ConsoleNext
<1>. QED BY <1>1, <1>2 DEF CoreNext, core_vars

(* The invariant implies what the calls promise. *)
LEMMA AnswersComplete ==
  ASSUME AnswersInvariant
  PROVE  AnswersAreComplete
BY DEF AnswersInvariant, CommandsAreRight, VariablesAreRight, ReadsAreRight, LineIsRead, AnswersAreComplete

(* What the parts of the invariant say of the types. *)
LEMMA ConsoleTypes ==
  ASSUME OutputInvariant, AnswersInvariant
  PROVE  ConsoleTypeOK
<1>1. MaxText \in Nat
  BY TextAssumption
<1>2. \A t \in Seq(Chars) : Len(t) \in Nat
  BY LenProperties
<1>3. outside \in Texts /\ inside \in Texts
  <2>1. outside \in Seq(Chars) /\ inside \in Seq(Chars) /\ Len(outside) + Len(inside) <= MaxText
    BY DEF OutputInvariant, OutputIsRight
  <2>2. Len(outside) \in Nat /\ Len(inside) \in Nat
    BY <1>2, <2>1
  <2>3. Len(outside) <= MaxText /\ Len(inside) <= MaxText
    BY <1>1, <2>1, <2>2, SumFits
  <2>. QED BY <2>1, <2>3, TextsAre
<1>4. ASSUME NEW s \in Seq(Chars), NEW t \in Seq(Chars), s \o t \in Texts
      PROVE  s \in Texts /\ t \in Texts
  <2>1. Len(s \o t) = Len(s) + Len(t) /\ Len(s \o t) <= MaxText
    BY <1>4, ConcatProperties, TextsAre
  <2>2. Len(s) \in Nat /\ Len(t) \in Nat
    BY <1>2
  <2>3. Len(s) + Len(t) <= MaxText
    BY <2>1
  <2>4. Len(s) <= MaxText /\ Len(t) <= MaxText
    BY <1>1, <2>2, <2>3, SumFits
  <2>. QED BY <2>4, TextsAre
<1>5. stdio \in Texts /\ terminal \in Texts /\ capture_file \in Texts \cup {NoCapture}
  BY <1>3, <1>4 DEF OutputInvariant, OutputIsRight, capturing
<1>6. pipe \in Texts /\ given \in Texts
  BY TextsAre DEF AnswersInvariant, CommandsAreRight, ReadsAreRight
<1>7. stdin \in Texts /\ buf \in Texts
  <2>1. stdin \in Seq(Chars) /\ buf \in Seq(Chars) /\ Len(buf) + Len(stdin) <= MaxText
    BY DEF AnswersInvariant, ReadsAreRight
  <2>2. Len(buf) \in Nat /\ Len(stdin) \in Nat
    BY <1>2, <2>1
  <2>3. Len(buf) <= MaxText /\ Len(stdin) <= MaxText
    BY <1>1, <2>1, <2>2, SumFits
  <2>. QED BY <2>1, <2>3, TextsAre
<1>8. stdout_to \in {"terminal", "capture"} /\ descriptors \in Nat
  <2>1. 0 \in Nat /\ 2 \in Nat
    OBVIOUS
  <2>. QED BY <2>1 DEF OutputInvariant, OutputIsRight
<1>. QED BY <1>3, <1>5, <1>6, <1>7, <1>8
          DEF AnswersInvariant, VariablesAreRight, ReadsAreRight, IsAnswer, Steps, ConsoleTypeOK

(* The lines up to a place: those that end, and one that has begun. *)
LEMMA CountedUpTo ==
  ASSUME NEW S, NEW text \in Seq(S), NEW p \in 0 .. Len(text)
  PROVE  Counted(SubSeq(text, 1, p)) = Rank(Ends(text), p) + (IF p # 0 /\ text[p] # NL THEN 1 ELSE 0)
<1>. DEFINE s == SubSeq(text, 1, p)
<1>1. Len(text) \in Nat /\ DOMAIN text = 1 .. Len(text)
  BY LenProperties
<1>2. s \in Seq(S) /\ Len(s) = p /\ DOMAIN s = 1 .. p /\ \A i \in 1 .. p : s[i] = text[i]
  <2>1. 1 \in Nat \ {0} /\ p \in Nat /\ p <= Len(text) /\ (IF 1 <= p THEN p - 1 + 1 ELSE 0) = p
    BY <1>1
  <2>2. /\ s \in Seq(S) /\ Len(s) = (IF 1 <= p THEN p - 1 + 1 ELSE 0) /\ DOMAIN s = 1 .. Len(s)
        /\ \A i \in 1 .. Len(s) : s[i] = text[1 + i - 1]
    BY <2>1, PieceIsText
  <2>3. \A i \in 1 .. p : 1 + i - 1 = i
    BY <2>1
  <2>. HIDE DEF s
  <2>. QED BY <2>1, <2>2, <2>3
<1>. HIDE DEF s
<1>3. {i \in DOMAIN s : s[i] = NL} = {j \in Ends(text) : j <= p}
  <2>1. \A i : i \in 1 .. p <=> i \in 1 .. Len(text) /\ i <= p
    BY <1>1
  <2>. QED BY <1>1, <1>2, <2>1 DEF Ends
<1>4. s # << >> <=> p # 0
  <2>1. s = << >> <=> Len(s) = 0
    BY <1>2, EmptySeq
  <2>. QED BY <1>2, <2>1
<1>5. p # 0 => Last(s) = text[p]
  <2>1. p # 0 => p \in 1 .. p
    BY <1>1
  <2>. QED BY <1>2, <2>1 DEF Last
<1>6. Counted(s) = Cardinality({i \in DOMAIN s : s[i] = NL}) + (IF s # << >> /\ Last(s) # NL THEN 1 ELSE 0)
  BY DEF Counted
<1>7. Counted(s) = Rank(Ends(text), p) + (IF p # 0 /\ text[p] # NL THEN 1 ELSE 0)
  BY <1>3, <1>4, <1>5, <1>6 DEF Rank
<1>. QED BY <1>7 DEF s

(* So many lines are at most in the whole text. *)
GoesToTheEnd(text, p, k) ==
  /\ \A j \in p + 1 .. p + k - 1 : text[j] # NL
  /\ text[p + k] = NL \/ p + k = Len(text)
IsLine(text, p, k) == (p = 0 \/ text[p] = NL) /\ GoesToTheEnd(text, p, k)

(* One line further there is one line more. *)
LEMMA CountedNext ==
  ASSUME NEW S, NEW text \in Seq(S), NEW p \in Nat, NEW k \in Nat \ {0}, p + k <= Len(text), IsLine(text, p, k)
  PROVE  /\ Counted(SubSeq(text, 1, p)) \in Nat
         /\ Counted(SubSeq(text, 1, p + k)) = Counted(SubSeq(text, 1, p)) + 1
         /\ Counted(text) \in Nat /\ Counted(SubSeq(text, 1, p)) + 1 <= Counted(text)
<1>. DEFINE E == Ends(text)
            n == Len(text)
<1>1. n \in Nat /\ E \subseteq 1 .. n /\ E \subseteq Nat \ {0} /\ IsFiniteSet(E) /\ DOMAIN text = 1 .. n
  BY EndsAre
<1>2. /\ p \in 0 .. n /\ p + k \in 0 .. n /\ n \in 0 .. n /\ p + k \in Nat \ {0}
      /\ (p + k) - 1 \in Nat /\ p <= (p + k) - 1 /\ p + k \in 1 .. n
  BY <1>1
<1>3. \A j \in E : j \in Nat /\ text[j] = NL
  BY <1>1 DEF Ends
<1>4. p + k \in E <=> text[p + k] = NL
  BY <1>1, <1>2 DEF Ends
<1>5. Rank(E, p) \in Nat /\ Rank(E, n) \in Nat /\ Rank(E, p + k) \in Nat /\ Rank(E, (p + k) - 1) \in Nat
  <2>. HIDE DEF E, n
  <2>. QED BY <1>1, <1>2, RankStep
<1>6. Rank(E, p) = Rank(E, (p + k) - 1)
  <2>1. \A j \in E : j <= (p + k) - 1 <=> j <= p
    <3>1. ASSUME NEW j \in E, j <= (p + k) - 1, ~(j <= p)
          PROVE  FALSE
      <4>1. j \in Nat /\ text[j] = NL
        BY <1>3
      <4>2. j \in p + 1 .. p + k - 1
        BY <3>1, <4>1
      <4>. QED BY <4>1, <4>2 DEF IsLine, GoesToTheEnd
    <3>2. \A j \in Nat : j <= p => j <= (p + k) - 1
      BY <1>2
    <3>. QED BY <3>1, <3>2, <1>3
  <2>. HIDE DEF E
  <2>. QED BY <2>1 DEF Rank
<1>7. Rank(E, p + k) = IF p + k \in E THEN Rank(E, (p + k) - 1) + 1 ELSE Rank(E, (p + k) - 1)
  <2>. HIDE DEF E, n
  <2>. QED BY <1>1, <1>2, RankBefore
<1>8. Rank(E, p + k) <= Rank(E, n)
  <2>1. p + k \in Nat /\ p + k <= n
    BY <1>2
  <2>. HIDE DEF E, n
  <2>. QED BY <1>1, <2>1, RankGrows
<1>9. Counted(SubSeq(text, 1, p)) = Rank(E, p)
  <2>1. Counted(SubSeq(text, 1, p)) = Rank(E, p) + (IF p # 0 /\ text[p] # NL THEN 1 ELSE 0)
    BY <1>2, CountedUpTo
  <2>2. ~(p # 0 /\ text[p] # NL)
    BY DEF IsLine, GoesToTheEnd
  <2>. HIDE DEF E
  <2>. QED BY <1>5, <2>1, <2>2
<1>10. Counted(SubSeq(text, 1, p + k)) = Rank(E, p + k) + (IF text[p + k] # NL THEN 1 ELSE 0)
  <2>1. Counted(SubSeq(text, 1, p + k)) = Rank(E, p + k) + (IF p + k # 0 /\ text[p + k] # NL THEN 1 ELSE 0)
    BY <1>2, CountedUpTo
  <2>. HIDE DEF E
  <2>. QED BY <1>2, <2>1
<1>11. Counted(text) = Rank(E, n) + (IF n # 0 /\ text[n] # NL THEN 1 ELSE 0)
  <2>1. Counted(SubSeq(text, 1, n)) = Rank(E, n) + (IF n # 0 /\ text[n] # NL THEN 1 ELSE 0)
    BY <1>2, CountedUpTo
  <2>. QED BY <2>1, SubSeqFull
<1>12. text[p + k] = NL \/ p + k = n
  BY DEF IsLine, GoesToTheEnd
<1>. HIDE DEF E, n
<1>13. CASE text[p + k] = NL
  <2>1. /\ Rank(E, p + k) = Rank(E, p) + 1 /\ Counted(SubSeq(text, 1, p + k)) = Rank(E, p + k)
        /\ Counted(text) \in Nat /\ Rank(E, n) <= Counted(text)
    BY <1>4, <1>5, <1>6, <1>7, <1>10, <1>11, <1>13
  <2>2. Rank(E, p) + 1 <= Counted(text)
    BY <1>5, <1>8, <2>1
  <2>. QED BY <1>5, <1>9, <2>1, <2>2
<1>14. CASE text[p + k] # NL
  <2>1. Rank(E, p + k) = Rank(E, p) /\ p + k = n
    BY <1>4, <1>5, <1>6, <1>7, <1>12, <1>14
  <2>2. Counted(SubSeq(text, 1, p + k)) = Rank(E, p) + 1
    BY <2>1, <1>10, <1>14
  <2>3. Counted(text) = Rank(E, p) + 1
    <3>1. n # 0 /\ text[n] # NL /\ Rank(E, n) = Rank(E, p)
      BY <2>1, <1>2, <1>14
    <3>. QED BY <1>11, <3>1
  <2>4. Rank(E, p) + 1 \in Nat /\ Rank(E, p) + 1 <= Rank(E, p) + 1
    BY <1>5
  <2>. QED BY <1>5, <1>9, <2>2, <2>3, <2>4
<1>. QED BY <1>13, <1>14

(* A text has a line unless it is empty. *)
LEMMA CountedAny ==
  ASSUME NEW S, NEW text \in Seq(S)
  PROVE  /\ Counted(text) \in Nat /\ (text # << >> => Counted(text) # 0)
         /\ Counted(<< >>) = 0
<1>. DEFINE E == Ends(text)
            n == Len(text)
<1>1. n \in Nat /\ E \subseteq 1 .. n /\ IsFiniteSet(E) /\ Rank(E, n) = Cardinality(E) /\ Cardinality(E) \in Nat
      /\ DOMAIN text = 1 .. n
  BY EndsAre
<1>2. n \in 0 .. n
  BY <1>1
<1>3. Counted(text) = Cardinality(E) + (IF n # 0 /\ text[n] # NL THEN 1 ELSE 0)
  <2>1. Counted(SubSeq(text, 1, n)) = Rank(E, n) + (IF n # 0 /\ text[n] # NL THEN 1 ELSE 0)
    BY <1>2, CountedUpTo
  <2>. QED BY <1>1, <2>1, SubSeqFull
<1>4. ASSUME text # << >>
      PROVE  Counted(text) # 0
  <2>1. n # 0 /\ n \in 1 .. n
    <3>1. Len(text) \in Nat \ {0}
      BY <1>4, EmptySeq
    <3>. QED BY <3>1
  <2>2. CASE text[n] = NL
    <3>1. n \in E
      BY <1>1, <2>1, <2>2 DEF Ends
    <3>2. Cardinality(E) # 0
      <4>. HIDE DEF E
      <4>. QED BY <1>1, <3>1, FS_EmptySet
    <3>3. Counted(text) = Cardinality(E) + 0
      BY <1>3, <2>2
    <3>4. \A x \in Nat : x # 0 => x + 0 # 0
      OBVIOUS
    <3>. HIDE DEF E
    <3>. QED BY <1>1, <3>2, <3>3, <3>4
  <2>3. CASE text[n] # NL
    <3>1. Counted(text) = Cardinality(E) + 1
      BY <1>3, <2>1, <2>3
    <3>2. \A x \in Nat : x + 1 # 0
      OBVIOUS
    <3>. HIDE DEF E
    <3>. QED BY <1>1, <3>1, <3>2
  <2>. QED BY <2>2, <2>3
<1>5. Counted(text) \in Nat
  <2>. HIDE DEF E
  <2>. QED BY <1>1, <1>3
<1>6. Counted(<< >>) = 0
  <2>1. {i \in DOMAIN << >> : << >>[i] = NL} = {}
    OBVIOUS
  <2>2. Counted(<< >>) = Cardinality({}) + 0
    BY <2>1 DEF Counted
  <2>. QED BY <2>2, FS_EmptySet
<1>. QED BY <1>4, <1>5, <1>6

(* What is behind a place of a text. *)
LEMMA AfterIs ==
  ASSUME NEW S, NEW text \in Seq(S), NEW p \in 0 .. Len(text)
  PROVE  /\ After(text, p) \in Seq(S) /\ Len(After(text, p)) = Len(text) - p
         /\ \A i \in 1 .. Len(text) - p : After(text, p)[i] = text[p + i]
<1>. DEFINE n == Len(text)
            b == p + 1
            rest == SubSeq(text, b, n)
<1>1. n \in Nat /\ p \in Nat /\ p <= n /\ b \in Nat \ {0} /\ n <= Len(text)
  BY LenProperties
<1>2. \A x, y \in Nat : y <= x => (IF y + 1 <= x THEN x - (y + 1) + 1 ELSE 0) = x - y
  OBVIOUS
<1>3. (IF b <= n THEN n - b + 1 ELSE 0) = n - p
  BY <1>1, <1>2
<1>4. \A i \in 1 .. n - p : b + i - 1 = p + i
  BY <1>1
<1>5. After(text, p) = rest
  BY DEF After
<1>. HIDE DEF n, b
<1>6. /\ rest \in Seq(S) /\ Len(rest) = IF b <= n THEN n - b + 1 ELSE 0
      /\ \A i \in 1 .. Len(rest) : rest[i] = text[b + i - 1]
  BY <1>1, PieceIsText
<1>. HIDE DEF rest
<1>7. Len(rest) = n - p
  BY <1>3, <1>6
<1>8. \A i \in 1 .. n - p : rest[i] = text[p + i]
  BY <1>4, <1>6, <1>7
<1>. QED BY <1>5, <1>6, <1>7, <1>8 DEF n

(* Where lines fit into the buffer, fgets reads to the end of the line. *)
LEMMA ReadsToTheEnd ==
  ASSUME NEW S, NEW text \in Seq(S), NEW p \in 0 .. Len(text), HasShortLines(text), After(text, p) # << >>
  PROVE  \E k \in Nat \ {0} :
           /\ p + k <= Len(text) /\ GoesToTheEnd(text, p, k)
           /\ fgets(After(text, p)) = SubSeq(text, p + 1, p + k)
           /\ Len(fgets(After(text, p))) = k
<1>. DEFINE rest == After(text, p)
            n == Len(text)
<1>1. n \in Nat /\ DOMAIN text = 1 .. n /\ p \in Nat /\ p <= n
  BY LenProperties
<1>2. /\ rest \in Seq(S) /\ Len(rest) = n - p
      /\ \A i \in 1 .. n - p : rest[i] = text[p + i]
  BY AfterIs
<1>3. rest # << >>
  OBVIOUS
<1>4. PICK k \in 1 .. Len(rest) : IsPiece(k, rest)
  <2>. HIDE DEF rest
  <2>. QED BY <1>2, <1>3, Piece
<1>. HIDE DEF rest
<1>5. Len(rest) \in Nat \ {0}
  BY <1>2, <1>3, EmptySeq
<1>6. k \in Nat \ {0} /\ p + k <= n /\ k \in 1 .. n - p
  <2>1. k \in 1 .. n - p
    BY <1>2, <1>4
  <2>2. \A x, y \in Nat : \A z \in 1 .. x - y : z \in Nat \ {0} /\ y + z <= x
    OBVIOUS
  <2>. QED BY <1>1, <2>1, <2>2
<1>7. \A i \in 1 .. n - p : rest[i] = text[p + i]
  BY <1>2
<1>8. \A j \in p + 1 .. p + k - 1 : text[j] # NL
  <2>1. ASSUME NEW j \in p + 1 .. p + k - 1
        PROVE  text[j] # NL
    <3>1. j - p \in 1 .. k - 1 /\ j - p \in 1 .. n - p /\ p + (j - p) = j
      BY <1>1, <1>6
    <3>2. rest[j - p] # NL
      BY <1>4, <3>1 DEF IsPiece
    <3>. QED BY <1>7, <3>1, <3>2
  <2>. QED BY <2>1
<1>9. rest[k] = text[p + k]
  BY <1>6, <1>7
<1>10. text[p + k] = NL \/ p + k = n
  <2>1. CASE rest[k] = NL
    BY <1>9, <2>1
  <2>2. CASE k = Len(rest)
    <3>1. \A x, y, z \in Nat : x = z - y => y + x = z
      OBVIOUS
    <3>2. k \in Nat /\ k = n - p
      BY <1>2, <1>6, <2>2
    <3>3. p + k = n
      BY <1>1, <3>1, <3>2
    <3>. QED BY <3>3
  <2>3. CASE rest[k] # NL /\ k # Len(rest) /\ k = BufferSize - 1
    <3>1. BufferSize \in Nat \ {0, 1}
      BY TextAssumption
    <3>6. \A x, y \in Nat : y <= x => \A z \in 1 .. x - y : z # x - y => y + 1 \in 1 .. x /\ (y + 1) + z \in 1 .. x
      OBVIOUS
    <3>7. k \in 1 .. n - p /\ k # n - p
      BY <1>2, <1>6, <2>3
    <3>8. p + 1 \in 1 .. n /\ (p + 1) + k \in 1 .. n
      BY <1>1, <3>6, <3>7
    <3>2. p + 1 \in 1 .. n /\ (p + 1) + BufferSize - 1 \in 1 .. n
      BY <1>1, <2>3, <3>1, <3>8
    <3>3. \A j \in p + 1 .. (p + 1) + BufferSize - 2 : j \in p + 1 .. p + k - 1 \/ j = p + k
      BY <1>1, <1>6, <2>3, <3>1
    <3>4. \A j \in p + 1 .. (p + 1) + BufferSize - 2 : text[j] # NL
      BY <1>8, <1>9, <2>3, <3>3
    <3>5. p + 1 \in DOMAIN text /\ (p + 1) + BufferSize - 1 \in DOMAIN text
      BY <1>1, <3>2
    <3>. QED BY <3>4, <3>5 DEF HasShortLines
  <2>. QED BY <1>4, <2>1, <2>2, <2>3 DEF IsPiece
<1>11. fgets(rest) = SubSeq(text, p + 1, p + k)
  <2>1. fgets(rest) = SubSeq(rest, 1, k)
    BY <1>4 DEF IsPiece
  <2>2. rest = SubSeq(text, p + 1, n)
    BY DEF rest, After
  <2>3. /\ p + 1 \in 1 .. Len(text) /\ n \in 1 .. Len(text) /\ 1 \in 1 .. n - (p + 1) + 1 /\ k \in 1 .. n - (p + 1) + 1
        /\ (p + 1) + 1 - 1 = p + 1 /\ (p + 1) + k - 1 = p + k
    BY <1>1, <1>6
  <2>4. SubSeq(SubSeq(text, p + 1, n), 1, k) = SubSeq(text, (p + 1) + 1 - 1, (p + 1) + k - 1)
    BY <2>3, SubSeqOfSubSeq
  <2>. QED BY <2>1, <2>2, <2>3, <2>4
<1>12. Len(fgets(rest)) = k
  <2>1. 1 \in Nat \ {0} /\ k \in Nat /\ k <= Len(rest) /\ 1 <= k
    BY <1>2, <1>6
  <2>2. Len(SubSeq(rest, 1, k)) = k - 1 + 1
    BY <1>2, <2>1, PieceIsText
  <2>3. \A x \in Nat : x - 1 + 1 = x
    OBVIOUS
  <2>. QED BY <1>4, <2>1, <2>2, <2>3 DEF IsPiece
<1>. QED BY <1>6, <1>8, <1>10, <1>11, <1>12 DEF GoesToTheEnd, rest

(* From the beginning of a line that is a whole line. *)
LEMMA ReadsWholeLine ==
  ASSUME NEW S, NEW text \in Seq(S), NEW p \in 0 .. Len(text), HasShortLines(text),
         p = 0 \/ text[p] = NL, After(text, p) # << >>
  PROVE  \E k \in Nat \ {0} :
           /\ p + k <= Len(text) /\ IsLine(text, p, k)
           /\ fgets(After(text, p)) = SubSeq(text, p + 1, p + k)
BY ReadsToTheEnd DEF IsLine, GoesToTheEnd

(* Behind the end of its first line a text has one line less. *)
LEMMA CountedBehind ==
  ASSUME NEW S, NEW text \in Seq(S), NEW k \in 1 .. Len(text), GoesToTheEnd(text, 0, k)
  PROVE  Counted(text) = Counted(After(text, k)) + 1
<1>. DEFINE n == Len(text)
            rest == After(text, k)
            E == Ends(text)
            R == Ends(rest)
<1>1. n \in Nat /\ DOMAIN text = 1 .. n /\ E \subseteq 1 .. n /\ IsFiniteSet(E) /\ Cardinality(E) \in Nat
  BY EndsAre
<1>2. /\ rest \in Seq(S) /\ Len(rest) = n - k
      /\ \A i \in 1 .. n - k : rest[i] = text[k + i]
  <2>1. k \in 0 .. Len(text)
    BY <1>1
  <2>. QED BY <2>1, AfterIs
<1>3. IsFiniteSet(R) /\ Cardinality(R) \in Nat /\ DOMAIN rest = 1 .. n - k
  BY <1>2, EndsAre
<1>4. \A j \in 1 .. k - 1 : text[j] # NL
  BY DEF GoesToTheEnd
<1>5. text[k] = NL \/ k = n
  BY DEF GoesToTheEnd
<1>6. Cardinality(R) = Cardinality(E \ {k})
  <2>. DEFINE f == [i \in R |-> k + i]
  <2>1. \A i \in R : i \in 1 .. n - k /\ text[k + i] = NL
    BY <1>2, <1>3 DEF Ends
  <2>2. \A i \in 1 .. n - k : k + i \in 1 .. n /\ k + i # k
    BY <1>1
  <2>3. f \in [R -> E \ {k}]
    BY <1>1, <2>1, <2>2 DEF Ends
  <2>4. \A e \in E \ {k} : e - k \in R /\ k + (e - k) = e
    <3>1. SUFFICES ASSUME NEW e \in E \ {k}
                   PROVE  e - k \in R /\ k + (e - k) = e
      OBVIOUS
    <3>2. e \in 1 .. n /\ text[e] = NL /\ e # k
      BY <1>1 DEF Ends
    <3>3. e \notin 1 .. k - 1
      BY <1>4, <3>2
    <3>4. e - k \in 1 .. n - k /\ k + (e - k) = e
      BY <1>1, <3>2, <3>3
    <3>5. rest[e - k] = NL
      BY <1>2, <3>2, <3>4
    <3>. QED BY <1>3, <3>4, <3>5 DEF Ends
  <2>5. \A i, j \in R : k + i = k + j => i = j
    BY <2>1
  <2>. HIDE DEF R, E
  <2>6. f \in Surjection(R, E \ {k})
    BY <2>3, <2>4 DEF Surjection
  <2>7. f \in Injection(R, E \ {k})
    BY <2>3, <2>5 DEF Injection, IsInjective
  <2>. HIDE DEF f
  <2>. QED BY <1>3, <2>6, <2>7, FS_Surjection
<1>7. Cardinality(E) = Cardinality(R) + (IF text[k] = NL THEN 1 ELSE 0)
  <2>1. k \in E <=> text[k] = NL
    BY <1>1 DEF Ends
  <2>. HIDE DEF E, R
  <2>2. Cardinality(E \ {k}) = IF k \in E THEN Cardinality(E) - 1 ELSE Cardinality(E)
    BY <1>1, FS_RemoveElement
  <2>. QED BY <1>1, <1>3, <1>6, <2>1, <2>2
<1>8. Counted(text) = Cardinality(E) + (IF text[n] # NL THEN 1 ELSE 0)
  <2>1. n # 0
    BY <1>1
  <2>2. text # << >>
    BY <2>1, EmptySeq
  <2>. QED BY <2>2 DEF Counted, Ends, Last
<1>9. CASE k = n
  <2>1. Len(rest) = 0
    BY <1>1, <1>2, <1>9
  <2>2. rest = << >>
    BY <1>2, <2>1, EmptySeq
  <2>3. Counted(rest) = 0
    BY <2>2, CountedAny
  <2>4. R = {}
    BY <1>1, <1>3, <1>9 DEF Ends
  <2>5. Cardinality(R) = 0
    BY <2>4, FS_EmptySet
  <2>6. Counted(text) = 1
    <3>. HIDE DEF E, R
    <3>. QED BY <1>7, <1>8, <1>9, <2>5
  <2>. QED BY <2>3, <2>6
<1>10. CASE k # n
  <2>. DEFINE Splits(x, y) == x - y \in Nat \ {0} /\ x - y \in 1 .. x - y /\ y + (x - y) = x
  <2>6. \A x \in Nat : \A y \in 1 .. x : y # x => Splits(x, y)
    OBVIOUS
  <2>1. Splits(n, k)
    BY <1>1, <1>10, <2>6
  <2>2. rest # << >> /\ Last(rest) = text[n]
    BY <1>2, <2>1, EmptySeq DEF Last
  <2>3. Counted(rest) = Cardinality(R) + (IF text[n] # NL THEN 1 ELSE 0)
    BY <2>2 DEF Counted, Ends
  <2>. HIDE DEF E, R, rest
  <2>4. Cardinality(E) = Cardinality(R) + 1
    BY <1>5, <1>7, <1>10
  <2>5. \A x, y \in Nat : (x + 1) + y = (x + y) + 1
    OBVIOUS
  <2>. QED BY <1>3, <1>8, <2>3, <2>4, <2>5 DEF rest
<1>. QED BY <1>9, <1>10

(* A line that was read is one line less to read. *)
LEMMA LinesLeft ==
  ASSUME NEW S, NEW text \in Seq(S), NEW p \in Nat, HasShortLines(text), After(text, p) # << >>
  PROVE  /\ Counted(After(text, p)) \in Nat
         /\ Counted(After(text, p + Len(fgets(After(text, p))))) \in Nat
         /\ Counted(After(text, p)) = Counted(After(text, p + Len(fgets(After(text, p))))) + 1
<1>. DEFINE rest == After(text, p)
            n == Len(text)
<1>1. p \in 0 .. n
  <2>1. n \in Nat
    BY LenProperties
  <2>2. ASSUME n < p
        PROVE  FALSE
    <3>1. p + 1 \in Int /\ n \in Int /\ n < p + 1
      BY <2>1, <2>2
    <3>2. SubSeq(text, p + 1, n) = << >>
      BY <3>1, SubSeqEmpty
    <3>. QED BY <3>2 DEF After
  <2>. QED BY <2>1, <2>2
<1>2. PICK k \in Nat \ {0} : p + k <= n /\ GoesToTheEnd(text, p, k) /\ Len(fgets(rest)) = k
  BY <1>1, ReadsToTheEnd
<1>3. /\ rest \in Seq(S) /\ Len(rest) = n - p
      /\ \A i \in 1 .. n - p : rest[i] = text[p + i]
  BY <1>1, AfterIs
<1>4. n \in Nat /\ k \in 1 .. n - p /\ k \in 0 .. n - p /\ p + k \in 0 .. n
  BY <1>1, <1>2, LenProperties
<1>5. GoesToTheEnd(rest, 0, k)
  <2>1. \A j \in 0 + 1 .. 0 + k - 1 : j \in 1 .. n - p /\ p + j \in p + 1 .. p + k - 1
    BY <1>1, <1>4
  <2>2. rest[0 + k] = text[p + k] /\ (p + k = n => 0 + k = Len(rest))
    BY <1>1, <1>3, <1>4
  <2>. HIDE DEF rest
  <2>. QED BY <1>2, <1>3, <2>1, <2>2 DEF GoesToTheEnd
<1>6. After(rest, k) = After(text, p + k)
  <2>. HIDE DEF rest
  <2>6. k \in 0 .. Len(rest)
    BY <1>3, <1>4
  <2>7. /\ After(rest, k) \in Seq(S) /\ Len(After(rest, k)) = Len(rest) - k
        /\ \A i \in 1 .. Len(rest) - k : After(rest, k)[i] = rest[k + i]
    BY <1>3, <2>6, AfterIs
  <2>1. /\ After(rest, k) \in Seq(S) /\ Len(After(rest, k)) = (n - p) - k
        /\ \A i \in 1 .. (n - p) - k : After(rest, k)[i] = rest[k + i]
    BY <1>3, <2>7
  <2>2. /\ After(text, p + k) \in Seq(S) /\ Len(After(text, p + k)) = n - (p + k)
        /\ \A i \in 1 .. n - (p + k) : After(text, p + k)[i] = text[(p + k) + i]
    BY <1>4, AfterIs
  <2>3. n - (p + k) = (n - p) - k
    BY <1>1, <1>4
  <2>4. \A i \in 1 .. (n - p) - k : k + i \in 1 .. n - p /\ p + (k + i) = (p + k) + i
    BY <1>1, <1>4
  <2>5. \A i \in 1 .. (n - p) - k : After(rest, k)[i] = After(text, p + k)[i]
    BY <1>3, <2>1, <2>2, <2>3, <2>4
  <2>. QED BY <2>1, <2>2, <2>3, <2>5, SeqEqual
<1>7. Counted(rest) = Counted(After(rest, k)) + 1
  <2>. HIDE DEF rest
  <2>. QED BY <1>3, <1>4, <1>5, CountedBehind
<1>8. After(text, p + k) \in Seq(S)
  BY <1>4, AfterIs
<1>. HIDE DEF rest
<1>9. Counted(rest) \in Nat /\ Counted(After(text, p + k)) \in Nat
  BY <1>3, <1>8, CountedAny
<1>. QED BY <1>2, <1>6, <1>7, <1>9 DEF rest

(* One line more. *)
LEMMA LinesGrow ==
  ASSUME NEW ls \in Seq(Seq(Chars)), NEW before \in Seq(Chars), AreLinesOf(ls, before),
         before = << >> \/ Last(before) = NL,
         NEW line \in Seq(Chars), line # << >>, \A i \in 1 .. Len(line) - 1 : line[i] # NL
  PROVE  AreLinesOf(Append(ls, Stripped(line)), before \o line)
<1>. DEFINE l == Stripped(line)
            more == Append(ls, l)
            text == before \o line
<1>1. /\ l \in Seq(Chars)
      /\ NL \notin {l[i] : i \in DOMAIN l}
      /\ line[Len(line)] = NL => line = l \o << NL >>
      /\ line[Len(line)] # NL => line = l
  BY LineWithout
<1>. HIDE DEF l
<1>2. Len(ls) \in Nat /\ DOMAIN ls = 1 .. Len(ls)
  BY LenProperties
<1>3. /\ more \in Seq(Seq(Chars)) /\ DOMAIN more = 1 .. Len(ls) + 1 /\ more[Len(ls) + 1] = l
      /\ \A i \in 1 .. Len(ls) : more[i] = ls[i]
  BY <1>1, <1>2, AppendProperties, LenProperties
<1>4. NL \in Chars
  BY DEF Chars
<1>5. Unlines(more) = Unlines(ls) \o Append(l, NL)
  BY <1>1, <1>4, UnlinesAppend
<1>6. Unlines(ls) = before
  BY DEF AreLinesOf
<1>7. Append(l, NL) = l \o << NL >> /\ Append(line, NL) = line \o << NL >> /\ << NL >> \in Seq(Chars)
  BY <1>1, <1>4, AppendIsConcat
<1>. HIDE DEF more
<1>8. \A i \in DOMAIN more : NL \notin {more[i][j] : j \in DOMAIN more[i]}
  <2>1. \A i \in 1 .. Len(ls) + 1 : i \in 1 .. Len(ls) \/ i = Len(ls) + 1
    BY <1>2
  <2>2. \A i \in 1 .. Len(ls) : NL \notin {ls[i][j] : j \in DOMAIN ls[i]}
    BY <1>2 DEF AreLinesOf
  <2>3. ASSUME NEW i \in DOMAIN more
        PROVE  NL \notin {more[i][j] : j \in DOMAIN more[i]}
    <3>1. CASE i \in 1 .. Len(ls)
      <4>1. more[i] = ls[i]
        BY <1>3, <3>1
      <4>. QED BY <2>2, <3>1, <4>1
    <3>2. CASE i = Len(ls) + 1
      <4>1. more[i] = l
        BY <1>3, <3>2
      <4>. QED BY <1>1, <4>1
    <3>3. i \in 1 .. Len(ls) \/ i = Len(ls) + 1
      BY <1>3, <2>1, <2>3
    <3>. QED BY <3>1, <3>2, <3>3
  <2>. QED BY <2>3
<1>9. /\ text \in Seq(Chars) /\ text # << >> /\ Last(text) = line[Len(line)]
  <2>1. Len(line) \in Nat \ {0} /\ Len(before) \in Nat
    BY EmptySeq, LenProperties
  <2>2. /\ text \in Seq(Chars) /\ Len(text) = Len(before) + Len(line)
        /\ \A i \in 1 .. Len(before) + Len(line) :
             text[i] = IF i <= Len(before) THEN before[i] ELSE line[i - Len(before)]
    BY ConcatProperties
  <2>. HIDE DEF text
  <2>3. /\ Len(before) + Len(line) \in 1 .. Len(before) + Len(line) /\ ~(Len(before) + Len(line) <= Len(before))
        /\ (Len(before) + Len(line)) - Len(before) = Len(line) /\ Len(before) + Len(line) # 0
    BY <2>1
  <2>4. text[Len(before) + Len(line)] = line[Len(line)]
    BY <2>2, <2>3
  <2>5. text # << >>
    <3>1. Len(<< >>) = 0
      BY EmptySeq
    <3>. QED BY <2>2, <2>3, <3>1
  <2>. QED BY <2>2, <2>4, <2>5 DEF Last
<1>10. Unlines(more) = IF Last(text) = NL THEN text ELSE Append(text, NL)
  <2>1. CASE line[Len(line)] = NL
    BY <1>1, <1>5, <1>6, <1>7, <1>9, <2>1
  <2>2. CASE line[Len(line)] # NL
    <3>1. Unlines(more) = before \o (line \o << NL >>)
      BY <1>1, <1>5, <1>6, <1>7, <2>2
    <3>2. (before \o line) \o << NL >> = before \o (line \o << NL >>)
      BY <1>7, ConcatAssociative
    <3>3. Append(text, NL) = text \o << NL >>
      BY <1>4, <1>9, AppendIsConcat
    <3>. QED BY <1>9, <2>2, <3>1, <3>2, <3>3
  <2>. QED BY <2>1, <2>2
<1>11. AreLinesOf(more, text)
  <2>. HIDE DEF text
  <2>. QED BY <1>8, <1>9, <1>10 DEF AreLinesOf
<1>. QED BY <1>11 DEF more, l

----------------------------------------
(* Files. *)

(* Which state a call is in. *)
FilesShape ==
  /\ FilesTypeOK
  /\ fs_at \in {"idle", "returned"} \cup FileFunctions => files = 0
  /\ fs_at \in {"reading", "lines", "writing"} => files = 1
  /\ fs_at \in FileFunctions => fs_call.fn = fs_at
  /\ fs_at = "reading" => fs_call.fn = "read_file" /\ disk \in Seq(Chars)
  /\ fs_at = "lines" => fs_call.fn = "read_lines"
  /\ fs_at = "writing" => fs_call.fn \in {"write_file", "append_file"} /\ disk \in Seq(Chars)

(* What is stored of a piece is a text. *)
LEMMA PieceOfText ==
  ASSUME NEW text \in Seq(Chars), NEW b \in Nat
  PROVE  /\ After(text, b) \in Seq(Chars)
         /\ b <= Len(text) => SubSeq(text, 1, b) \in Seq(Chars) /\ Len(SubSeq(text, 1, b)) = b
<1>1. b + 1 \in Nat \ {0} /\ Len(text) \in Nat /\ Len(text) <= Len(text) /\ 1 \in Nat \ {0}
  BY LenProperties
<1>2. (IF 1 <= b THEN b - 1 + 1 ELSE 0) = b
  OBVIOUS
<1>3. b <= Len(text) => SubSeq(text, 1, b) \in Seq(Chars) /\ Len(SubSeq(text, 1, b)) = b
  BY <1>1, <1>2, PieceIsText
<1>4. SubSeq(text, b + 1, Len(text)) \in Seq(Chars)
  <2>. DEFINE a == b + 1
  <2>1. a \in Nat \ {0}
    BY <1>1
  <2>. HIDE DEF a
  <2>2. SubSeq(text, a, Len(text)) \in Seq(Chars)
    BY <1>1, <2>1, PieceIsText
  <2>. QED BY <2>2 DEF a
<1>. QED BY <1>3, <1>4 DEF After

(* A line without its line feed is a text. *)
LEMMA StrippedIsText ==
  ASSUME NEW text \in Seq(Chars)
  PROVE  Stripped(text) \in Seq(Chars)
<1>1. CASE text = << >> \/ Last(text) # NL
  BY <1>1 DEF Stripped
<1>2. CASE text # << >> /\ Last(text) = NL
  <2>1. Len(text) \in Nat \ {0}
    BY <1>2, EmptySeq
  <2>2. PICK b \in Nat : b = Len(text) - 1 /\ b <= Len(text)
    <3>1. \A n \in Nat \ {0} : n - 1 \in Nat /\ n - 1 <= n
      OBVIOUS
    <3>2. Len(text) - 1 \in Nat /\ Len(text) - 1 <= Len(text)
      BY <2>1, <3>1
    <3>. QED BY <3>2
  <2>3. SubSeq(text, 1, b) \in Seq(Chars)
    BY <2>2, PieceOfText
  <2>. QED BY <1>2, <2>2, <2>3 DEF Stripped, Front
<1>. QED BY <1>1, <1>2

(* What the C library sees of a text is a text. *)
LEMMA CStringIsText ==
  ASSUME NEW text \in Seq(Chars)
  PROVE  CString(text) \in Seq(Chars)
<1>. DEFINE first == FirstIn(text, {NUL}, Len(text) + 1)
<1>1. Len(text) \in Nat
  BY LenProperties
<1>2. first \in 1 .. Len(text) + 1
  <2>1. CASE \A i \in 1 .. Len(text) : text[i] \notin {NUL}
    <3>1. first = Len(text) + 1
      BY <2>1, FirstInText
    <3>. QED BY <1>1, <3>1
  <2>2. CASE \E i \in 1 .. Len(text) : text[i] \in {NUL}
    <3>1. \E k \in 1 .. Len(text) : first = k
      BY <2>2, FirstInText
    <3>. QED BY <1>1, <3>1
  <2>. QED BY <2>1, <2>2
<1>. HIDE DEF first
<1>3. PICK b \in Nat : b = first - 1 /\ b <= Len(text)
  BY <1>1, <1>2
<1>4. CString(text) = SubSeq(text, 1, b)
  BY <1>3 DEF CString, first
<1>. QED BY <1>3, <1>4, PieceOfText

(* What is stored of a line is a text. *)
LEMMA LineIsText ==
  ASSUME NEW text \in Seq(Chars), text # << >>
  PROVE  /\ Stripped(CString(fgets(text))) \in Seq(Chars) /\ Len(fgets(text)) \in Nat
<1>1. fgets(text) \in Seq(Chars)
  BY PieceAndRest
<1>. QED BY <1>1, CStringIsText, StrippedIsText, LenProperties

(* What is at the path. *)
LEMMA ContentIsText ==
  ASSUME FilesTypeOK
  PROVE  ContentOf(disk) \in Seq(Chars)
BY EmptySeq DEF FilesTypeOK, ContentOf, IsText

(* The empty text is one. *)
LEMMA EmptyIsText == << >> \in Texts /\ << >> \in Seq(Chars)
<1>1. MaxText \in Nat
  BY TextAssumption
<1>2. 0 <= MaxText
  BY <1>1
<1>3. Len(<< >>) = 0 /\ << >> \in Seq(Chars)
  BY EmptySeq
<1>4. Len(<< >>) <= MaxText
  BY <1>2, <1>3
<1>. QED BY <1>3, <1>4, TextsAre

(* The shape holds at first. *)
LEMMA FilesBegin ==
  ASSUME CoreInit
  PROVE  FilesShape
<1>1. /\ oob_mode \in OobModes /\ disk \in Texts \cup {Missing, Directory} /\ files = 0
      /\ fs_call = [fn |-> "none", text |-> << >>] /\ fs_at = "idle"
      /\ file_size = 0 /\ position = 0 /\ lines = << >> /\ line_idx = 0
      /\ fs_result = Result("none", << >>, << >>, FALSE) /\ alone = TRUE
  BY DEF CoreInit, FilesInit, NoResult
<1>2. 0 \in Nat /\ 0 \in 0 .. 1 /\ << >> \in Seq(Seq(Chars) \cup {NullStr})
  BY EmptySeq
<1>3. disk \in Seq(Chars) \cup {Missing, Directory}
  BY <1>1, TextsAre
<1>4. fs_result.yes \in BOOLEAN /\ fs_result.lines \in Seq(Seq(Chars) \cup {NullStr})
  BY <1>1, <1>2 DEF Result
<1>5. fs_call.fn = "none" /\ fs_call.text \in Texts
  BY <1>1, EmptyIsText
<1>6. FilesTypeOK
  BY <1>1, <1>2, <1>3, <1>4, <1>5 DEF FilesTypeOK
<1>. QED BY <1>1, <1>6 DEF FilesShape, FileFunctions

(* A result of a call. *)
LEMMA ResultIs ==
  ASSUME NEW err, NEW text, NEW ls, NEW yes \in BOOLEAN
  PROVE  /\ Result(err, text, ls, yes).err = err /\ Result(err, text, ls, yes).text = text
         /\ Result(err, text, ls, yes).lines = ls /\ Result(err, text, ls, yes).yes = yes
BY DEF Result

(* A call that returns. *)
LEMMA ShapeReturns ==
  ASSUME FilesShape, UNCHANGED <<oob_mode, fs_call, alone>>, files' = 0, fs_at' = "returned",
         disk' \in Seq(Chars) \cup {Missing, Directory},
         file_size' \in Nat, position' \in Nat, line_idx' \in Nat, lines' \in Seq(Seq(Chars) \cup {NullStr}),
         fs_result'.yes \in BOOLEAN, fs_result'.lines \in Seq(Seq(Chars) \cup {NullStr})
  PROVE  FilesShape'
<1>1. oob_mode' = oob_mode /\ fs_call' = fs_call /\ alone' = alone
  OBVIOUS
<1>2. 0 \in 0 .. 1
  OBVIOUS
<1>3. FilesTypeOK'
  BY <1>1, <1>2 DEF FilesShape, FilesTypeOK
<1>. QED BY <1>3 DEF FilesShape, FileFunctions

(* The scratch state is typed when it is reset. *)
LEMMA ShapeNoLocals ==
  Forget => /\ file_size' \in Nat /\ position' \in Nat /\ line_idx' \in Nat
            /\ lines' \in Seq(Seq(Chars) \cup {NullStr})
<1>1. 0 \in Nat /\ << >> \in Seq(Seq(Chars) \cup {NullStr})
  BY EmptySeq
<1>. QED BY <1>1 DEF Forget

(* A call of a file function begins. *)
LEMMA CallShape ==
  ASSUME FilesShape, NEW fn \in FileFunctions, NEW text \in Texts, CallFile(fn, text)
  PROVE  FilesShape'
<1>1. /\ fs_at \in {"idle", "returned"} /\ fs_call'.fn = fn /\ fs_call'.text = text /\ fs_at' = fn
      /\ alone' = TRUE /\ fs_result' = NoResult
      /\ UNCHANGED <<oob_mode, disk, files>> /\ UNCHANGED <<file_size, position, lines, line_idx>>
  BY DEF CallFile, locals
<1>2. fs_result'.yes \in BOOLEAN /\ fs_result'.lines \in Seq(Seq(Chars) \cup {NullStr})
  BY <1>1, EmptySeq DEF NoResult, Result
<1>3. FilesTypeOK'
  BY <1>1, <1>2 DEF FilesShape, FilesTypeOK
<1>4. files' = 0
  BY <1>1 DEF FilesShape
<1>. QED BY <1>1, <1>3, <1>4 DEF FilesShape, FileFunctions

(* read_file opens the file. *)
LEMMA ReadFileShape ==
  ASSUME FilesShape, read_file
  PROVE  FilesShape'
<1>1. /\ fs_at = "read_file" /\ UNCHANGED <<oob_mode, fs_call, alone>> /\ disk' = disk
      /\ position' = position /\ lines' = lines /\ line_idx' = line_idx
  BY DEF read_file
<1>2. files = 0 /\ FilesTypeOK /\ fs_call.fn = "read_file"
  BY <1>1 DEF FilesShape, FileFunctions
<1>3. CASE \E err \in {"NotFound", "NotReadable"} : Return(Result(err, << >>, << >>, FALSE)) /\ UNCHANGED <<files, file_size>>
  <2>1. /\ fs_at' = "returned" /\ fs_result'.yes \in BOOLEAN
        /\ fs_result'.lines \in Seq(Seq(Chars) \cup {NullStr}) /\ files' = 0 /\ file_size' = file_size
    BY <1>2, <1>3, EmptySeq DEF Return, Result
  <2>2. UNCHANGED <<oob_mode, fs_call, alone>>
    BY <1>1
  <2>. QED BY <1>1, <1>2, <2>1, <2>2, ShapeReturns DEF FilesTypeOK
<1>4. CASE /\ TRUE \in Opens /\ files' = files + 1
           /\ fs_at' = IF disk = Directory THEN "undefined" ELSE "reading"
           /\ file_size' = Len(ContentOf(disk))
           /\ UNCHANGED fs_result
  <2>1. 0 + 1 = 1 /\ 1 \in 0 .. 1
    OBVIOUS
  <2>2. files' = 1
    BY <1>2, <1>4, <2>1
  <2>3. file_size' \in Nat
    BY <1>2, <1>4, ContentIsText, LenProperties
  <2>4. disk # Missing
    BY <1>2, <1>4 DEF Opens, Reading
  <2>5. fs_at' = "reading" => disk' \in Seq(Chars)
    BY <1>1, <1>2, <1>4, <2>4 DEF FilesTypeOK
  <2>6. FilesTypeOK'
    BY <1>1, <1>2, <1>4, <2>1, <2>2, <2>3 DEF FilesTypeOK
  <2>. QED BY <1>1, <1>2, <1>4, <2>2, <2>5, <2>6 DEF FilesShape, FileFunctions
<1>. QED BY <1>3, <1>4 DEF read_file

(* It reads and closes it. *)
LEMMA ReadContentShape ==
  ASSUME FilesShape, ReadContent
  PROVE  FilesShape'
<1>1. /\ fs_at = "reading" /\ UNCHANGED <<oob_mode, fs_call, alone>> /\ disk' = disk /\ Forget
      /\ files' = files - 1
      /\ \E r : \/ Return(Result("UnexpectedEOF", << >>, << >>, FALSE))
                \/ Return(Result("none", r, << >>, FALSE))
  BY DEF ReadContent, FinishRead
<1>2. files = 1 /\ FilesTypeOK
  BY <1>1 DEF FilesShape
<1>3. 1 - 1 = 0
  OBVIOUS
<1>4. files' = 0
  BY <1>1, <1>2, <1>3
<1>5. fs_at' = "returned" /\ fs_result'.yes \in BOOLEAN /\ fs_result'.lines \in Seq(Seq(Chars) \cup {NullStr})
  <2>1. PICK err, r : Return(Result(err, r, << >>, FALSE))
    BY <1>1
  <2>2. fs_at' = "returned" /\ fs_result'.yes = FALSE /\ fs_result'.lines = << >>
    BY <2>1 DEF Return, Result
  <2>. QED BY <2>2, EmptySeq
<1>6. disk' \in Seq(Chars) \cup {Missing, Directory}
  BY <1>1, <1>2 DEF FilesTypeOK
<1>7. UNCHANGED <<oob_mode, fs_call, alone>>
  BY <1>1
<1>. QED BY <1>1, <1>4, <1>5, <1>6, <1>7, ShapeNoLocals, ShapeReturns

(* read_lines opens the file and counts its lines. *)
LEMMA CountLinesShape ==
  ASSUME FilesShape, CountLines
  PROVE  FilesShape'
<1>1. /\ fs_at = "read_lines" /\ UNCHANGED <<oob_mode, fs_call, alone>> /\ disk' = disk
      /\ position' = position /\ file_size' = file_size /\ line_idx' = line_idx
  BY DEF CountLines
<1>2. files = 0 /\ FilesTypeOK /\ fs_call.fn = "read_lines"
  BY <1>1 DEF FilesShape, FileFunctions
<1>3. CASE Return(Result("NotFound", << >>, << >>, FALSE)) /\ UNCHANGED <<files, lines>>
  <2>1. /\ fs_at' = "returned" /\ fs_result'.yes \in BOOLEAN
        /\ fs_result'.lines \in Seq(Seq(Chars) \cup {NullStr}) /\ files' = 0 /\ lines' = lines
    BY <1>2, <1>3, EmptySeq DEF Return, Result
  <2>2. UNCHANGED <<oob_mode, fs_call, alone>>
    BY <1>1
  <2>. QED BY <1>1, <1>2, <2>1, <2>2, ShapeReturns DEF FilesTypeOK
<1>4. CASE /\ TRUE \in Opens /\ files' = files + 1
           /\ lines' = [i \in 1 .. Counted(ContentOf(disk)) |-> NullStr]
           /\ fs_at' = "lines"
           /\ UNCHANGED fs_result
  <2>1. 0 + 1 = 1 /\ 1 \in 0 .. 1
    OBVIOUS
  <2>2. files' = 1
    BY <1>2, <1>4, <2>1
  <2>3. PICK n \in Nat : n = Counted(ContentOf(disk))
    BY <1>2, ContentIsText, CountedAny
  <2>4. lines' \in [1 .. n -> Seq(Chars) \cup {NullStr}]
    BY <1>4, <2>3
  <2>5. lines' \in Seq(Seq(Chars) \cup {NullStr})
    BY <2>4
  <2>6. FilesTypeOK'
    BY <1>1, <1>2, <1>4, <2>1, <2>2, <2>5 DEF FilesTypeOK
  <2>. QED BY <1>1, <1>2, <1>4, <2>2, <2>6 DEF FilesShape, FileFunctions
<1>. QED BY <1>3, <1>4 DEF CountLines

(* It reads one of them. *)
LEMMA ReadLineShape ==
  ASSUME FilesShape, ReadLine
  PROVE  FilesShape'
<1>1. /\ fs_at = "lines" /\ UNCHANGED <<oob_mode, disk, files, fs_call, file_size, fs_result, alone>>
      /\ Rest # << >>
      /\ \/ fs_at' \in {"aborted", "undefined"} /\ UNCHANGED <<position, lines, line_idx>>
         \/ /\ lines' = Stored(Stripped(CString(fgets(Rest)))) /\ line_idx' = line_idx + 1
            /\ position' = position + Len(fgets(Rest)) /\ UNCHANGED fs_at
  BY DEF ReadLine
<1>2. files = 1 /\ FilesTypeOK /\ fs_call.fn = "read_lines"
  BY <1>1 DEF FilesShape
<1>3. lines \in Seq(Seq(Chars) \cup {NullStr}) /\ position \in Nat /\ line_idx \in Nat
  BY <1>2 DEF FilesTypeOK
<1>4. Rest \in Seq(Chars)
  BY <1>2, <1>3, ContentIsText, PieceOfText DEF Rest
<1>5. Stripped(CString(fgets(Rest))) \in Seq(Chars) /\ Len(fgets(Rest)) \in Nat
  BY <1>1, <1>4, LineIsText
<1>6. Stored(Stripped(CString(fgets(Rest)))) \in Seq(Seq(Chars) \cup {NullStr})
  <2>1. PICK n \in Nat : lines \in [1 .. n -> Seq(Chars) \cup {NullStr}]
    BY <1>3, LenProperties
  <2>2. Stored(Stripped(CString(fgets(Rest)))) \in [1 .. n -> Seq(Chars) \cup {NullStr}]
    BY <2>1, <1>5 DEF Stored
  <2>. QED BY <2>1, <2>2
<1>7. line_idx + 1 \in Nat /\ position + Len(fgets(Rest)) \in Nat
  BY <1>3, <1>5
<1>8. position' \in Nat /\ line_idx' \in Nat /\ lines' \in Seq(Seq(Chars) \cup {NullStr})
  BY <1>1, <1>3, <1>6, <1>7
<1>9. fs_at' \in {"aborted", "undefined", "lines"}
  BY <1>1
<1>10. FilesTypeOK'
  BY <1>1, <1>2, <1>8, <1>9 DEF FilesTypeOK
<1>. QED BY <1>1, <1>2, <1>9, <1>10 DEF FilesShape, FileFunctions

(* It closes the file. *)
LEMMA EndLinesShape ==
  ASSUME FilesShape, EndLines
  PROVE  FilesShape'
<1>1. fs_at = "lines" /\ UNCHANGED <<oob_mode, fs_call, alone>> /\ disk' = disk
  BY DEF EndLines
<1>2. files = 1 /\ FilesTypeOK
  BY <1>1 DEF FilesShape
<1>3. CASE fs_at' = "undefined" /\ UNCHANGED <<files, fs_result, locals>>
  <2>1. UNCHANGED <<files, fs_result>> /\ UNCHANGED <<file_size, position, lines, line_idx>>
    BY <1>3 DEF locals
  <2>2. FilesTypeOK'
    BY <1>1, <1>2, <1>3, <2>1 DEF FilesTypeOK
  <2>. QED BY <1>1, <1>3, <2>2 DEF FilesShape, FileFunctions
<1>4. CASE files' = files - 1 /\ Return(Result("none", << >>, lines, FALSE)) /\ Forget
  <2>1. 1 - 1 = 0
    OBVIOUS
  <2>2. files' = 0
    BY <1>2, <1>4, <2>1
  <2>3. lines \in Seq(Seq(Chars) \cup {NullStr}) /\ disk \in Seq(Chars) \cup {Missing, Directory}
    BY <1>2 DEF FilesTypeOK
  <2>4. fs_at' = "returned" /\ fs_result'.yes \in BOOLEAN /\ fs_result'.lines \in Seq(Seq(Chars) \cup {NullStr})
    BY <1>4, <2>3 DEF Return, Result
  <2>. QED BY <1>1, <1>4, <2>2, <2>3, <2>4, ShapeNoLocals, ShapeReturns
<1>. QED BY <1>3, <1>4 DEF EndLines

(* The functions that ask whether a file is there. *)
LEMMA ProbeShape ==
  ASSUME FilesShape, NEW fn \in {"file_exists", "is_file"}, Probe(fn)
  PROVE  FilesShape'
<1>1. /\ fs_at = fn /\ UNCHANGED <<oob_mode, fs_call, alone>> /\ disk' = disk /\ files' = files
      /\ UNCHANGED <<file_size, position, lines, line_idx>>
      /\ \E opened \in Opens : Return(Result("none", << >>, << >>, opened))
  BY DEF Probe, locals
<1>2. files = 0 /\ FilesTypeOK
  BY <1>1 DEF FilesShape, FileFunctions
<1>3. Opens \subseteq BOOLEAN
  BY DEF Opens
<1>4. fs_at' = "returned" /\ fs_result'.yes \in BOOLEAN /\ fs_result'.lines \in Seq(Seq(Chars) \cup {NullStr})
  BY <1>1, <1>3, EmptySeq DEF Return, Result
<1>5. UNCHANGED <<oob_mode, fs_call, alone>>
  BY <1>1
<1>. QED BY <1>1, <1>2, <1>4, <1>5, ShapeReturns DEF FilesTypeOK

(* A file is opened to be written to. *)
LEMMA OpenShape ==
  ASSUME FilesShape, NEW fn \in {"write_file", "append_file"}, NEW emptied \in BOOLEAN, OpenForWriting(fn, emptied)
  PROVE  FilesShape'
<1>1. /\ fs_at = fn /\ UNCHANGED <<oob_mode, fs_call, alone>> /\ UNCHANGED <<file_size, position, lines, line_idx>>
  BY DEF OpenForWriting, locals
<1>2. files = 0 /\ FilesTypeOK /\ fs_call.fn = fn
  BY <1>1 DEF FilesShape, FileFunctions
<1>3. CASE Return(Result("InvalidPath", << >>, << >>, FALSE)) /\ UNCHANGED <<disk, files>>
  <2>1. /\ fs_at' = "returned" /\ fs_result'.yes \in BOOLEAN
        /\ fs_result'.lines \in Seq(Seq(Chars) \cup {NullStr}) /\ files' = 0 /\ disk' = disk
    BY <1>2, <1>3, EmptySeq DEF Return, Result
  <2>2. UNCHANGED <<oob_mode, fs_call, alone>>
    BY <1>1
  <2>. QED BY <1>1, <1>2, <2>1, <2>2, ShapeReturns DEF FilesTypeOK
<1>4. CASE /\ disk' = IF emptied THEN << >> ELSE ContentOf(disk)
           /\ files' = files + 1 /\ fs_at' = "writing" /\ UNCHANGED fs_result
  <2>1. 0 + 1 = 1 /\ 1 \in 0 .. 1
    OBVIOUS
  <2>2. files' = 1
    BY <1>2, <1>4, <2>1
  <2>3. disk' \in Seq(Chars)
    BY <1>2, <1>4, ContentIsText, EmptyIsText
  <2>4. FilesTypeOK'
    BY <1>1, <1>2, <1>4, <2>1, <2>2, <2>3 DEF FilesTypeOK
  <2>. QED BY <1>1, <1>2, <1>4, <2>2, <2>3, <2>4 DEF FilesShape, FileFunctions
<1>. QED BY <1>3, <1>4 DEF OpenForWriting

(* It is written to and closed. *)
LEMMA WriteShape ==
  ASSUME FilesShape, WriteContent
  PROVE  FilesShape'
<1>1. /\ fs_at = "writing" /\ UNCHANGED <<oob_mode, fs_call, alone>> /\ UNCHANGED <<file_size, position, lines, line_idx>>
      /\ files' = files - 1
  BY DEF WriteContent, locals
<1>2. files = 1 /\ FilesTypeOK /\ disk \in Seq(Chars) /\ fs_call.text \in Texts
  BY <1>1 DEF FilesShape, FilesTypeOK
<1>3. PICK n \in 0 .. Len(fs_call.text), m \in 0 .. Len(fs_call.text) :
        /\ disk' = Arrived(m)
        /\ Return(Result(IF n = Len(fs_call.text) THEN "none" ELSE "NotWritable", << >>, << >>, FALSE))
  BY DEF WriteContent
<1>4. 1 - 1 = 0
  OBVIOUS
<1>5. files' = 0
  BY <1>1, <1>2, <1>4
<1>6. disk' \in Seq(Chars)
  <2>1. fs_call.text \in Seq(Chars) /\ m \in Nat /\ m <= Len(fs_call.text)
    BY <1>2, TextsAre, LenProperties
  <2>2. SubSeq(fs_call.text, 1, m) \in Seq(Chars) /\ After(disk, m) \in Seq(Chars)
    BY <2>1, <1>2, PieceOfText
  <2>. QED BY <1>2, <1>3, <2>2, ConcatProperties DEF Arrived
<1>7. fs_at' = "returned" /\ fs_result'.yes \in BOOLEAN /\ fs_result'.lines \in Seq(Seq(Chars) \cup {NullStr})
  BY <1>3, EmptySeq DEF Return, Result
<1>8. UNCHANGED <<oob_mode, fs_call, alone>>
  BY <1>1
<1>. QED BY <1>1, <1>2, <1>5, <1>6, <1>7, <1>8, ShapeReturns DEF FilesTypeOK

(* Another program rewrites it. *)
LEMMA OthersShape ==
  ASSUME FilesShape, NEW text \in Texts, OthersRewrite(text)
  PROVE  FilesShape'
<1>1. /\ disk' = text /\ alone' = FALSE
      /\ UNCHANGED <<oob_mode, files, fs_call, fs_at, fs_result>> /\ UNCHANGED <<file_size, position, lines, line_idx>>
  BY DEF OthersRewrite, locals
<1>2. text \in Seq(Chars)
  BY TextsAre
<1>3. FilesTypeOK'
  BY <1>1, <1>2 DEF FilesShape, FilesTypeOK
<1>. QED BY <1>1, <1>2, <1>3 DEF FilesShape, FileFunctions

(* No step breaks the shape. *)
LEMMA ShapeStep ==
  ASSUME FilesShape, [CoreNext]_core_vars
  PROVE  FilesShape'
<1>1. CASE UNCHANGED files_vars
  <2>1. /\ UNCHANGED <<oob_mode, disk, files, fs_call, fs_at, fs_result, alone>>
        /\ UNCHANGED <<file_size, position, lines, line_idx>>
    BY <1>1 DEF files_vars, locals
  <2>2. FilesTypeOK'
    BY <2>1 DEF FilesShape, FilesTypeOK
  <2>. QED BY <2>1, <2>2 DEF FilesShape
<1>2. CASE FilesNext
  <2>1. CASE \E fn \in FileFunctions, text \in Texts : CallFile(fn, text)
    BY <2>1, CallShape
  <2>2. CASE read_file \/ ReadContent
    BY <2>2, ReadFileShape, ReadContentShape
  <2>3. CASE CountLines \/ ReadLine \/ EndLines
    BY <2>3, CountLinesShape, ReadLineShape, EndLinesShape
  <2>4. CASE file_exists \/ is_file
    BY <2>4, ProbeShape DEF file_exists, is_file
  <2>5. CASE write_file \/ append_file
    BY <2>5, OpenShape DEF write_file, append_file
  <2>6. CASE WriteContent
    BY <2>6, WriteShape
  <2>7. CASE \E text \in Texts : OthersRewrite(text)
    BY <2>7, OthersShape
  <2>. QED BY <1>2, <2>1, <2>2, <2>3, <2>4, <2>5, <2>6, <2>7 DEF FilesNext
<1>. QED BY <1>1, <1>2 DEF CoreNext, core_vars

(* Calls return everything and leave nothing open. *)
THEOREM CoreReturnsEverything ==
  ASSUME CapturesCarefully, ExpectsLittle
  PROVE  CoreSpec => []CoreIsComplete
<1>. DEFINE All == FilesShape /\ OutputInvariant /\ AnswersInvariant
<1>1. CoreInit => All
  BY FilesBegin, OutputBegins, AnswersBegin
<1>2. All /\ [CoreNext]_core_vars => All'
  BY ShapeStep, OutputStep, AnswersStep
<1>3. All => CoreIsComplete
  <2>1. FilesShape => FilesTypeOK /\ FilesAreClosed
    BY DEF FilesShape, FilesAreClosed
  <2>. QED BY <2>1, ConsoleTypes, AnswersComplete DEF CoreIsComplete
<1>. QED BY <1>1, <1>2, <1>3, PTL DEF CoreSpec

(* The first i places of the array hold the lines up to the place p. *)
StoredSoFar(text, ls, p, i) ==
  /\ Len(ls) = Counted(text) /\ p \in 0 .. Len(text) /\ i \in Nat /\ i <= Len(ls)
  /\ p = 0 \/ text[p] = NL \/ p = Len(text)
  /\ i = Counted(SubSeq(text, 1, p))
  /\ SubSeq(ls, 1, i) \in Seq(Seq(Chars))
  /\ AreLinesOf(SubSeq(ls, 1, i), SubSeq(text, 1, p))

(* At first no line is stored. *)
LEMMA NothingStored ==
  ASSUME NEW text \in Seq(Chars)
  PROVE  StoredSoFar(text, [i \in 1 .. Counted(text) |-> NullStr], 0, 0)
<1>1. PICK n \in Nat : n = Counted(text)
  BY CountedAny
<1>. DEFINE ls == [i \in 1 .. n |-> NullStr]
<1>2. ls \in Seq({NullStr}) /\ Len(ls) = n
  <2>1. ls \in [1 .. n -> {NullStr}]
    OBVIOUS
  <2>2. ls \in Seq({NullStr}) /\ DOMAIN ls = 1 .. n
    BY <2>1
  <2>. HIDE DEF ls
  <2>3. DOMAIN ls = 1 .. Len(ls) /\ Len(ls) \in Nat
    BY <2>2, LenProperties
  <2>. QED BY <2>2, <2>3
<1>. HIDE DEF ls
<1>3. 0 \in Nat /\ 0 <= n /\ 0 \in 0 .. Len(text)
  <2>1. Len(text) \in Nat
    BY LenProperties
  <2>. QED BY <2>1
<1>4. SubSeq(ls, 1, 0) = << >> /\ SubSeq(text, 1, 0) = << >>
  <2>1. 1 \in Int /\ 0 \in Int /\ 0 < 1
    OBVIOUS
  <2>. QED BY <2>1, SubSeqEmpty
<1>5. Counted(<< >>) = 0
  BY CountedAny
<1>6. << >> \in Seq(Seq(Chars)) /\ AreLinesOf(<< >>, << >>)
  <2>1. DOMAIN << >> = {}
    OBVIOUS
  <2>. QED BY <2>1, EmptySeq, UnlinesNothing DEF AreLinesOf
<1>7. StoredSoFar(text, ls, 0, 0)
  BY <1>1, <1>2, <1>3, <1>4, <1>5, <1>6 DEF StoredSoFar
<1>. QED BY <1>1, <1>7 DEF ls

(* A line is stored behind those that are. *)
LEMMA OneStored ==
  ASSUME NEW T, NEW ls \in Seq(T), NEW i \in Nat, i + 1 <= Len(ls), NEW line \in T
  PROVE  LET more == [ls EXCEPT ![Shorter(i + 1, Len(ls))] = line] IN
         /\ Len(more) = Len(ls) /\ SubSeq(more, 1, i + 1) = Append(SubSeq(ls, 1, i), line)
<1>1. Len(ls) \in Nat /\ ls \in [1 .. Len(ls) -> T]
  BY LenProperties
<1>2. PICK k \in Nat \ {0} : k = i + 1 /\ k - 1 = i /\ k <= Len(ls) /\ k \in 1 .. Len(ls)
  BY <1>1
<1>3. Shorter(i + 1, Len(ls)) = k
  BY <1>2 DEF Shorter
<1>. DEFINE more == [ls EXCEPT ![k] = line]
<1>4. more \in Seq(T) /\ Len(more) = Len(ls) /\ more[k] = line /\ \A j \in 1 .. Len(ls) : j # k => more[j] = ls[j]
  BY <1>2, ExceptSeq
<1>. HIDE DEF more
<1>5. SubSeq(more, 1, k) = Append(SubSeq(more, 1, k - 1), more[k])
  <2>1. 1 \in 1 .. Len(more) /\ k \in 1 .. Len(more)
    BY <1>2, <1>4
  <2>. QED BY <1>4, <2>1, PieceAndLast
<1>6. SubSeq(more, 1, i) = SubSeq(ls, 1, i)
  <2>1. 1 \in Nat \ {0} /\ i <= Len(ls) /\ (IF 1 <= i THEN i - 1 + 1 ELSE 0) = i
    BY <1>1, <1>2
  <2>2. /\ SubSeq(more, 1, i) \in Seq(T) /\ Len(SubSeq(more, 1, i)) = IF 1 <= i THEN i - 1 + 1 ELSE 0
        /\ \A j \in 1 .. Len(SubSeq(more, 1, i)) : SubSeq(more, 1, i)[j] = more[1 + j - 1]
    BY <1>4, <2>1, PieceIsText
  <2>3. /\ SubSeq(ls, 1, i) \in Seq(T) /\ Len(SubSeq(ls, 1, i)) = IF 1 <= i THEN i - 1 + 1 ELSE 0
        /\ \A j \in 1 .. Len(SubSeq(ls, 1, i)) : SubSeq(ls, 1, i)[j] = ls[1 + j - 1]
    BY <2>1, PieceIsText
  <2>4. \A j \in 1 .. i : 1 + j - 1 = j /\ j \in 1 .. Len(ls) /\ j # k
    BY <1>1, <1>2
  <2>5. \A j \in 1 .. i : SubSeq(more, 1, i)[j] = SubSeq(ls, 1, i)[j]
    BY <1>4, <2>1, <2>2, <2>3, <2>4
  <2>6. Len(SubSeq(more, 1, i)) = i /\ Len(SubSeq(ls, 1, i)) = i
    BY <2>1, <2>2, <2>3
  <2>. QED BY <2>2, <2>3, <2>5, <2>6, SeqEqual
<1>7. Len(more) = Len(ls) /\ SubSeq(more, 1, i + 1) = Append(SubSeq(ls, 1, i), line)
  BY <1>2, <1>4, <1>5, <1>6
<1>. QED BY <1>3, <1>7 DEF more

(* One more line is read and stored at its place. *)
LEMMA LineStored ==
  ASSUME Zeros = {}, NEW text \in Seq(Chars), NEW T, Seq(Chars) \subseteq T, NEW ls \in Seq(T), NEW p \in Nat, NEW i \in Nat,
         StoredSoFar(text, ls, p, i), HasShortLines(text), After(text, p) # << >>
  PROVE  /\ i + 1 <= Len(ls)
         /\ StoredSoFar(text, [ls EXCEPT ![Shorter(i + 1, Len(ls))] = Stripped(CString(fgets(After(text, p))))],
                        p + Len(fgets(After(text, p))), i + 1)
<1>. DEFINE line == fgets(After(text, p))
<1>1. Len(text) \in Nat /\ Len(ls) \in Nat
  BY LenProperties
<1>2. /\ Len(ls) = Counted(text) /\ p \in 0 .. Len(text) /\ i = Counted(SubSeq(text, 1, p))
      /\ p = 0 \/ text[p] = NL \/ p = Len(text)
      /\ SubSeq(ls, 1, i) \in Seq(Seq(Chars))
      /\ AreLinesOf(SubSeq(ls, 1, i), SubSeq(text, 1, p))
  BY DEF StoredSoFar
<1>3. p # Len(text)
  <2>1. ASSUME p = Len(text)
        PROVE  FALSE
    <3>1. Len(text) + 1 \in Int /\ Len(text) \in Int /\ Len(text) < Len(text) + 1
      BY <1>1
    <3>2. SubSeq(text, Len(text) + 1, Len(text)) = << >>
      BY <3>1, SubSeqEmpty
    <3>. QED BY <2>1, <3>2 DEF After
  <2>. QED BY <2>1
<1>4. PICK k \in Nat \ {0} :
        /\ p + k <= Len(text) /\ IsLine(text, p, k) /\ line = SubSeq(text, p + 1, p + k)
  BY <1>2, <1>3, ReadsWholeLine
<1>. HIDE DEF line
<1>5. /\ Counted(SubSeq(text, 1, p + k)) = i + 1 /\ i + 1 <= Len(ls)
  <2>1. /\ Counted(SubSeq(text, 1, p + k)) = Counted(SubSeq(text, 1, p)) + 1
        /\ Counted(SubSeq(text, 1, p)) + 1 <= Counted(text)
    BY <1>4, CountedNext
  <2>. QED BY <1>2, <2>1
<1>6. /\ line \in Seq(Chars) /\ Len(line) = k /\ \A j \in 1 .. k : line[j] = text[p + j]
  <2>. DEFINE a == p + 1
              b == p + k
  <2>1. a \in Nat \ {0} /\ b \in Nat /\ b <= Len(text) /\ (IF a <= b THEN b - a + 1 ELSE 0) = k
    BY <1>4
  <2>2. \A j \in 1 .. k : a + j - 1 = p + j
    OBVIOUS
  <2>3. line = SubSeq(text, a, b)
    BY <1>4
  <2>. HIDE DEF a, b
  <2>4. /\ SubSeq(text, a, b) \in Seq(Chars) /\ Len(SubSeq(text, a, b)) = IF a <= b THEN b - a + 1 ELSE 0
        /\ \A j \in 1 .. Len(SubSeq(text, a, b)) : SubSeq(text, a, b)[j] = text[a + j - 1]
    BY <2>1, PieceIsText
  <2>5. Len(SubSeq(text, a, b)) = k
    BY <2>1, <2>4
  <2>6. \A j \in 1 .. k : SubSeq(text, a, b)[j] = text[p + j]
    BY <2>2, <2>4, <2>5
  <2>. QED BY <2>3, <2>4, <2>5, <2>6
<1>7. line # << >>
  <2>1. Len(<< >>) = 0
    BY EmptySeq
  <2>. QED BY <2>1, <1>6
<1>8. \A j \in 1 .. Len(line) - 1 : line[j] # NL
  <2>1. ASSUME NEW j \in 1 .. k - 1
        PROVE  line[j] # NL
    <3>1. j \in 1 .. k /\ p + j \in p + 1 .. p + k - 1
      OBVIOUS
    <3>2. text[p + j] # NL
      BY <1>4, <3>1 DEF IsLine, GoesToTheEnd
    <3>. QED BY <1>6, <3>1, <3>2
  <2>. QED BY <1>6, <2>1
<1>9. CString(line) = line
  BY <1>6, CStringOfText
<1>. DEFINE before == SubSeq(text, 1, p)
            stored == SubSeq(ls, 1, i)
<1>10. /\ before \in Seq(Chars) /\ (before = << >> \/ Last(before) = NL)
  <2>1. 1 \in Nat \ {0} /\ p <= Len(text) /\ (IF 1 <= p THEN p - 1 + 1 ELSE 0) = p
    BY <1>1, <1>2
  <2>2. /\ before \in Seq(Chars) /\ Len(before) = IF 1 <= p THEN p - 1 + 1 ELSE 0
        /\ \A j \in 1 .. Len(before) : before[j] = text[1 + j - 1]
    BY <2>1, PieceIsText
  <2>. HIDE DEF before
  <2>3. CASE p = 0
    <3>1. Len(before) = 0
      BY <2>1, <2>2, <2>3
    <3>. QED BY <2>2, <3>1, EmptySeq
  <2>4. CASE p # 0
    <3>1. Len(before) = p /\ p \in 1 .. p /\ 1 + p - 1 = p
      BY <2>1, <2>2, <2>4
    <3>2. before[p] = text[p]
      BY <2>2, <3>1
    <3>3. text[p] = NL
      BY <1>2, <1>3, <2>4
    <3>. QED BY <2>2, <3>1, <3>2, <3>3 DEF Last
  <2>. QED BY <2>3, <2>4
<1>11. before \o line = SubSeq(text, 1, p + k)
  <2>1. p \in 0 .. Len(text) /\ p + k \in p .. Len(text)
    BY <1>1, <1>2, <1>4
  <2>. QED BY <1>4, <2>1, PiecesTogether
<1>. DEFINE more == [ls EXCEPT ![Shorter(i + 1, Len(ls))] = Stripped(line)]
<1>12. Stripped(line) \in Seq(Chars) /\ Stripped(line) \in T
  BY <1>6, StrippedIsText
<1>13. Len(more) = Len(ls) /\ SubSeq(more, 1, i + 1) = Append(stored, Stripped(line))
  BY <1>5, <1>12, OneStored
<1>14. stored \in Seq(Seq(Chars)) /\ AreLinesOf(stored, before)
  BY <1>2
<1>. HIDE DEF before, stored, more
<1>15. AreLinesOf(Append(stored, Stripped(line)), before \o line)
  BY <1>6, <1>7, <1>8, <1>10, <1>14, LinesGrow
<1>16. Append(stored, Stripped(line)) \in Seq(Seq(Chars))
  BY <1>12, <1>14, AppendProperties
<1>17. p + k \in 0 .. Len(text) /\ i + 1 \in Nat
  BY <1>1, <1>4
<1>18. StoredSoFar(text, more, p + k, i + 1)
  <2>1. text[p + k] = NL \/ p + k = Len(text)
    BY <1>4 DEF IsLine, GoesToTheEnd
  <2>. QED BY <1>2, <1>5, <1>11, <1>13, <1>15, <1>16, <1>17, <2>1 DEF StoredSoFar
<1>. QED BY <1>5, <1>6, <1>9, <1>18 DEF more, line

(* In the end all lines are. *)
LEMMA AllStored ==
  ASSUME NEW text \in Seq(Chars), NEW T, NEW ls \in Seq(T), NEW p \in Nat, NEW i \in Nat,
         StoredSoFar(text, ls, p, i), After(text, p) = << >>
  PROVE  AreLinesOf(ls, text)
<1>1. Len(text) \in Nat /\ p \in 0 .. Len(text)
  BY LenProperties DEF StoredSoFar
<1>2. p = Len(text)
  <2>1. ASSUME p # Len(text)
        PROVE  FALSE
    <3>. DEFINE a == p + 1
    <3>1. a \in Nat \ {0} /\ Len(text) <= Len(text) /\ a <= Len(text) /\ Len(text) - a + 1 # 0
      BY <1>1, <2>1
    <3>. HIDE DEF a
    <3>2. Len(SubSeq(text, a, Len(text))) = IF a <= Len(text) THEN Len(text) - a + 1 ELSE 0
      BY <1>1, <3>1, PieceIsText
    <3>3. SubSeq(text, a, Len(text)) = << >>
      BY DEF After, a
    <3>4. Len(<< >>) = 0
      BY EmptySeq
    <3>. QED BY <3>1, <3>2, <3>3, <3>4
  <2>. QED BY <2>1
<1>3. SubSeq(text, 1, p) = text
  BY <1>2, SubSeqFull
<1>4. i = Len(ls) /\ AreLinesOf(SubSeq(ls, 1, i), text)
  BY <1>3 DEF StoredSoFar
<1>. QED BY <1>4, SubSeqFull

(* What the file held since the call began. *)
SeenIsRight ==
  /\ fs_at # "undefined"
  /\ fs_at \in FileFunctions \cup {"reading", "lines"} /\ alone => seen = {disk}
  /\ fs_at \in {"read_file", "reading"} => disk \in seen /\ disk # Directory
  /\ fs_at = "reading" => \E u \in seen : file_size = Len(u)

(* The lines that are stored are those of what was read. *)
LinesAreRight ==
  /\ fs_at \in {"read_lines", "lines"} => HasShortLines(ContentOf(disk))
  /\ fs_at = "lines" => line_idx + Counted(Rest) = Len(lines)
  /\ fs_at = "lines" /\ alone => StoredSoFar(ContentOf(disk), lines, position, line_idx)
  /\ fs_at \notin {"lines", "aborted"} => position = 0 /\ line_idx = 0

(* What a write keeps of the file. *)
Kept(b) == IF fs_call.fn = "append_file" THEN ContentOf(b) ELSE << >>

(* What is written goes behind what is kept. *)
WritesAreRight == fs_at = "writing" /\ alone => \E b : seen = {b} /\ disk = Kept(b)

(* read_file returns what the file held. *)
ReadFileReturned ==
  fs_at = "returned" /\ fs_call.fn = "read_file" =>
       IF fs_result.err = "none"
       THEN \E t \in seen, u \in seen :
              Len(fs_result.text) = Len(u) /\ IsPrefix(fs_result.text, t)
       ELSE fs_result.text = << >>

(* read_lines returns its lines. *)
LinesReturned ==
  fs_at = "returned" /\ fs_call.fn = "read_lines" /\ fs_result.err = "none" /\ alone =>
       AreLinesOf(fs_result.lines, ContentOf(Before))

(* A file that is said to exist does. *)
ProbesReturned ==
  fs_at = "returned" /\ fs_call.fn \in {"file_exists", "is_file"} /\ alone =>
       (fs_result.yes => Before # Missing)

(* What calls that returned have said. *)
FilesReturned == ReadFileReturned /\ LinesReturned /\ ProbesReturned /\ WritesAreReported

(* What calls that run rely on. *)
FilesRunning == SeenIsRight /\ LinesAreRight /\ WritesAreRight

(* Programs do what the functions expect, and files can be closed. *)
FilesExpectLittle == FilesCareless = {} /\ Zeros = {} /\ "fclose" \notin Fallible

(* Nothing was said at first. *)
LEMMA TruthBegins ==
  ASSUME CoreInit
  PROVE  FilesRunning /\ FilesReturned
BY DEF CoreInit, FilesInit, FilesRunning, FilesReturned, SeenIsRight, LinesAreRight, WritesAreRight,
       ReadFileReturned, LinesReturned, ProbesReturned, WritesAreReported, FileFunctions

(* What leaves the files alone keeps all of it. *)
LEMMA TruthStays ==
  ASSUME FilesRunning, FilesReturned, UNCHANGED files_vars
  PROVE  FilesRunning' /\ FilesReturned'
<1>1. /\ UNCHANGED <<oob_mode, disk, files, fs_call, fs_at, fs_result, seen, alone>>
      /\ UNCHANGED <<file_size, position, lines, line_idx>>
  BY DEF files_vars, locals
<1>2. Before' = Before /\ Rest' = Rest
  BY <1>1 DEF Before, Rest
<1>3. FilesRunning'
  BY <1>1, <1>2 DEF FilesRunning, SeenIsRight, LinesAreRight, WritesAreRight, Kept, StoredSoFar
<1>4. FilesReturned'
  BY <1>1, <1>2 DEF FilesReturned, ReadFileReturned, LinesReturned, ProbesReturned, WritesAreReported
<1>. QED BY <1>3, <1>4

(* While a call runs nothing is returned. *)
LEMMA StillRuns ==
  ASSUME fs_at' # "returned"
  PROVE  FilesReturned'
BY DEF FilesReturned, ReadFileReturned, LinesReturned, ProbesReturned, WritesAreReported

(* When it returned nothing runs. *)
LEMMA RunsNoMore ==
  ASSUME fs_at' = "returned", position' = 0, line_idx' = 0
  PROVE  FilesRunning'
BY DEF FilesRunning, SeenIsRight, LinesAreRight, WritesAreRight, FileFunctions

(* A call of a file function begins. *)
LEMMA CallTruth ==
  ASSUME FilesExpectLittle, FilesRunning, NEW fn \in FileFunctions, NEW text \in Texts, CallFile(fn, text)
  PROVE  FilesRunning' /\ FilesReturned'
<1>1. /\ fs_at \in {"idle", "returned"} /\ fs_at' = fn /\ disk' = disk
      /\ seen' = {disk} /\ alone' = TRUE /\ position' = position /\ line_idx' = line_idx
      /\ fn = "read_file" => disk # Directory
      /\ fn = "read_lines" => HasShortLines(ContentOf(disk))
  BY DEF CallFile, locals, FilesExpectLittle
<1>2. position = 0 /\ line_idx = 0
  BY <1>1 DEF FilesRunning, LinesAreRight
<1>3. fn \notin {"undefined", "reading", "lines", "returned", "writing"}
  BY DEF FileFunctions
<1>4. SeenIsRight'
  BY <1>1, <1>3 DEF SeenIsRight
<1>5. LinesAreRight'
  BY <1>1, <1>2, <1>3 DEF LinesAreRight
<1>6. WritesAreRight'
  BY <1>1, <1>3 DEF WritesAreRight
<1>7. FilesReturned'
  BY <1>1, <1>3, StillRuns
<1>. QED BY <1>4, <1>5, <1>6, <1>7 DEF FilesRunning

(* read_file opens the file. *)
LEMMA ReadFileTruth ==
  ASSUME FilesShape, FilesRunning, read_file
  PROVE  FilesRunning' /\ FilesReturned'
<1>1. /\ fs_at = "read_file" /\ UNCHANGED <<disk, fs_call, seen, alone>>
      /\ position' = position /\ lines' = lines /\ line_idx' = line_idx
  BY DEF read_file
<1>2. /\ fs_call.fn = "read_file" /\ disk # Directory /\ disk \in seen /\ position = 0 /\ line_idx = 0
      /\ alone => seen = {disk}
  BY <1>1 DEF FilesShape, FilesRunning, SeenIsRight, LinesAreRight, FileFunctions
<1>3. CASE \E err \in {"NotFound", "NotReadable"} : Return(Result(err, << >>, << >>, FALSE)) /\ UNCHANGED <<files, file_size>>
  <2>1. fs_at' = "returned" /\ fs_result'.text = << >> /\ fs_result'.err # "none"
    BY <1>3 DEF Return, Result
  <2>2. FilesReturned'
    BY <1>1, <1>2, <2>1 DEF FilesReturned, ReadFileReturned, LinesReturned, ProbesReturned, WritesAreReported
  <2>. QED BY <1>1, <1>2, <2>1, <2>2, RunsNoMore
<1>4. CASE /\ TRUE \in Opens /\ files' = files + 1
           /\ fs_at' = IF disk = Directory THEN "undefined" ELSE "reading"
           /\ file_size' = Len(ContentOf(disk))
           /\ UNCHANGED fs_result
  <2>1. fs_at' = "reading"
    BY <1>2, <1>4
  <2>2. disk # Missing
    BY <1>2, <1>4 DEF Opens, Reading
  <2>3. file_size' = Len(disk)
    BY <1>2, <1>4, <2>2 DEF ContentOf, IsText
  <2>4. SeenIsRight'
    BY <1>1, <1>2, <2>1, <2>3 DEF SeenIsRight, FileFunctions
  <2>5. LinesAreRight' /\ WritesAreRight'
    BY <1>1, <1>2, <2>1 DEF LinesAreRight, WritesAreRight
  <2>. QED BY <2>1, <2>4, <2>5, StillRuns DEF FilesRunning
<1>. QED BY <1>3, <1>4 DEF read_file

(* It reads as much as the file was long when it was opened. *)
LEMMA ReadContentTruth ==
  ASSUME FilesShape, FilesRunning, ReadContent
  PROVE  FilesRunning' /\ FilesReturned'
<1>1. /\ fs_at = "reading" /\ UNCHANGED <<disk, fs_call, seen, alone>> /\ Forget
      /\ \E read \in 0 .. Shorter(file_size, Len(disk)) : FinishRead(read)
  <2>1. disk \in Seq(Chars) /\ file_size \in Nat
    BY DEF ReadContent, FilesShape, FilesTypeOK
  <2>2. Shorter(file_size, Len(disk)) \in 0 .. Shorter(file_size, Len(disk))
    BY <2>1, LenProperties DEF Shorter
  <2>. QED BY <2>2 DEF ReadContent
<1>2. PICK u \in seen : file_size = Len(u)
  BY <1>1 DEF FilesRunning, SeenIsRight
<1>3. PICK read \in 0 .. Shorter(file_size, Len(disk)) : FinishRead(read)
  BY <1>1
<1>4. disk \in Seq(Chars) /\ file_size \in Nat /\ Len(disk) \in Nat /\ disk \in seen /\ fs_call.fn = "read_file"
  BY <1>1, LenProperties DEF FilesShape, FilesTypeOK, FilesRunning, SeenIsRight
<1>5. read \in Nat /\ read <= file_size /\ read <= Len(disk)
  BY <1>3, <1>4 DEF Shorter
<1>6. fs_at' = "returned"
  BY <1>3 DEF FinishRead, Return
<1>7. ReadFileReturned'
  <2>1. CASE read < file_size
    <3>1. fs_result'.text = << >> /\ fs_result'.err = "UnexpectedEOF"
      BY <1>3, <2>1 DEF FinishRead, Return, Result
    <3>. QED BY <3>1 DEF ReadFileReturned
  <2>2. CASE ~(read < file_size)
    <3>1. fs_result'.text = SubSeq(disk, 1, read) /\ fs_result'.err = "none"
      BY <1>3, <2>2 DEF FinishRead, Return, Result
    <3>2. read = Len(u)
      BY <1>2, <1>4, <1>5, <2>2
    <3>3. SubSeq(disk, 1, read) \in Seq(Chars) /\ Len(SubSeq(disk, 1, read)) = read
      BY <1>4, <1>5, PieceOfText
    <3>4. SubSeq(SubSeq(disk, 1, read), 1, read) = SubSeq(disk, 1, read)
      BY <3>3, SubSeqFull
    <3>5. IsPrefix(SubSeq(disk, 1, read), disk)
      BY <1>5, <3>3, <3>4 DEF IsPrefix
    <3>6. seen' = seen
      BY <1>1
    <3>7. Len(fs_result'.text) = Len(u) /\ IsPrefix(fs_result'.text, disk)
      BY <3>1, <3>2, <3>3, <3>5
    <3>. QED BY <1>2, <1>4, <3>1, <3>6, <3>7 DEF ReadFileReturned
  <2>. QED BY <2>1, <2>2
<1>8. FilesReturned'
  <2>1. fs_call'.fn = "read_file"
    BY <1>1, <1>4
  <2>. QED BY <2>1, <1>7 DEF FilesReturned, LinesReturned, ProbesReturned, WritesAreReported
<1>9. position' = 0 /\ line_idx' = 0
  BY <1>1 DEF Forget
<1>. QED BY <1>6, <1>8, <1>9, RunsNoMore

(* read_lines counts the lines. *)
LEMMA CountLinesTruth ==
  ASSUME FilesShape, FilesRunning, CountLines
  PROVE  FilesRunning' /\ FilesReturned'
<1>1. /\ fs_at = "read_lines" /\ UNCHANGED <<disk, fs_call, seen, alone>>
      /\ position' = position /\ line_idx' = line_idx
  BY DEF CountLines
<1>2. /\ fs_call.fn = "read_lines" /\ position = 0 /\ line_idx = 0 /\ HasShortLines(ContentOf(disk))
      /\ alone => seen = {disk}
  BY <1>1 DEF FilesShape, FilesRunning, SeenIsRight, LinesAreRight, FileFunctions
<1>3. CASE Return(Result("NotFound", << >>, << >>, FALSE)) /\ UNCHANGED <<files, lines>>
  <2>1. fs_at' = "returned" /\ fs_result'.err # "none"
    BY <1>3 DEF Return, Result
  <2>2. FilesReturned'
    BY <1>1, <1>2, <2>1 DEF FilesReturned, ReadFileReturned, LinesReturned, ProbesReturned, WritesAreReported
  <2>. QED BY <1>1, <1>2, <2>1, <2>2, RunsNoMore
<1>4. CASE /\ TRUE \in Opens /\ files' = files + 1
           /\ lines' = [i \in 1 .. Counted(ContentOf(disk)) |-> NullStr]
           /\ fs_at' = "lines"
           /\ UNCHANGED fs_result
  <2>1. ContentOf(disk) \in Seq(Chars) /\ ContentOf(disk)' = ContentOf(disk)
    BY <1>1, ContentIsText DEF FilesShape, ContentOf, IsText
  <2>2. StoredSoFar(ContentOf(disk), lines', position', line_idx')
    BY <1>1, <1>2, <1>4, <2>1, NothingStored
  <2>3. Len(lines') = Counted(ContentOf(disk)) /\ Counted(ContentOf(disk)) \in Nat
    BY <2>1, <2>2, CountedAny DEF StoredSoFar
  <2>4. line_idx' + Counted(Rest') = Len(lines')
    <3>1. After(ContentOf(disk), 0) = ContentOf(disk)
      BY <2>1, SubSeqFull DEF After
    <3>2. Rest' = ContentOf(disk)
      BY <1>1, <1>2, <2>1, <3>1 DEF Rest
    <3>. QED BY <1>1, <1>2, <2>3, <3>2
  <2>5. LinesAreRight'
    BY <1>1, <1>2, <1>4, <2>1, <2>2, <2>4 DEF LinesAreRight
  <2>6. SeenIsRight' /\ WritesAreRight'
    BY <1>1, <1>2, <1>4 DEF SeenIsRight, WritesAreRight, FileFunctions
  <2>. QED BY <1>4, <2>5, <2>6, StillRuns DEF FilesRunning
<1>. QED BY <1>3, <1>4 DEF CountLines

(* It reads one of them, and there is a place for it in the array. *)
LEMMA ReadLineTruth ==
  ASSUME FilesExpectLittle, FilesShape, FilesRunning, ReadLine
  PROVE  FilesRunning' /\ FilesReturned'
<1>1. /\ fs_at = "lines" /\ UNCHANGED <<disk, fs_call, seen, alone>> /\ Rest # << >>
  BY DEF ReadLine
<1>2. /\ ContentOf(disk) \in Seq(Chars) /\ ContentOf(disk)' = ContentOf(disk)
      /\ lines \in Seq(Seq(Chars) \cup {NullStr}) /\ position \in Nat /\ line_idx \in Nat
  BY <1>1, ContentIsText DEF FilesShape, FilesTypeOK, ContentOf, IsText
<1>3. /\ HasShortLines(ContentOf(disk)) /\ line_idx + Counted(Rest) = Len(lines)
      /\ alone => StoredSoFar(ContentOf(disk), lines, position, line_idx)
      /\ alone => seen = {disk}
  BY <1>1 DEF FilesRunning, SeenIsRight, LinesAreRight
<1>4. /\ Counted(Rest) \in Nat /\ Counted(After(ContentOf(disk), position + Len(fgets(Rest)))) \in Nat
      /\ Counted(Rest) = Counted(After(ContentOf(disk), position + Len(fgets(Rest)))) + 1
  BY <1>1, <1>2, <1>3, LinesLeft DEF Rest
<1>5. ~(line_idx >= Len(lines))
  BY <1>2, <1>3, <1>4, LenProperties
<1>6. CASE /\ lines' = Stored(Stripped(CString(fgets(Rest)))) /\ line_idx' = line_idx + 1
           /\ position' = position + Len(fgets(Rest)) /\ UNCHANGED fs_at
  <2>1. Len(lines') = Len(lines)
    <3>1. PICK n \in Nat : lines \in [1 .. n -> Seq(Chars) \cup {NullStr}] /\ n = Len(lines)
      BY <1>2, LenProperties
    <3>2. DOMAIN lines' = 1 .. n
      BY <1>6, <3>1 DEF Stored
    <3>3. lines' \in [1 .. n -> Seq(Chars) \cup {NullStr}]
      <4>1. Rest \in Seq(Chars)
        BY <1>2, PieceOfText DEF Rest
      <4>2. Stripped(CString(fgets(Rest))) \in Seq(Chars)
        BY <1>1, <4>1, LineIsText
      <4>. QED BY <1>6, <3>1, <4>2 DEF Stored
    <3>4. lines' \in Seq(Seq(Chars) \cup {NullStr})
      BY <3>3
    <3>5. Len(lines') \in Nat /\ DOMAIN lines' = 1 .. Len(lines')
      BY <3>4, LenProperties
    <3>. QED BY <3>1, <3>2, <3>5
  <2>2. alone => StoredSoFar(ContentOf(disk), lines', position', line_idx')
    <3>1. SUFFICES ASSUME alone
                   PROVE  StoredSoFar(ContentOf(disk), lines', position', line_idx')
      OBVIOUS
    <3>2. Seq(Chars) \subseteq Seq(Chars) \cup {NullStr} /\ After(ContentOf(disk), position) # << >> /\ Zeros = {}
      BY <1>1 DEF Rest, FilesExpectLittle
    <3>3. StoredSoFar(ContentOf(disk),
                      [lines EXCEPT ![Shorter(line_idx + 1, Len(lines))] =
                         Stripped(CString(fgets(After(ContentOf(disk), position))))],
                      position + Len(fgets(After(ContentOf(disk), position))), line_idx + 1)
      BY <1>2, <1>3, <3>1, <3>2, LineStored
    <3>. QED BY <1>6, <3>3 DEF Stored, Rest
  <2>3. fs_at' = "lines"
    BY <1>1, <1>6
  <2>6. line_idx' + Counted(Rest') = Len(lines')
    <3>1. Rest' = After(ContentOf(disk), position + Len(fgets(Rest)))
      BY <1>2, <1>6 DEF Rest
    <3>2. \A x, y, z \in Nat : y = z + 1 => (x + 1) + z = x + y
      OBVIOUS
    <3>. QED BY <1>2, <1>3, <1>4, <1>6, <2>1, <3>1, <3>2
  <2>4. LinesAreRight'
    BY <1>1, <1>2, <1>3, <2>2, <2>3, <2>6 DEF LinesAreRight
  <2>5. SeenIsRight' /\ WritesAreRight'
    BY <1>1, <1>3, <2>3 DEF SeenIsRight, WritesAreRight, FileFunctions
  <2>. QED BY <2>3, <2>4, <2>5, StillRuns DEF FilesRunning
<1>. QED BY <1>5, <1>6 DEF ReadLine

(* It returns the lines it stored. *)
LEMMA EndLinesTruth ==
  ASSUME FilesShape, FilesRunning, EndLines
  PROVE  FilesRunning' /\ FilesReturned'
<1>1. fs_at = "lines" /\ UNCHANGED <<disk, fs_call, seen, alone>> /\ Rest = << >>
  BY DEF EndLines
<1>2. /\ ContentOf(disk) \in Seq(Chars) /\ position \in Nat /\ line_idx \in Nat /\ fs_call.fn = "read_lines"
      /\ lines \in Seq(Seq(Chars) \cup {NullStr})
  BY <1>1, ContentIsText DEF FilesShape, FilesTypeOK
<1>3. /\ alone => StoredSoFar(ContentOf(disk), lines, position, line_idx)
      /\ alone => seen = {disk}
      /\ line_idx + Counted(Rest) = Len(lines)
  BY <1>1 DEF FilesRunning, SeenIsRight, LinesAreRight
<1>8. Return(Result("none", << >>, lines, FALSE)) /\ Forget
  <2>1. Counted(Rest) = 0
    BY <1>1, <1>2, CountedAny
  <2>2. ~(line_idx < Len(lines))
    BY <1>2, <1>3, <2>1
  <2>. QED BY <2>2 DEF EndLines
<1>4. fs_at' = "returned" /\ fs_result'.lines = lines
  BY <1>8 DEF Return, Result
<1>5. LinesReturned'
  <2>1. SUFFICES ASSUME alone
                 PROVE  AreLinesOf(fs_result'.lines, ContentOf(Before)')
    BY <1>1 DEF LinesReturned
  <2>2. AreLinesOf(lines, ContentOf(disk))
    <3>1. After(ContentOf(disk), position) = << >>
      BY <1>1 DEF Rest
    <3>. QED BY <1>2, <1>3, <2>1, <3>1, AllStored
  <2>3. ContentOf(Before)' = ContentOf(disk)
    <3>1. seen' = {disk}
      BY <1>1, <1>3, <2>1
    <3>2. Before' = disk
      BY <3>1 DEF Before
    <3>. QED BY <3>2 DEF ContentOf, IsText
  <2>. QED BY <1>4, <2>2, <2>3
<1>6. FilesReturned'
  <2>1. fs_call'.fn = "read_lines"
    BY <1>1, <1>2
  <2>. QED BY <2>1, <1>5 DEF FilesReturned, ReadFileReturned, ProbesReturned, WritesAreReported
<1>7. position' = 0 /\ line_idx' = 0
  BY <1>8 DEF Forget
<1>. QED BY <1>4, <1>6, <1>7, RunsNoMore

(* The functions that ask whether a file is there. *)
LEMMA ProbeTruth ==
  ASSUME FilesShape, FilesRunning, NEW fn \in {"file_exists", "is_file"}, Probe(fn)
  PROVE  FilesRunning' /\ FilesReturned'
<1>1. /\ fs_at = fn /\ UNCHANGED <<disk, fs_call, seen, alone>> /\ position' = position /\ line_idx' = line_idx
  BY DEF Probe, locals
<1>2. PICK opened \in Opens : Return(Result("none", << >>, << >>, opened))
  BY DEF Probe
<1>3. fs_call.fn = fn /\ position = 0 /\ line_idx = 0 /\ (alone => seen = {disk})
  BY <1>1 DEF FilesShape, FilesRunning, SeenIsRight, LinesAreRight, FileFunctions
<1>4. fs_at' = "returned" /\ fs_result'.yes = opened
  BY <1>2 DEF Return, Result
<1>5. opened => disk # Missing
  BY <1>3, <1>2 DEF Opens, Reading
<1>6. ProbesReturned'
  <2>1. SUFFICES ASSUME alone, opened
                 PROVE  Before' # Missing
    BY <1>1, <1>4 DEF ProbesReturned
  <2>2. seen' = {disk}
    BY <1>1, <1>3, <2>1
  <2>3. Before' = disk
    BY <2>2 DEF Before
  <2>. QED BY <1>5, <2>1, <2>3
<1>7. FilesReturned'
  <2>1. fs_call'.fn = fn
    BY <1>1, <1>3
  <2>. QED BY <2>1, <1>6 DEF FilesReturned, ReadFileReturned, LinesReturned, WritesAreReported
<1>. QED BY <1>1, <1>3, <1>4, <1>7, RunsNoMore

(* A file is opened to be written to: it is refused, or emptied, or kept. *)
LEMMA OpenTruth ==
  ASSUME FilesShape, FilesRunning, NEW fn \in {"write_file", "append_file"}, NEW emptied \in BOOLEAN,
         emptied <=> fn = "write_file", OpenForWriting(fn, emptied)
  PROVE  FilesRunning' /\ FilesReturned'
<1>1. /\ fs_at = fn /\ UNCHANGED <<fs_call, seen, alone>> /\ position' = position /\ line_idx' = line_idx
  BY DEF OpenForWriting, locals
<1>2. fs_call.fn = fn /\ position = 0 /\ line_idx = 0 /\ (alone => seen = {disk})
  BY <1>1 DEF FilesShape, FilesRunning, SeenIsRight, LinesAreRight, FileFunctions
<1>3. CASE Return(Result("InvalidPath", << >>, << >>, FALSE)) /\ UNCHANGED <<disk, files>>
  <2>1. fs_at' = "returned" /\ fs_result'.err = "InvalidPath" /\ disk' = disk
    BY <1>3 DEF Return, Result
  <2>2. WritesAreReported'
    <3>1. SUFFICES ASSUME alone
                   PROVE  disk' = Before'
      BY <1>1, <2>1 DEF WritesAreReported
    <3>2. seen' = {disk}
      BY <1>1, <1>2, <3>1
    <3>. QED BY <2>1, <3>2 DEF Before
  <2>3. FilesReturned'
    <3>1. fs_call'.fn = fn
      BY <1>1, <1>2
    <3>. QED BY <2>2, <3>1 DEF FilesReturned, ReadFileReturned, LinesReturned, ProbesReturned
  <2>. QED BY <1>1, <1>2, <2>1, <2>3, RunsNoMore
<1>4. CASE /\ disk' = IF emptied THEN << >> ELSE ContentOf(disk)
           /\ fs_at' = "writing"
  <2>1. WritesAreRight'
    <3>1. PICK b : b = disk
      OBVIOUS
    <3>2. disk' = Kept(b)
      BY <1>2, <1>4, <3>1 DEF Kept
    <3>3. fs_call' = fs_call
      BY <1>1
    <3>4. disk' = Kept(b)'
      BY <3>2, <3>3 DEF Kept, ContentOf, IsText
    <3>5. alone => seen' = {b}
      BY <1>1, <1>2, <3>1
    <3>. QED BY <1>1, <3>4, <3>5 DEF WritesAreRight
  <2>2. SeenIsRight' /\ LinesAreRight'
    BY <1>1, <1>2, <1>4 DEF SeenIsRight, LinesAreRight, FileFunctions
  <2>. QED BY <1>4, <2>1, <2>2, StillRuns DEF FilesRunning
<1>. QED BY <1>3, <1>4 DEF OpenForWriting

(* A text is the beginning of what it is continued to. *)
LEMMA ContinuedText ==
  ASSUME NEW S, NEW s \in Seq(S), NEW t \in Seq(S)
  PROVE  IsPrefix(s, s \o t)
<1>1. Len(s) \in Nat /\ Len(t) \in Nat /\ Len(s \o t) = Len(s) + Len(t)
  BY LenProperties, ConcatProperties
<1>2. Len(s) <= Len(s \o t)
  BY <1>1
<1>3. CASE Len(s) = 0
  <2>1. SubSeq(s, 1, 0) = << >> /\ SubSeq(s \o t, 1, 0) = << >>
    BY SubSeqEmpty
  <2>. QED BY <1>2, <1>3, <2>1 DEF IsPrefix
<1>4. CASE Len(s) # 0
  <2>1. 1 \in 1 .. Len(s) /\ Len(s) \in 1 .. Len(s)
    BY <1>1, <1>4
  <2>2. SubSeq(s \o t, 1, Len(s)) = SubSeq(s, 1, Len(s))
    BY <2>1, SubSeqOfConcat1
  <2>. QED BY <1>2, <2>2 DEF IsPrefix
<1>. QED BY <1>3, <1>4

(* What arrived of a text that is written behind another. *)
LEMMA ArrivedBehind ==
  ASSUME NEW kept \in Seq(Chars), NEW text \in Seq(Chars), NEW n \in 0 .. Len(text)
  PROVE  /\ n = Len(text) => kept \o SubSeq(text, 1, n) = kept \o text
         /\ n # Len(text) => /\ IsPrefix(kept, kept \o SubSeq(text, 1, n))
                             /\ IsStrictPrefix(kept \o SubSeq(text, 1, n), kept \o text)
<1>1. n \in Nat /\ Len(text) \in Nat /\ n <= Len(text)
  BY LenProperties
<1>2. SubSeq(text, 1, n) \in Seq(Chars) /\ Len(SubSeq(text, 1, n)) = n /\ After(text, n) \in Seq(Chars)
  BY <1>1, PieceOfText
<1>3. n = Len(text) => SubSeq(text, 1, n) = text
  BY SubSeqFull
<1>4. ASSUME n # Len(text)
      PROVE  IsStrictPrefix(kept \o SubSeq(text, 1, n), kept \o text)
  <2>1. SubSeq(text, 1, n) \o After(text, n) = text
    <3>1. 1 \in 1 .. Len(text) + 1 /\ n \in 1 - 1 .. Len(text) /\ Len(text) \in n .. Len(text)
      BY <1>1
    <3>2. SubSeq(text, 1, n) \o SubSeq(text, n + 1, Len(text)) = SubSeq(text, 1, Len(text))
      BY <3>1, ConcatAdjacentSubSeq
    <3>. QED BY <3>2, SubSeqFull DEF After
  <2>2. kept \o SubSeq(text, 1, n) \in Seq(Chars)
    BY <1>2, ConcatProperties
  <2>3. kept \o text = (kept \o SubSeq(text, 1, n)) \o After(text, n)
    <3>1. PICK s \in Seq(Chars), u \in Seq(Chars) : s = SubSeq(text, 1, n) /\ u = After(text, n)
      BY <1>2
    <3>2. (kept \o s) \o u = kept \o (s \o u)
      BY ConcatAssociative
    <3>3. s \o u = text
      BY <2>1, <3>1
    <3>. QED BY <3>1, <3>2, <3>3
  <2>4. IsPrefix(kept \o SubSeq(text, 1, n), kept \o text)
    BY <1>2, <2>2, <2>3, ContinuedText
  <2>5. kept \o SubSeq(text, 1, n) # kept \o text
    <3>1. Len(kept \o SubSeq(text, 1, n)) = Len(kept) + n /\ Len(kept \o text) = Len(kept) + Len(text)
      BY <1>2, ConcatProperties
    <3>2. Len(kept) \in Nat
      BY LenProperties
    <3>3. Len(kept) + n # Len(kept) + Len(text)
      BY <1>1, <1>4, <3>2
    <3>. QED BY <3>1, <3>3
  <2>. QED BY <2>4, <2>5 DEF IsStrictPrefix
<1>. QED BY <1>2, <1>3, <1>4, ContinuedText

(* What a write leaves behind, and what is said of it. *)
LEMMA WriteTruth ==
  ASSUME FilesExpectLittle, FilesShape, FilesRunning, WriteContent
  PROVE  FilesRunning' /\ FilesReturned'
<1>1. /\ fs_at = "writing" /\ UNCHANGED <<fs_call, seen, alone>> /\ position' = position /\ line_idx' = line_idx
  BY DEF WriteContent, locals
<1>2. PICK n \in 0 .. Len(fs_call.text) :
        /\ disk' = Arrived(n)
        /\ Return(Result(IF n = Len(fs_call.text) THEN "none" ELSE "NotWritable", << >>, << >>, FALSE))
  BY DEF WriteContent, FilesExpectLittle
<1>3. /\ fs_at' = "returned"
      /\ fs_result'.err = IF n = Len(fs_call.text) THEN "none" ELSE "NotWritable"
  BY <1>2 DEF Return, Result
<1>4. /\ fs_call.fn \in {"write_file", "append_file"} /\ disk \in Seq(Chars) /\ fs_call.text \in Seq(Chars)
      /\ position = 0 /\ line_idx = 0
  BY <1>1, TextsAre DEF FilesShape, FilesTypeOK, FilesRunning, LinesAreRight, FileFunctions
<1>5. WritesAreReported'
  <2>1. SUFFICES ASSUME alone
                 PROVE  WritesAreReported'
    BY <1>1 DEF WritesAreReported
  <2>2. PICK b : seen = {b} /\ disk = Kept(b)
    BY <1>1, <2>1 DEF FilesRunning, WritesAreRight
  <2>3. Before' = b
    BY <1>1, <2>2 DEF Before
  <2>4. ContentOf(Before)' = ContentOf(b)
    BY <2>3 DEF ContentOf, IsText
  <2>5. disk' = disk \o SubSeq(fs_call.text, 1, n)
    <3>1. CASE fs_call.fn = "append_file"
      BY <1>2, <3>1 DEF Arrived
    <3>2. CASE fs_call.fn # "append_file"
      <4>1. disk = << >>
        BY <2>2, <3>2 DEF Kept
      <4>2. n \in Nat /\ n <= Len(fs_call.text)
        BY <1>4, LenProperties
      <4>3. After(disk, n) = << >>
        <5>1. n + 1 \in Int /\ 0 < n + 1
          BY <4>2
        <5>2. SubSeq(disk, n + 1, 0) = << >>
          BY <5>1, SubSeqEmpty
        <5>. QED BY <4>1, <5>2, EmptySeq DEF After
      <4>4. SubSeq(fs_call.text, 1, n) \in Seq(Chars)
        BY <1>4, <4>2, PieceOfText
      <4>5. disk' = SubSeq(fs_call.text, 1, n) \o << >>
        BY <1>2, <3>2, <4>3 DEF Arrived
      <4>. QED BY <4>1, <4>4, <4>5, ConcatEmptySeq
    <3>. QED BY <3>1, <3>2
  <2>6. CASE n = Len(fs_call.text)
    <3>1. disk' = disk \o fs_call.text
      BY <1>4, <2>5, <2>6, ArrivedBehind
    <3>2. disk' = (IF fs_call.fn = "append_file" THEN ContentOf(b) ELSE << >>) \o fs_call.text
      BY <2>2, <3>1 DEF Kept
    <3>. QED BY <1>1, <1>3, <2>4, <2>6, <3>2 DEF WritesAreReported
  <2>7. CASE n # Len(fs_call.text)
    <3>1. IsPrefix(disk, disk') /\ IsStrictPrefix(disk', disk \o fs_call.text)
      BY <1>4, <2>5, <2>7, ArrivedBehind
    <3>2. DEFINE kept == IF fs_call.fn = "append_file" THEN ContentOf(b) ELSE << >>
    <3>3. IsPrefix(kept, disk') /\ IsStrictPrefix(disk', kept \o fs_call.text)
      BY <2>2, <3>1 DEF Kept
    <3>4. fs_result'.err = "NotWritable"
      BY <1>3, <2>7
    <3>. QED BY <1>1, <2>4, <3>3, <3>4 DEF WritesAreReported
  <2>. QED BY <2>6, <2>7
<1>6. FilesReturned'
  <2>1. fs_call'.fn \in {"write_file", "append_file"}
    BY <1>1, <1>4
  <2>. QED BY <1>5, <2>1 DEF FilesReturned, ReadFileReturned, LinesReturned, ProbesReturned
<1>. QED BY <1>1, <1>3, <1>4, <1>6, RunsNoMore

(* Another program rewrites the file while the call runs. *)
LEMMA OthersTruth ==
  ASSUME FilesExpectLittle, FilesShape, FilesRunning, NEW text \in Texts, OthersRewrite(text)
  PROVE  FilesRunning' /\ FilesReturned'
<1>1. /\ disk' = text /\ alone' = FALSE /\ seen' = seen \cup {text}
      /\ fs_at \notin {"aborted", "undefined", "idle", "returned"} /\ fs_at' = fs_at
      /\ UNCHANGED <<file_size, position, lines, line_idx>>
  BY DEF OthersRewrite, locals
<1>2. IsText(text)
  BY FilesAssumption DEF IsText
<1>3. ContentOf(text) = text /\ ContentOf(disk)' = text
  BY <1>1, <1>2 DEF ContentOf, IsText
<1>4. text # Directory
  BY <1>2 DEF IsText
<1>5. fs_at \in {"read_lines", "lines"} => HasShortLines(text)
  BY DEF OthersRewrite, FilesExpectLittle, FillsArray
<1>6. fs_at = "lines" => line_idx + Counted(After(text, position)) = Len(lines)
  BY DEF OthersRewrite, FilesExpectLittle, FillsArray
<1>7. SeenIsRight'
  <2>1. SeenIsRight
    BY DEF FilesRunning
  <2>. QED BY <1>1, <1>4, <2>1 DEF SeenIsRight
<1>8. LinesAreRight'
  <2>1. HasShortLines(ContentOf(disk))' <=> HasShortLines(text)
    BY <1>3 DEF HasShortLines
  <2>2. Rest' = After(text, position)
    BY <1>1, <1>3 DEF Rest
  <2>3. fs_at \notin {"lines", "aborted"} => position = 0 /\ line_idx = 0
    BY DEF FilesRunning, LinesAreRight
  <2>. QED BY <1>1, <1>5, <1>6, <2>1, <2>2, <2>3 DEF LinesAreRight
<1>9. WritesAreRight'
  BY <1>1 DEF WritesAreRight
<1>. QED BY <1>1, <1>7, <1>8, <1>9, StillRuns DEF FilesRunning

(* No step breaks what the calls keep. *)
LEMMA TruthStep ==
  ASSUME FilesExpectLittle, FilesShape, FilesRunning, FilesReturned, [CoreNext]_core_vars
  PROVE  FilesRunning' /\ FilesReturned'
<1>1. CASE UNCHANGED files_vars
  BY <1>1, TruthStays
<1>2. CASE FilesNext
  <2>1. CASE \E fn \in FileFunctions, text \in Texts : CallFile(fn, text)
    BY <2>1, CallTruth
  <2>2. CASE read_file \/ ReadContent
    BY <2>2, ReadFileTruth, ReadContentTruth
  <2>3. CASE CountLines \/ ReadLine \/ EndLines
    BY <2>3, CountLinesTruth, ReadLineTruth, EndLinesTruth
  <2>4. CASE file_exists \/ is_file
    BY <2>4, ProbeTruth DEF file_exists, is_file
  <2>5. CASE write_file \/ append_file
    BY <2>5, OpenTruth DEF write_file, append_file
  <2>6. CASE WriteContent
    BY <2>6, WriteTruth
  <2>7. CASE \E text \in Texts : OthersRewrite(text)
    BY <2>7, OthersTruth
  <2>. QED BY <1>2, <2>1, <2>2, <2>3, <2>4, <2>5, <2>6, <2>7 DEF FilesNext
<1>. QED BY <1>1, <1>2 DEF CoreNext, core_vars

(* What is read, and what is said of it and of what was written, is true:
   FilesTellTheTruth. *)
THEOREM FilesStayTrue ==
  ASSUME FilesExpectLittle
  PROVE  CoreSpec => []FilesTellTheTruth
<1>. DEFINE All == FilesShape /\ FilesRunning /\ FilesReturned
<1>1. CoreInit => All
  BY FilesBegin, TruthBegins
<1>2. All /\ [CoreNext]_core_vars => All'
  BY ShapeStep, TruthStep
<1>3. All => FilesTellTheTruth
  BY DEF FilesRunning, FilesReturned, SeenIsRight, ReadFileReturned, LinesReturned, ProbesReturned,
         FilesTellTheTruth, ReadsTellTheTruth
<1>. QED BY <1>1, <1>2, <1>3, PTL DEF CoreSpec
=============================================================================
