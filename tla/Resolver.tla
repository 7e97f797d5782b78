------------------------------ MODULE Resolver ------------------------------
(***************************************************************************)
(* How the compiler discovers and parses the files of a program:           *)
(* Resolver::create_dependency_graph, in waves.  A wave takes the imports  *)
(* of every file the previous wave has parsed; one call of                 *)
(* process_dependency_file per importing file, on the thread pool or one   *)
(* after the other, parses the imported files and hangs them into the      *)
(* graph.  A call is named by the file whose imports it processes.         *)
(*                                                                         *)
(* One action is what happens under one mutex, or between two of them.     *)
(* namespace_map is read by the calls without its mutex; where that read   *)
(* and a write are possible in the same state there is a data race, which  *)
(* is stated as a property and not followed further.  The vector Parser::  *)
(* instances, to which create appends without any mutex, is left out.      *)
(***************************************************************************)
EXTENDS Naturals, Sequences, FiniteSets

CONSTANTS
  Files,        (* the files, by the hash of their absolute path           *)
  Main,         (* the file given on the command line                      *)
  NoFile,       (* "no file"                                               *)
  Core,         (* an import of a module of Core                           *)
  Library,      (* an import of any other library path                     *)
  ImportGraphs, (* the programs considered: file -> its imports, in order  *)
  Width         (* the pool's threads; 1 when not parsing in parallel      *)

ASSUME ResolverAssumption ==
  /\ IsFiniteSet(Files) /\ Main \in Files
  /\ {NoFile, Core, Library} \cap Files = {}
  /\ ImportGraphs \subseteq [Files -> Seq(Files \cup {Core, Library})]
  /\ Width \in Nat \ {0}

VARIABLES
  imports,             (* what each file imports                           *)
  broken,              (* the files that do not parse                      *)
  namespace_map,       (* the files with an entry in namespace_map         *)
  dependency_map,      (* the files with an entry in dependency_map        *)
  dependency_node_map, (* the files with an entry in dependency_node_map   *)
  shared,              (* <<f, g>>: f's node has a shared_ptr to g's       *)
  weak,                (* <<f, g>>: f's node has a weak_ptr to g's         *)
  root,                (* the root of each node                            *)
  open,                (* the keys of open_dependencies                    *)
  postponed,           (* the keys of open_duplicates                      *)
  next,                (* the keys of next_dependencies                    *)
  pc,                  (* where each call of process_dependency_file is    *)
  left,                (* the imports the call has still to process        *)
  phase,               (* what create_dependency_graph is doing            *)
  mutex_map, counted, holding  (* the state of the ResourceLocks           *)

graph == <<dependency_node_map, shared, weak, root>>
waves == <<open, postponed, phase>>
lock  == <<mutex_map, counted, holding>>
input == <<imports, broken>>
vars  == <<input, namespace_map, dependency_map, graph, waves, next, pc, left, lock>>

Lock == INSTANCE ResourceLock WITH
          Threads <- Files, Resources <- Files, NoThread <- NoFile

(* The import the call is at, and the calls that occupy a thread. *)
dep(t) == Head(left[t])
Active == {t \in Files : pc[t] \notin {"idle", "queued", "ok", "failed", "threw"}}

Goto(t, label) == pc' = [pc EXCEPT ![t] = label]

(* The main file has been parsed, has its node, and its imports are open. *)
Init ==
  /\ imports \in ImportGraphs
  /\ broken \in SUBSET (Files \ {Main})
  /\ namespace_map = {Main} /\ dependency_map = {Main} /\ dependency_node_map = {Main}
  /\ shared = {} /\ weak = {} /\ root = [f \in Files |-> NoFile]
  /\ open = {Main} /\ postponed = {} /\ next = {}
  /\ pc = [f \in Files |-> "idle"] /\ left = [f \in Files |-> <<>>]
  /\ phase = "open"
  /\ Lock!Init

----------------------------------------
(* create_dependency_graph. *)

(* The head of the loop: extract_duplicates keeps the files that have a
   namespace and puts the others off to the next wave; then one call per
   remaining file is enqueued. *)
BeginWave ==
  /\ phase = "open" /\ open # {}
  /\ phase' = "wave"
  /\ open' = open \cap namespace_map
  /\ postponed' = open \ namespace_map
  /\ next' = {}
  /\ pc' = [f \in Files |-> IF f \in open' THEN "queued" ELSE "idle"]
  /\ left' = [f \in Files |-> IF f \in open' THEN imports[f] ELSE <<>>]
  /\ UNCHANGED <<input, namespace_map, dependency_map, graph, lock>>

(* All results are in: nullopt if one is false, else the next wave. *)
EndWave ==
  /\ phase = "wave"
  /\ \A t \in open : pc[t] \in {"ok", "failed"}
  /\ IF \E t \in open : pc[t] = "failed"
       THEN phase' = "failed" /\ UNCHANGED open
       ELSE phase' = "open" /\ open' = next \cup postponed
  /\ UNCHANGED <<postponed, next, input, namespace_map, dependency_map, graph, pc, left, lock>>

(* An exception of a call leaves create_dependency_graph, directly or
   through future.get(), and nobody catches it: the process is terminated. *)
Crash ==
  /\ phase = "wave"
  /\ \E t \in open : pc[t] = "threw"
  /\ phase' = "crashed"
  /\ UNCHANGED <<open, postponed, next, input, namespace_map, dependency_map, graph, pc,
                 left, lock>>

EndGraph ==
  /\ phase = "open" /\ open = {}
  /\ phase' = "done"
  /\ UNCHANGED <<open, postponed, next, input, namespace_map, dependency_map, graph, pc,
                 left, lock>>

----------------------------------------
(* process_dependency_file(t, imports[t], next). *)

StartCall(t) ==
  /\ phase = "wave" /\ pc[t] = "queued"
  /\ Cardinality(Active) < Width
  /\ Goto(t, "import")
  /\ UNCHANGED <<input, namespace_map, dependency_map, graph, waves, next, left, lock>>

ReturnTrue(t) ==
  /\ phase = "wave" /\ pc[t] = "import" /\ left[t] = <<>>
  /\ Goto(t, "ok")
  /\ UNCHANGED <<input, namespace_map, dependency_map, graph, waves, next, left, lock>>

(* Imports of Core are handled elsewhere; other libraries are reported as
   not implemented, and skipped as well. *)
SkipLibrary(t) ==
  /\ phase = "wave" /\ pc[t] = "import" /\ left[t] # <<>>
  /\ dep(t) \in {Core, Library}
  /\ left' = [left EXCEPT ![t] = Tail(@)]
  /\ UNCHANGED <<input, namespace_map, dependency_map, graph, waves, next, pc, lock>>

(* ResourceLock file_lock(...), in its two halves. *)
EnterLock(t) ==
  /\ phase = "wave" /\ pc[t] = "import" /\ left[t] # <<>>
  /\ dep(t) \in Files
  /\ Lock!Register(t, dep(t))
  /\ Goto(t, "locking")
  /\ UNCHANGED <<input, namespace_map, dependency_map, graph, waves, next, left>>

(* Mutant of GetLock: the constructor does not lock the mutex. *)
GetLockUnlocked(t) ==
  /\ phase = "wave" /\ pc[t] = "locking"
  /\ counted' = counted \ {<<t, dep(t)>>}
  /\ holding' = holding \cup {<<t, dep(t)>>}
  /\ Goto(t, "lookup")
  /\ UNCHANGED <<input, namespace_map, dependency_map, graph, waves, next, left, mutex_map>>

GetLock(t) ==
  /\ phase = "wave" /\ pc[t] = "locking"
  /\ Lock!Acquire(t, dep(t))
  /\ Goto(t, "lookup")
  /\ UNCHANGED <<input, namespace_map, dependency_map, graph, waves, next, left>>

(* namespace_map.find, without namespace_map_mutex. *)
Lookup(t) ==
  /\ phase = "wave" /\ pc[t] = "lookup"
  /\ Goto(t, IF dep(t) \in namespace_map THEN "known" ELSE "create")
  /\ UNCHANGED <<input, namespace_map, dependency_map, graph, waves, next, left, lock>>

(* Mutant of AddWeak: a known file's imports are taken up once more. *)
AddWeakAndSchedule(t) ==
  /\ phase = "wave" /\ pc[t] = "known"
  /\ dep(t) \in dependency_node_map
  /\ weak' = weak \cup {<<t, dep(t)>>}
  /\ next' = next \cup {dep(t)}
  /\ Goto(t, "unlock")
  /\ UNCHANGED <<input, namespace_map, dependency_map, dependency_node_map, shared, root,
                 waves, left, lock>>

(* A file that is already known gets a weak edge. *)
AddWeak(t) ==
  /\ phase = "wave" /\ pc[t] = "known"
  /\ dep(t) \in dependency_node_map
  /\ weak' = weak \cup {<<t, dep(t)>>}
  /\ Goto(t, "unlock")
  /\ UNCHANGED <<input, namespace_map, dependency_map, dependency_node_map, shared, root,
                 waves, next, left, lock>>

(* dependency_node_map.at throws when the known file has no node; the
   ResourceLock is released while the exception leaves the call. *)
NodeMissing(t) ==
  /\ phase = "wave" /\ pc[t] = "known"
  /\ dep(t) \notin dependency_node_map
  /\ Lock!Release(t, dep(t))
  /\ Goto(t, "threw")
  /\ UNCHANGED <<input, namespace_map, dependency_map, graph, waves, next, left>>

(* Parser::create. *)
Create(t) ==
  /\ phase = "wave" /\ pc[t] = "create"
  /\ Goto(t, "claim")
  /\ UNCHANGED <<input, namespace_map, dependency_map, graph, waves, next, left, lock>>

(* Parser::parse first enters the file into namespace_map ... *)
Claim(t) ==
  /\ phase = "wave" /\ pc[t] = "claim"
  /\ namespace_map' = namespace_map \cup {dep(t)}
  /\ Goto(t, "parse")
  /\ UNCHANGED <<input, dependency_map, graph, waves, next, left, lock>>

(* ... and then succeeds ... *)
ParseSucceeds(t) ==
  /\ phase = "wave" /\ pc[t] = "parse" /\ dep(t) \notin broken
  /\ Goto(t, "add")
  /\ UNCHANGED <<input, namespace_map, dependency_map, graph, waves, next, left, lock>>

(* ... or not: the call returns false, its other imports unprocessed.  The
   entry in namespace_map stays. *)
ParseFails(t) ==
  /\ phase = "wave" /\ pc[t] = "parse" /\ dep(t) \in broken
  /\ Lock!Release(t, dep(t))
  /\ Goto(t, "failed")
  /\ UNCHANGED <<input, namespace_map, dependency_map, graph, waves, next, left>>

(* add_dependencies_and_file, which refuses a file it already has. *)
AddFile(t) ==
  /\ phase = "wave" /\ pc[t] = "add"
  /\ dependency_map' = dependency_map \cup {dep(t)}
  /\ Goto(t, IF dep(t) \in dependency_map THEN "known" ELSE "link")
  /\ UNCHANGED <<input, namespace_map, graph, waves, next, left, lock>>

(* The new node is hung below the importing file's. *)
Link(t) ==
  /\ phase = "wave" /\ pc[t] = "link"
  /\ root' = [root EXCEPT ![dep(t)] = t]
  /\ shared' = shared \cup {<<t, dep(t)>>}
  /\ dependency_node_map' = dependency_node_map \cup {dep(t)}
  /\ Goto(t, "schedule")
  /\ UNCHANGED <<input, namespace_map, dependency_map, weak, waves, next, left, lock>>

(* The new file's imports, if it has any, go to the next wave. *)
Schedule(t) ==
  /\ phase = "wave" /\ pc[t] = "schedule"
  /\ next' = IF imports[dep(t)] # <<>> THEN next \cup {dep(t)} ELSE next
  /\ Goto(t, "unlock")
  /\ UNCHANGED <<input, namespace_map, dependency_map, graph, waves, left, lock>>

(* The end of an iteration: file_lock goes out of scope. *)
Unlock(t) ==
  /\ phase = "wave" /\ pc[t] = "unlock"
  /\ Lock!Release(t, dep(t))
  /\ left' = [left EXCEPT ![t] = Tail(@)]
  /\ Goto(t, "import")
  /\ UNCHANGED <<input, namespace_map, dependency_map, graph, waves, next>>

----------------------------------------
CallStep(t) ==
  \/ StartCall(t) \/ ReturnTrue(t) \/ SkipLibrary(t)
  \/ EnterLock(t) \/ GetLock(t) \/ Lookup(t) \/ AddWeak(t) \/ NodeMissing(t)
  \/ Create(t) \/ Claim(t) \/ ParseSucceeds(t) \/ ParseFails(t)
  \/ AddFile(t) \/ Link(t) \/ Schedule(t) \/ Unlock(t)

GraphStep == BeginWave \/ EndWave \/ Crash \/ EndGraph

(* create_dependency_graph has returned or the process has died. *)
Ended == phase \in {"done", "failed", "crashed"} /\ UNCHANGED vars

Next == GraphStep \/ (\E t \in Files : CallStep(t)) \/ Ended

Spec == Init /\ [][Next]_vars

(* Threads that can run do run, and a free mutex goes to a waiting thread. *)
FairSpec == Spec /\ WF_vars(GraphStep) /\ \A t \in Files : WF_vars(CallStep(t))

----------------------------------------
(* Properties. *)

Imported(f) == {imports[f][i] : i \in DOMAIN imports[f]} \cap Files

(* The files reachable from the main file within n imports, and all of
   them. *)
Within[n \in Nat] ==
  IF n = 0 THEN {Main}
           ELSE Within[n - 1] \cup UNION {Imported(f) : f \in Within[n - 1]}
Program == Within[Cardinality(Files)]

Labels == {"idle", "queued", "import", "locking", "lookup", "known", "create", "claim",
           "parse", "add", "link", "schedule", "unlock", "ok", "failed", "threw"}

(* Type correctness of the resolver's maps and of the calls. *)
TypeOK ==
  /\ imports \in [Files -> Seq(Files \cup {Core, Library})]
  /\ broken \subseteq Files
  /\ {namespace_map, dependency_map, dependency_node_map, open, postponed, next}
       \subseteq SUBSET Files
  /\ shared \subseteq Files \X Files /\ weak \subseteq Files \X Files
  /\ root \in [Files -> Files \cup {NoFile}]
  /\ pc \in [Files -> Labels] /\ left \in [Files -> Seq(Files \cup {Core, Library})]
  /\ phase \in {"open", "wave", "done", "failed", "crashed"}

(* The ASSERT in Parser::parse: a file is only ever parsed once, although
   any number of calls come upon it at the same time and test for it
   before they parse it. *)
ParsedOnce ==
  /\ \A t \in Files : pc[t] = "claim" => dep(t) \notin namespace_map
  /\ \A t, u \in Files :
       /\ {pc[t], pc[u]} \subseteq {"create", "claim", "parse", "add", "link", "schedule"}
       /\ dep(t) = dep(u)
       => t = u

(* Every file's imports are processed once at most: a file that waits for
   its wave has no edges yet. *)
ProcessedOnce ==
  \A f \in next \cup postponed \cup (IF phase = "open" THEN open ELSE {}) :
    \A g \in Files : <<f, g>> \notin shared \cup weak

(* Each file is parsed once and its imports are taken up once, whichever
   calls come upon it, at the same time or waves later. *)
EachFileOnce == ParsedOnce /\ ProcessedOnce

(* dependency_node_map.at(dep_hash) never throws, and a file is found
   without a node only if it is being parsed, or has failed to parse. *)
NodesFollowNamespaces ==
  /\ open \subseteq dependency_node_map
  /\ \A f \in namespace_map \ dependency_node_map :
       \/ f \in broken
       \/ \E t \in Files : pc[t] \in {"parse", "add", "link"} /\ dep(t) = f

(* Every node but the main one is owned by exactly one shared_ptr of
   another node, its root, whichever calls came upon it at the same time. *)
OneOwner ==
  /\ root[Main] = NoFile
  /\ shared = {<<root[f], f>> : f \in dependency_node_map \ {Main}}

(* The owners lead to the main file: no nodes own each other in a circle,
   which reference counting would never free and on which the recursion
   of get_dependency_graph_tips would not end. *)
Climb[n \in Nat] ==
  IF n = 0 THEN {Main} ELSE Climb[n - 1] \cup {f \in Files : root[f] \in Climb[n - 1]}
OwnersLeadToMain == dependency_node_map = Climb[Cardinality(Files)]

(* The shared_ptrs form a tree below the main file: one owner for every
   node, and no circle of owners. *)
OwnersFormATree == OneOwner /\ OwnersLeadToMain

(* What a successful return means: the nodes are exactly the files the
   program consists of, none of them broken, and every import of a file is
   an edge; there are no others. *)
GraphIsTheProgram ==
  phase = "done" =>
    /\ dependency_node_map = Program /\ Program \cap broken = {}
    /\ shared \cup weak = {e \in Program \X Program : e[2] \in Imported(e[1])}

(* The graph is sound at every step: each file is parsed once and gets one
   node with one owner, and a graph that is returned is the program's. *)
GraphIsSound ==
  TypeOK /\ EachFileOnce /\ NodesFollowNamespaces /\ OwnersFormATree /\ GraphIsTheProgram

(* Building the graph comes to an end, with circles among the imports too. *)
GraphIsBuilt == <>(phase \in {"done", "failed", "crashed"})

(* "nullop if creation failed": a failure is reported by the return value. *)
FailureIsReturned == phase # "crashed"

(* "A mutex for the `namespace_map` variable, to make accessing the
   `namespace_map` thread-safe": no call reads the map while another
   writes it. *)
NamespaceMapGuarded ==
  \A t, u \in Files : phase = "wave" => ~(pc[t] = "lookup" /\ pc[u] = "claim")
=============================================================================
