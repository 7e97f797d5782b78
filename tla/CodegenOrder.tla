---------------------------- MODULE CodegenOrder ----------------------------
(***************************************************************************)
(* In which order Generator::generate_program_ir generates the files of a  *)
(* program: waves of tips that climb the dependency graph from its leaves  *)
(* to the main file.  A tip's root becomes a tip of the next wave when all *)
(* that the root owns by a shared_ptr was generated or is a tip of this    *)
(* wave.                                                                   *)
(*                                                                         *)
(* The graph is what the resolver builds (OwnersFormATree of module        *)
(* Resolver): the shared_ptrs form a tree below the main file.             *)
(* Weak edges play no part.  Files are told apart by their hash in some    *)
(* places and by file_name, the last part of their path, in others.        *)
(***************************************************************************)
EXTENDS Naturals, Sequences, FiniteSets, Functions

CONSTANTS
  Files,     (* the files of the program                                   *)
  Main,      (* the file given on the command line                         *)
  NoFile,    (* the root of the main file: nullptr                         *)
  Namings    (* the assignments of file names considered                   *)

ASSUME CodegenAssumption ==
  /\ IsFiniteSet(Files) /\ Main \in Files /\ NoFile \notin Files
  /\ \A name \in Namings : DOMAIN name = Files

VARIABLES
  root,       (* the root of each file's node                              *)
  name,       (* the file_name of each file                                *)
  tips,       (* the tips of this wave                                     *)
  todo,       (* those the loop over the tips has still to come to         *)
  new_tips,   (* the tips of the next wave                                 *)
  added,      (* added_file_names                                          *)
  generated,  (* Resolver::generated_files, in order                       *)
  outcome     (* whether generate_program_ir is at it, done or has failed  *)

graph == <<root, name>>
vars  == <<graph, tips, todo, new_tips, added, generated, outcome>>

(* What the node of f owns by shared_ptr. *)
Owned(f) == {g \in Files : root[g] = f}

Tree(r) ==
  LET climb[n \in Nat] ==
        IF n = 0 THEN {Main} ELSE climb[n - 1] \cup {f \in Files : r[f] \in climb[n - 1]}
  IN  r[Main] = NoFile /\ climb[Cardinality(Files)] = Files

generated_files_contain(f) == f \in Range(generated)

(* get_dependency_graph_tips: the files that own no other. *)
Init ==
  /\ root \in {r \in [Files -> Files \cup {NoFile}] : Tree(r)}
  /\ name \in Namings
  /\ tips = {f \in Files : Owned(f) = {}}
  /\ todo = tips
  /\ new_tips = {} /\ added = {} /\ generated = <<>>
  /\ outcome = "running"

----------------------------------------
(* A mistake: the root's other files are not looked at. *)
DependantsIgnored(r) == r \in Files

(* A mistake: the tips of this wave do not count as compiled. *)
DependantsGenerated(r) == \A g \in Owned(r) : generated_files_contain(g)

(* "The dependencies have been compiled already or will be compiled in
   this phase". *)
dependants_compiled(r) ==
  \A g \in Owned(r) : generated_files_contain(g) \/ name[g] \in {name[t] : t \in tips}

(* A mistake: the main file's missing root becomes a tip. *)
ClimbPastMain(f) ==
  /\ new_tips' = new_tips \cup {root[f]}
  /\ UNCHANGED added

(* The first half of the loop over the tips. *)
Climb(f) ==
  IF root[f] # NoFile /\ dependants_compiled(root[f]) /\ name[root[f]] \notin added
  THEN /\ new_tips' = new_tips \cup {root[f]}
       /\ added' = added \cup {name[root[f]]}
  ELSE UNCHANGED <<new_tips, added>>

(* One tip, whichever the loop is at: its root is considered, then the
   file is generated unless it was before. *)
Handle(f) ==
  /\ outcome = "running" /\ f \in todo
  /\ todo' = todo \ {f}
  /\ Climb(f)
  /\ generated' = IF generated_files_contain(f) THEN generated ELSE Append(generated, f)
  /\ UNCHANGED <<graph, tips, outcome>>

(* generate_file_ir fails, and so does the whole program. *)
GenerateFails(f) ==
  /\ outcome = "running" /\ f \in todo
  /\ ~generated_files_contain(f)
  /\ outcome' = "failed"
  /\ UNCHANGED <<graph, tips, todo, new_tips, added, generated>>

(* A mistake: the old tips are kept. *)
NextWaveAppended ==
  /\ outcome = "running" /\ tips # {} /\ todo = {}
  /\ tips' = tips \cup new_tips /\ todo' = tips'
  /\ new_tips' = {} /\ added' = {}
  /\ UNCHANGED <<graph, generated, outcome>>

(* The end of the loop over the tips. *)
NextWave ==
  /\ outcome = "running" /\ tips # {} /\ todo = {}
  /\ tips' = new_tips /\ todo' = new_tips
  /\ new_tips' = {} /\ added' = {}
  /\ UNCHANGED <<graph, generated, outcome>>

(* There are no tips left: the generation goes on behind the loop. *)
Finish ==
  /\ outcome = "running" /\ tips = {}
  /\ outcome' = "done"
  /\ UNCHANGED <<graph, tips, todo, new_tips, added, generated>>

Step == (\E f \in Files : Handle(f) \/ GenerateFails(f)) \/ NextWave \/ Finish

Ended == outcome # "running" /\ UNCHANGED vars

Next == Step \/ Ended

(* The loop runs on one thread and waits for nothing. *)
Spec == Init /\ [][Next]_vars /\ WF_vars(Step)

----------------------------------------
(* Type correctness. *)
TypeOK ==
  /\ root \in [Files -> Files \cup {NoFile}] /\ Tree(root)
  /\ name \in Namings
  /\ {tips, todo, new_tips} \subseteq SUBSET Files /\ todo \subseteq tips
  /\ added = {name[f] : f \in new_tips}
  /\ generated \in Seq(Files)
  /\ outcome \in {"running", "done", "failed"}

(* "Add the dependencies root only if all dependants of its root have been
   compiled": whichever order the waves handle their tips in, a file comes
   after everything it owns, directly or not, and comes once. *)
DependenciesFirst ==
  \A i \in DOMAIN generated :
    LET before == {generated[j] : j \in 1 .. i - 1}
    IN  Owned(generated[i]) \subseteq before /\ generated[i] \notin before

(* "Generates the llvm IR code for a complete program": climbing does not
   get stuck below a file, however deep its branches are, so the tips only
   run out when every file was generated. *)
EveryFileIsGenerated == outcome = "done" => Range(generated) = Files

(* The order in which files are generated is sound and complete. *)
OrderIsSound == TypeOK /\ DependenciesFirst /\ EveryFileIsGenerated

(* The waves come to an end. *)
GenerationEnds == <>(outcome # "running")
=============================================================================
