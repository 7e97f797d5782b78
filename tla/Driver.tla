------------------------------- MODULE Driver -------------------------------
(***************************************************************************)
(* How a program goes through the compiler, or again and again through the *)
(* language server: main() and LspServer::parse_program lead it from stage *)
(* to stage; a stage hands its items (files, data modules, objects,        *)
(* functions, tests) to the thread pool, or handles them itself; and items *)
(* that import a module tag or declare an extern function start, share and *)
(* use one session of the Flint Interop Protocol.                          *)
(*                                                                         *)
(* What happens within an item is abstracted to whether it fails; the      *)
(* thread pool is the service TaskPool that module ThreadPool implements.  *)
(* Of the dependency graph only its waves are kept: module Resolver has    *)
(* the rest.                                                               *)
(***************************************************************************)
EXTENDS Naturals, Sequences, FiniteSets

CONSTANTS
  Items,      (* what the stages of a program handle                       *)
  NoItem,
  Width,      (* the threads of the pool                                   *)
  Modes,      (* the ways to run: a record of serve, test, parallel        *)
  Programs,   (* the programs: a record, see IsProgram                     *)
  Documents,  (* those of them that a language server gets                 *)
  Requests,   (* how many requests a language server gets                  *)
  DriverCareless  (* which of the mistakes of Careful programs may show    *)

(* The stages that have items. *)
Stages == <<"main file", "first wave", "second wave", "const data", "data",
            "objects", "functions", "tests">>
Waves  == {"first wave", "second wave"}

Outcomes == {"types", "analysis", "generation", "linking"}

(* work: the items of each stage, in order; does: what is special about an
   item; fails: the items that fail, and bad the steps of the main thread
   that do; fip: what FIP::init finds for the project the program is in:
   no directory .fip, no module enabled, modules of another version, or
   modules that come up.  project tells projects apart.  An item is in one
   place; main is defined and tags are imported by files, and the others
   are where extern functions are. *)
IsProgram(p) ==
  /\ \A s \in DOMAIN Stages : p.work[Stages[s]] \in Seq(Items)
  /\ \A r, s \in DOMAIN Stages :
       \A m \in DOMAIN p.work[Stages[r]], n \in DOMAIN p.work[Stages[s]] :
          p.work[Stages[r]][m] = p.work[Stages[s]][n] => r = s /\ m = n
  /\ Len(p.work["main file"]) = 1
  /\ p.does \in [Items -> {"plain", "main", "import", "read", "extern"}]
  /\ \A s \in DOMAIN Stages : \A n \in DOMAIN p.work[Stages[s]] :
       p.does[p.work[Stages[s]][n]] \in
         IF s <= 3 THEN {"plain", "main", "import", "read"} ELSE {"plain", "extern"}
  /\ p.fails \subseteq Items /\ p.bad \subseteq Outcomes
  /\ p.fip \in {"none", "idle", "mismatch", "up"} /\ p.project # NoItem

DriverAssumption ==
  /\ IsFiniteSet(Items) /\ NoItem \notin Items /\ Width \in Nat \ {0} /\ Requests \in Nat
  /\ \A m \in Modes : {m.serve, m.test, m.parallel} \subseteq BOOLEAN
  /\ Documents \subseteq Programs /\ \A p \in Programs : IsProgram(p)
ASSUME DriverAssumption

VARIABLES
  mode, program,    (* what runs, and how                                  *)
  stage,            (* where the main thread is                            *)
  next, awaited,    (* the items of the stage it has handed out, waited for*)
  result,           (* the `result` of the stage                           *)
  here,             (* the item the main thread is at itself               *)
  at,               (* how far each item is                                *)
  waiting, running, done,  (* the pool's                                   *)
  live,             (* whether Parser::instances has parsers               *)
  main_function,    (* whether Parser::main_function is set                *)
  fip,              (* FIP: is_active, and the modules' session            *)
  holder,           (* the item that has FIP's mutex                       *)
  bindings,         (* the generated file of the module tag                *)
  asked,            (* the items the modules were asked about              *)
  said,             (* the items of which ErrExternFnNotFound was said     *)
  status,           (* the exit status of the process                      *)
  requests          (* the requests that are still to come                 *)

Pool == INSTANCE TaskPool WITH Tasks <- Items, phase <- "open"

pool    == <<waiting, running, done>>
thread  == <<stage, next, awaited, result, here>>
session == <<fip, holder, bindings, asked, said>>
whole   == <<mode, program, requests>>
driver_vars == <<whole, thread, at, pool, live, main_function, session, status>>

Off == [active |-> FALSE, modules |-> "off", of |-> NoItem]

Asks(p)   == {i \in Items : p.does[i] \in {"import", "extern"}}
ItemsOf(p, s) == {p.work[s][n] : n \in DOMAIN p.work[s]}
Verdicts  == {"good", "bad", "torn"}
Busy      == {"queued", "running", "defining", "starting", "asking", "writing", "reporting"}

(* parse_all_open_functions of the language server takes the functions of
   one file only, and its programs have no tests. *)
Work(s) == IF mode.serve /\ s = "tests" THEN <<>> ELSE program.work[s]

(* A mistake: the waves stop at the first failure, too. *)
ShortAlways(s) == s \in {Stages[n] : n \in DOMAIN Stages}

(* The stages that stop at the first failure. *)
Short(s) == s \notin Waves

----------------------------------------
(* The items that fail, with those that cannot use the session. *)
Failing(p) == p.fails \cup (IF p.fip = "up" THEN {} ELSE Asks(p))

(* What the programs of a run are spared, by name; see the README. *)
Careful(m, p) ==
  (* In parallel, an item fails though others are handed out after it. *)
  /\ \/ "early return" \in DriverCareless \/ ~m.parallel
     \/ \A s \in {"const data", "data", "objects", "functions", "tests"} :
          \A n \in DOMAIN p.work[s] : p.work[s][n] \in Failing(p) =>
            n = Len(p.work[s]) /\ (s = "const data" => p.work["data"] = <<>>)
  (* Two files of a wave define main. *)
  /\ \/ "two mains" \in DriverCareless \/ ~m.parallel
     \/ \A s \in Waves : Cardinality({i \in ItemsOf(p, s) : p.does[i] = "main"}) <= 1
  (* Modules of another version are used by more than one import. *)
  /\ \/ "mismatch" \in DriverCareless \/ p.fip # "mismatch"
     \/ /\ \A i \in Items : p.does[i] # "extern"
        /\ \A s \in Waves : Cardinality(ItemsOf(p, s) \cap Asks(p)) <= 1
  (* A tag is imported again where its file is parsed. *)
  /\ \/ "rewritten" \in DriverCareless \/ ~m.parallel
     \/ \A s \in Waves : ~ \E i, j \in ItemsOf(p, s) : p.does[i] = "import" /\ p.does[j] = "read"
  (* The server leaves a session behind. *)
  /\ \/ "left open" \in DriverCareless \/ ~m.serve \/ "types" \notin p.bad
     \/ \A s \in Waves \cup {"main file"} : \A i \in ItemsOf(p, s) : p.does[i] # "import"
  (* The server goes on without the files behind one that failed. *)
  /\ \/ "graph" \in DriverCareless \/ ~m.serve
     \/ /\ ItemsOf(p, "first wave") \cap Failing(p) = {}
        /\ Cardinality({i \in ItemsOf(p, "main file") \cup ItemsOf(p, "first wave") :
                          p.does[i] = "main"}) <= 1
     \/ p.work["second wave"] = <<>>

Fresh == [i \in Items |-> "open"]

DriverInit ==
  /\ mode \in Modes
  /\ program \in {p \in (IF mode.serve THEN Documents ELSE Programs) : Careful(mode, p)}
  /\ requests = IF mode.serve THEN Requests ELSE 0
  /\ stage = "main file" /\ next = 0 /\ awaited = 0 /\ result = TRUE /\ here = NoItem
  /\ at = Fresh
  /\ waiting = <<>> /\ running = {} /\ done = {}
  /\ live = TRUE /\ main_function = FALSE
  /\ fip = Off /\ holder = NoItem /\ bindings = "absent" /\ asked = {} /\ said = {}
  /\ status = "none"

----------------------------------------
(* An item *)

Reaches(i, where) == at' = [at EXCEPT ![i] = where]

(* Its future gets its result. *)
End(i, verdict) ==
  /\ Reaches(i, verdict)
  /\ IF i \in running THEN Pool!Complete(i) ELSE UNCHANGED pool

VerdictOf(i) == IF i \in program.fails THEN "bad" ELSE "good"

Running(i) == status = "none" /\ at[i] = "running"

(* A worker takes the next task. *)
PickUp ==
  /\ status = "none" /\ Pool!Start
  /\ Reaches(Head(waiting), "running")
  /\ UNCHANGED <<whole, thread, live, main_function, session, status>>

(* Parsing of its own, from an item's start to its end. *)
Parse(i) ==
  /\ Running(i) /\ program.does[i] = "plain"
  /\ End(i, VerdictOf(i))
  /\ UNCHANGED <<whole, thread, live, main_function, session, status>>

(* The item parses the file of a module tag. *)
ParseBindings(i) ==
  /\ Running(i) /\ program.does[i] = "read"
  /\ End(i, IF bindings = "cut" THEN "torn" ELSE VerdictOf(i))
  /\ UNCHANGED <<whole, thread, live, main_function, session, status>>

(* create_function looks whether there is a main function already. *)
FindMain(i) ==
  /\ Running(i) /\ program.does[i] = "main"
  /\ IF main_function THEN End(i, "bad") ELSE Reaches(i, "defining") /\ UNCHANGED pool
  /\ UNCHANGED <<whole, thread, live, main_function, session, status>>

(* FileNode::add_function asserts that there is none, and stores its own. *)
StoreMain(i) ==
  /\ status = "none" /\ at[i] = "defining"
  /\ main_function' = TRUE
  /\ IF main_function
     THEN status' = "crashed" /\ UNCHANGED <<at, pool>>
     ELSE End(i, VerdictOf(i)) /\ UNCHANGED status
  /\ UNCHANGED <<whole, thread, live, session>>

----------------------------------------
(* The session, under its mutex *)

(* A mistake: the mutex is not taken when the session runs. *)
EnterUnlocked(i) ==
  /\ Running(i) /\ i \in Asks(program)
  /\ holder' = i
  /\ fip' = [fip EXCEPT !.active = TRUE]
  /\ Reaches(i, IF fip.active THEN "asking" ELSE "starting")
  /\ UNCHANGED <<whole, thread, pool, live, main_function, bindings, asked, said, status>>

(* resolve_function and resolve_module_import, and the start of init. *)
Enter(i) ==
  /\ Running(i) /\ i \in Asks(program)
  /\ holder = NoItem /\ holder' = i
  /\ fip' = [fip EXCEPT !.active = TRUE]
  /\ Reaches(i, IF fip.active THEN "asking" ELSE "starting")
  /\ UNCHANGED <<whole, thread, pool, live, main_function, bindings, asked, said, status>>

(* An extern function that was not resolved is reported by the caller. *)
TurnedDown(i) ==
  IF program.does[i] = "extern" THEN Reaches(i, "reporting") /\ UNCHANGED pool
  ELSE End(i, "bad")

(* The rest of init.  The modules are spawned before their versions are
   looked at, and is_active stays when one is wrong. *)
init(i) ==
  /\ status = "none" /\ at[i] = "starting"
  /\ CASE program.fip \in {"none", "idle"} ->
            fip' = Off /\ holder' = NoItem /\ TurnedDown(i)
       [] program.fip = "mismatch" ->
            /\ fip' = [active |-> TRUE, modules |-> "mismatch", of |-> program.project]
            /\ holder' = NoItem /\ TurnedDown(i)
       [] OTHER ->
            /\ fip' = [active |-> TRUE, modules |-> "up", of |-> program.project]
            /\ Reaches(i, "asking") /\ UNCHANGED <<holder, pool>>
  /\ UNCHANGED <<whole, thread, live, main_function, bindings, asked, said, status>>

(* The modules answer.  Either way the path of .fip was looked up again,
   for this program, and taken for granted. *)
Request(i) ==
  /\ status = "none" /\ at[i] = "asking"
  /\ asked' = asked \cup {i}
  /\ CASE program.fip = "none" ->
            status' = "crashed" /\ UNCHANGED <<at, pool, holder, bindings>>
       [] program.fip # "none" /\ i \in program.fails ->
            holder' = NoItem /\ TurnedDown(i) /\ UNCHANGED <<status, bindings>>
       [] program.fip # "none" /\ i \notin program.fails /\ program.does[i] = "extern" ->
            holder' = NoItem /\ End(i, "good") /\ UNCHANGED <<status, bindings>>
       [] OTHER ->
            bindings' = "cut" /\ Reaches(i, "writing") /\ UNCHANGED <<status, pool, holder>>
  /\ UNCHANGED <<whole, thread, live, main_function, fip, said>>

generate_bindings_file(i) ==
  /\ status = "none" /\ at[i] = "writing"
  /\ bindings' = "whole" /\ holder' = NoItem
  /\ End(i, "good")
  /\ UNCHANGED <<whole, thread, live, main_function, fip, asked, said, status>>

(* parse_open_function asks, without the mutex, whether the session is
   active, to tell a function not found from a session not started. *)
Report(i) ==
  /\ status = "none" /\ at[i] = "reporting"
  /\ said' = IF fip.active THEN said \cup {i} ELSE said
  /\ End(i, "bad")
  /\ UNCHANGED <<whole, thread, live, main_function, fip, holder, bindings, asked, status>>

ItemStep(i) ==
  \/ Parse(i) \/ ParseBindings(i) \/ FindMain(i) \/ StoreMain(i)
  \/ Enter(i) \/ init(i) \/ Request(i) \/ generate_bindings_file(i) \/ Report(i)

----------------------------------------
(* The main thread *)

(* The main file is parsed by the thread itself. *)
InParallel == mode.parallel /\ stage # "main file"

AtWork == status = "none" /\ stage \in {Stages[s] : s \in DOMAIN Stages}

(* thread_pool.enqueue. *)
HandOut ==
  /\ AtWork /\ InParallel /\ next < Len(Work(stage))
  /\ LET i == Work(stage)[next + 1] IN Pool!Submit(i) /\ Reaches(i, "queued")
  /\ next' = next + 1
  /\ UNCHANGED <<whole, stage, awaited, result, here, live, main_function, session, status>>

(* `result = result && future.get()`: a wave asks all its futures. *)
Get ==
  /\ AtWork /\ InParallel /\ next = Len(Work(stage)) /\ awaited < next
  /\ LET i == Work(stage)[awaited + 1]
     IN  /\ (Short(stage) /\ ~result) \/ at[i] \in Verdicts
         /\ result' = (result /\ at[i] # "bad")
  /\ awaited' = awaited + 1
  /\ UNCHANGED <<whole, stage, next, here, at, pool, live, main_function, session, status>>

(* One item after the other, none after a failure unless in a wave. *)
Take ==
  /\ AtWork /\ ~InParallel /\ next < Len(Work(stage)) /\ here = NoItem
  /\ IF Short(stage) /\ ~result
     THEN next' = Len(Work(stage)) /\ awaited' = next' /\ UNCHANGED <<here, at>>
     ELSE /\ here' = Work(stage)[next + 1]
          /\ Reaches(here', "running")
          /\ next' = next + 1 /\ UNCHANGED awaited
  /\ UNCHANGED <<whole, stage, result, pool, live, main_function, session, status>>

Put ==
  /\ AtWork /\ ~InParallel /\ here # NoItem /\ at[here] \in Verdicts
  /\ result' = (result /\ at[here] # "bad")
  /\ here' = NoItem /\ awaited' = awaited + 1
  /\ UNCHANGED <<whole, stage, next, at, pool, live, main_function, session, status>>

(* Where parse_program, of the compiler or of the server, goes when a
   stage has returned. *)
MissingMain == ~mode.serve /\ ~mode.test /\ ~main_function

(* resolve_all_imports finds the namespace of every file that is imported. *)
Imported == {i \in ItemsOf(program, "first wave") \cup ItemsOf(program, "second wave") : at[i] = "open"}

(* Behind a wave that failed no other wave is begun. *)
AfterWave(s) ==
  IF ~result /\ ~mode.serve THEN "failed"
  ELSE IF result /\ s = "first wave" THEN "second wave"
  ELSE IF MissingMain THEN "failed"
  ELSE IF Imported # {} THEN "crash"
  ELSE IF "types" \in program.bad THEN (IF mode.serve THEN "left" ELSE "failed")
  ELSE "const data"

After(s) ==
  CASE s \in Waves -> AfterWave(s)
    [] s = "const data" -> "data"
    [] s \notin Waves \cup {"const data"} /\ ~result -> "failed"
    [] s = "main file" /\ result -> "first wave"
    [] s = "data" /\ result -> "objects"
    [] s = "objects" /\ result -> "functions"
    [] s = "functions" /\ result -> IF mode.test THEN "tests" ELSE "analysis"
    [] s = "tests" /\ result -> "analysis"

(* A mistake: every stage begins with a clean result. *)
NextStageForgetful ==
  /\ AtWork /\ next = Len(Work(stage)) /\ awaited = next /\ here = NoItem
  /\ After(stage) # "crash"
  /\ stage' = IF mode.serve /\ After(stage) \in {"analysis", "failed"} THEN "cleanup" ELSE After(stage)
  /\ next' = 0 /\ awaited' = 0 /\ result' = TRUE
  /\ UNCHANGED <<whole, here, at, pool, live, main_function, session, status>>

(* The stage is over.  The result of the constant data modules is carried
   on to the other data modules; the server ignores that of the waves. *)
NextStage ==
  /\ AtWork /\ next = Len(Work(stage)) /\ awaited = next /\ here = NoItem
  /\ LET s == After(stage)
     IN  IF s = "crash" THEN status' = "crashed" /\ UNCHANGED stage
         ELSE /\ stage' = IF mode.serve /\ s \in {"analysis", "failed"} THEN "cleanup" ELSE s
              /\ UNCHANGED status
  /\ next' = 0 /\ awaited' = 0
  /\ result' = (stage = "const data" => result)
  /\ UNCHANGED <<whole, here, at, pool, live, main_function, session>>

MainStep(from, to) ==
  /\ status = "none" /\ stage = from /\ stage' = to
  /\ UNCHANGED <<whole, next, awaited, result, here, at, pool>>

(* Analyzer::analyze_file, for each parser. *)
Analyze ==
  /\ MainStep("analysis", IF "analysis" \in program.bad THEN "failed" ELSE "generation")
  /\ UNCHANGED <<live, main_function, session, status>>

(* send_compile_request and generate_program_ir. *)
Generate ==
  /\ MainStep("generation", IF "generation" \in program.bad THEN "failed" ELSE "linking")
  /\ live' = ("generation" \in program.bad)
  /\ main_function' = (main_function /\ live')
  /\ UNCHANGED <<session, status>>

(* compile_program, with the objects of the modules. *)
Link ==
  /\ MainStep("linking", IF "linking" \in program.bad THEN "shutdown 1" ELSE "shutdown 0")
  /\ UNCHANGED <<live, main_function, session, status>>

(* main returns 1: clear_instances. *)
ClearInstances ==
  /\ MainStep("failed", "shutdown 1")
  /\ live' = FALSE /\ main_function' = FALSE
  /\ UNCHANGED <<session, status>>

(* FIP::shutdown, without the mutex, by main and by parser_cleanup. *)
Shutdown ==
  /\ \/ MainStep("shutdown 0", "exit") /\ status' = "0"
     \/ MainStep("shutdown 1", "exit") /\ status' = "1"
     \/ MainStep("cleanup", "idle") /\ UNCHANGED status
  /\ fip' = Off
  /\ UNCHANGED <<live, main_function, holder, bindings, asked, said>>

(* The server's types could not be resolved: it returns as it is. *)
Leave ==
  /\ MainStep("left", "idle")
  /\ UNCHANGED <<live, main_function, session, status>>

(* The next request: everything is cleared but the session. *)
Serve ==
  /\ status = "none" /\ stage = "idle" /\ requests > 0
  /\ requests' = requests - 1
  /\ program' \in {p \in Documents : Careful(mode, p)}
  /\ stage' = "main file" /\ next' = 0 /\ awaited' = 0 /\ result' = TRUE
  /\ at' = Fresh /\ live' = TRUE /\ main_function' = FALSE
  /\ done' = {} /\ asked' = {} /\ said' = {}
  /\ UNCHANGED <<mode, here, waiting, running, fip, holder, bindings, status>>

ThreadStep ==
  \/ HandOut \/ Get \/ Take \/ Put \/ NextStage
  \/ Analyze \/ Generate \/ Link \/ ClearInstances \/ Shutdown \/ Leave

(* The process has ended, or the server waits for a request. *)
DriverEnded ==
  /\ status # "none" \/ (stage = "idle" /\ requests = 0)
  /\ UNCHANGED driver_vars

DriverNext == PickUp \/ ThreadStep \/ Serve \/ (\E i \in Items : ItemStep(i)) \/ DriverEnded

(* Threads that can go on do, and the modules answer. *)
DriverFairness == WF_driver_vars(PickUp) /\ WF_driver_vars(ThreadStep)
                  /\ \A i \in Items : WF_driver_vars(ItemStep(i))

DriverSpec == DriverInit /\ [][DriverNext]_driver_vars /\ DriverFairness

----------------------------------------
(* Type correctness. *)
DriverTypeOK ==
  /\ mode \in Modes /\ requests \in 0 .. Requests
  /\ next \in 0 .. Cardinality(Items) /\ awaited \in 0 .. next /\ result \in BOOLEAN
  /\ {here, holder} \subseteq Items \cup {NoItem}
  /\ at \in [Items -> {"open"} \cup Busy \cup Verdicts]
  /\ running \subseteq {i \in Items : at[i] \in Busy}
  /\ \A n \in DOMAIN waiting : at[waiting[n]] = "queued"
  /\ bindings \in {"absent", "cut", "whole"} /\ asked \subseteq Items /\ said \subseteq Items
  /\ status \in {"none", "0", "1", "crashed"}

(* clear_instances destroys the parsers that every task has a reference
   to: no task may still be queued or at work by then. *)
TasksDieFirst == ~live => \A i \in Items : at[i] \notin Busy

(* "Parse all const data first, then parse the non-const data", and so on:
   an item is only at work in its own stage, when all the items of the
   stages before it have succeeded, the waves of a server aside. *)
StagesFollow ==
  LET position(i) == CHOOSE s \in DOMAIN Stages : i \in ItemsOf(program, Stages[s])
  IN  \A i \in Items : at[i] \in Busy \ {"queued"} =>
        /\ stage = Stages[position(i)]
        /\ \A j \in Items : at[j] # "open" /\ position(j) < position(i) =>
             \/ at[j] = "good"
             \/ mode.serve /\ Stages[position(j)] \in Waves

(* The parallel stages of a program respect the lifetime of its parsers
   and the order of the stages. *)
StagesAreSound == DriverTypeOK /\ TasksDieFirst /\ StagesFollow

(* One item at a time uses the session; only modules that came up in the
   right version are asked, and only those of the program's own project;
   no file is parsed while it is written; and no modules are left running
   when the compiler exits or the server waits. *)
SessionsAreSound ==
  /\ \A i \in Items : at[i] \in {"starting", "asking", "writing"} => holder = i
  /\ \A i \in Items : at[i] = "asking" => fip.modules = "up" /\ fip.of = program.project
  /\ \A i \in Items : at[i] # "torn"
  /\ (status \in {"0", "1"} \/ stage = "idle") => fip = Off

(* Whatever order the items were handled in, the compiler returns 0 just
   when nothing of the program fails, nothing is left unhandled then, it
   does not crash, and an extern function is said not to be found only
   when the modules were asked for it. *)
StatusTellsTheTruth ==
  LET due == UNION {ItemsOf(program, Stages[s]) : s \in
               {s \in DOMAIN Stages : Stages[s] = "tests" => mode.test}}
      mains == {i \in due : program.does[i] = "main"}
      ailing == \/ due \cap Failing(program) # {} \/ program.bad # {}
                \/ (~mode.test /\ mains = {}) \/ Cardinality(mains) > 1
  IN  /\ status # "crashed"
      /\ status = "0" => ~ailing /\ \A i \in due : at[i] = "good"
      /\ status = "1" => ailing
      /\ said \subseteq asked

(* The compiler exits, and the server comes to wait for each request. *)
RunsEnd ==
  /\ ~mode.serve => <>(status # "none")
  /\ stage # "idle" ~> (stage = "idle" \/ status # "none")
=============================================================================
