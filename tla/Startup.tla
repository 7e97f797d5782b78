------------------------------ MODULE Startup ------------------------------
(***************************************************************************)
(* What a compiled program does before and after main: the C function main *)
(* that generate_builtin_main emits (src/generator/generator_builtin.cpp), *)
(* with the thread stack it sets up, the arguments it takes over and the   *)
(* shared data it initializes.  A program of tests begins the same way:    *)
(* TestRunner goes on from there.                                          *)
(*                                                                         *)
(* A program is a record: its form ("main" or "tests"), the fields of its  *)
(* shared data, for main the arguments it is called with and whether it    *)
(* takes and returns anything, and otherwise its tests.  Files are numbers *)
(* in the order of their relative paths.                                   *)
(***************************************************************************)
EXTENDS Naturals, Sequences, FiniteSets

CONSTANTS
  Programs,          (* bound: the programs that are started               *)
  Results,           (* bound: what main returns                           *)
  Capacity,          (* TS_DATA_SIZE                                       *)
  StartupCareless    (* what shared data does that depends on its order    *)

(* Fields have names of their own, and an initializer reads one of them. *)
IsStarted(p) ==
  /\ p.form \in {"main", "tests"} /\ p.takes_args \in BOOLEAN /\ p.returns \in BOOLEAN
  /\ DOMAIN p.fields = 1 .. Len(p.fields) /\ Len(p.fields) \in Nat
  /\ \A i, j \in DOMAIN p.fields : p.fields[i].name = p.fields[j].name => i = j
  /\ \A i \in DOMAIN p.fields :
       /\ p.fields[i].init.kind \in {"none", "number", "text", "reads"}
       /\ p.fields[i].init.kind = "reads" => \E j \in DOMAIN p.fields : p.fields[j].name = p.fields[i].init.name

ASSUME StartupAssumption ==
  /\ \A p \in Programs : IsStarted(p)
  /\ Capacity \in Nat \ {0}
  /\ StartupCareless \subseteq {"reads another file", "reads a text", "reads what comes later"}

VARIABLES
  program,      (* the program                                             *)
  phase,        (* the part of main that comes next                        *)
  instances,    (* the files in the order in which they were parsed        *)
  heads,        (* whether DIMA has its heads                              *)
  header,       (* the head of the thread stack                            *)
  data,         (* what is at the beginning of its data section            *)
  args_array,   (* the array of the arguments                              *)
  shared,       (* the values of the fields of the shared data             *)
  outcome,      (* what main ended with                                    *)
  report,       (* what was printed about the error main ended with        *)
  freed_message,  (* how often its message was freed                       *)
  exit_code

startup_vars ==
  <<program, phase, instances, heads, header, data, args_array, shared, outcome, report, freed_message, exit_code>>

NotSet == "not set"
TS_FLAG_FREE == 0
TS_FLAG_USED == 2

(* An initializer: none, a number, a literal of a text, or another field. *)
Field(file, name, init) == [file |-> file, name |-> name, init |-> init]
NoInit == [kind |-> "none"]
NumberOf(n) == [kind |-> "number", value |-> n]
TextLiteral(t) == [kind |-> "text", value |-> t]
Reads(name) == [kind |-> "reads", name |-> name]

Fields(p) == {p.fields[i] : i \in DOMAIN p.fields}
FieldOf(p, name) == CHOOSE f \in Fields(p) : f.name = name
PlaceOf(p, name) == CHOOSE i \in DOMAIN p.fields : p.fields[i].name = name

(* The fields that a field of a program may read. *)
MayRead(p, f, g) ==
  /\ f.file = g.file \/ "reads another file" \in StartupCareless
  /\ g.init.kind # "text" \/ "reads a text" \in StartupCareless
  /\ PlaceOf(p, g.name) < PlaceOf(p, f.name) \/ "reads what comes later" \in StartupCareless
Careful(p) == \A f \in Fields(p) : f.init.kind = "reads" => MayRead(p, f, FieldOf(p, f.init.name))

Orders(files) == {s \in [1 .. Cardinality(files) -> files] : \A i, j \in DOMAIN s : s[i] = s[j] => i = j}

StartupInit ==
  /\ program \in {p \in Programs : Careful(p)}
  /\ instances \in Orders({f.file : f \in Fields(program)})
  /\ phase = "heads"
  /\ heads = FALSE
  /\ header = [capacity |-> NotSet, thread_id |-> NotSet, flags |-> NotSet, stack_ptr |-> NotSet]
  /\ data = NotSet
  /\ args_array = NotSet
  /\ shared = [n \in {f.name : f \in Fields(program)} |-> 0]
  /\ outcome = NotSet
  /\ report = << >> /\ freed_message = 0
  /\ exit_code = NotSet

----------------------------------------
init_heads ==
  /\ phase = "heads" /\ phase' = "stack"
  /\ heads' = TRUE
  /\ UNCHANGED <<program, instances, header, data, args_array, shared, outcome, report, freed_message, exit_code>>

(* The thread stack is malloc'ed; its data section is as it comes. *)
MakeThreadStack ==
  /\ phase = "stack"
  /\ phase' = IF program.form = "main" /\ program.takes_args THEN "args" ELSE "globals"
  /\ header' = [capacity |-> Capacity, thread_id |-> 0, flags |-> TS_FLAG_USED, stack_ptr |-> "data"]
  /\ UNCHANGED <<program, instances, heads, data, args_array, shared, outcome, report, freed_message, exit_code>>

TakeArguments ==
  /\ phase = "args" /\ phase' = "globals"
  /\ args_array' = [dimensions |-> 1, length |-> Len(program.argv), strings |-> program.argv]
  /\ UNCHANGED <<program, instances, heads, header, data, shared, outcome, report, freed_message, exit_code>>

(* The pseudo frame that both callers let init_global_variables store over
   the head of the thread stack: they pass the stack and its data section
   the other way around.  The pointer of the frame is where the capacity
   was, the number of the function in the place of the number of the
   thread and the flags, and the error where the pointer into the data was. *)
PseudoFrameOver == [capacity |-> "data", thread_id |-> 0, flags |-> TS_FLAG_FREE, stack_ptr |-> "null"]

(* A text is made by init_str; a field that is read gives its own text. *)
Evaluated(values, f) ==
  CASE f.init.kind = "none" -> values[f.name]
    [] f.init.kind = "number" -> f.init.value
    [] f.init.kind = "text" -> [text |-> f.init.value, made_for |-> f.name]
    [] f.init.kind = "reads" -> values[f.init.name]

(* The fields of a file, in their order, and one file behind the other. *)
FileInitialized(file, values) ==
  LET after[i \in 0 .. Len(program.fields)] ==
        IF i = 0 THEN values
        ELSE IF program.fields[i].file # file THEN after[i - 1]
        ELSE [after[i - 1] EXCEPT ![program.fields[i].name] = Evaluated(after[i - 1], program.fields[i])]
  IN after[Len(program.fields)]
Initialized(values) ==
  LET after[k \in 0 .. Len(instances)] == IF k = 0 THEN values ELSE FileInitialized(instances[k], after[k - 1])
  IN after[Len(instances)]

(* Nothing is stored if there are no fields. *)
init_global_variables ==
  /\ phase = "globals"
  /\ phase' = IF program.form = "main" THEN "frame" ELSE "files"
  /\ header' = IF program.fields = << >> THEN header ELSE PseudoFrameOver
  /\ shared' = Initialized(shared)
  /\ UNCHANGED <<program, instances, heads, data, args_array, outcome, report, freed_message, exit_code>>

----------------------------------------
(* The frame of main: what every frame begins with, then what it returns,
   then its parameters. *)
FrameFields ==
  <<"function">> \o (IF program.returns THEN <<"ret">> ELSE << >>)
                 \o (IF program.takes_args THEN <<"args">> ELSE << >>)
Zero == [is |-> "zero"]
ArgumentsAre(array) == [is |-> "args", array |-> array]
ResultIs(ret) == [is |-> "ret", value |-> ret]
DefaultFrame(id) == [function |-> id, thread_stack |-> NotSet, fields |-> [i \in DOMAIN FrameFields |-> Zero]]

(* A mistake: the field behind the head of the frame, in all cases. *)
ArgsFieldInFront == 2

ArgsField == IF program.returns THEN 3 ELSE 2

StoreMainFrame ==
  /\ phase = "frame" /\ phase' = "call"
  /\ LET loaded == [DefaultFrame("main") EXCEPT !.thread_stack = "stack"]
     IN data' = IF program.takes_args THEN [loaded EXCEPT !.fields[ArgsField] = ArgumentsAre(args_array)] ELSE loaded
  /\ UNCHANGED <<program, instances, heads, header, args_array, shared, outcome, report, freed_message, exit_code>>

(* What the program's own main does (external). *)
CallMain(fails, ret) ==
  /\ phase = "call" /\ phase' = "catch"
  /\ outcome' = [fails |-> fails, ret |-> ret]
  /\ data' = IF program.returns /\ ~fails THEN [data EXCEPT !.fields[2] = ResultIs(ret)] ELSE data
  /\ UNCHANGED <<program, instances, heads, header, args_array, shared, report, freed_message, exit_code>>

(* The error is in the frame; its type and its value are looked up. *)
MainCatch ==
  /\ phase = "catch" /\ phase' = "exit"
  /\ IF outcome.fails
     THEN report' = <<"type", "value", "message">> /\ freed_message' = freed_message + 1 /\ exit_code' = 1
     ELSE exit_code' = (IF program.returns THEN data.fields[2].value ELSE 0) /\ UNCHANGED <<report, freed_message>>
  /\ UNCHANGED <<program, instances, heads, header, data, args_array, shared, outcome>>

StartupNext ==
  \/ init_heads \/ MakeThreadStack \/ TakeArguments \/ init_global_variables
  \/ StoreMainFrame \/ MainCatch
  \/ \E fails \in BOOLEAN, ret \in Results : CallMain(fails, ret)

----------------------------------------
(* What the capacity check of every call reads. *)
HeaderIsWhole == header = [capacity |-> Capacity, thread_id |-> 0, flags |-> TS_FLAG_USED, stack_ptr |-> "data"]

(* A field has the value of its initializer, whatever order the files were
   parsed in, and no text belongs to two of them. *)
ValueOf(f) ==
  CASE f.init.kind = "none" -> 0
    [] f.init.kind = "number" -> f.init.value
    [] f.init.kind = "text" -> [text |-> f.init.value, made_for |-> f.name]
    [] f.init.kind = "reads" ->
         LET g == FieldOf(program, f.init.name)
         IN IF g.init.kind = "text" THEN [text |-> g.init.value, made_for |-> f.name] ELSE shared[g.name]

(* When main is entered DIMA is ready, every field of the shared data has
   its value, and the first frame is that of main with all of its
   arguments in the field where main looks for them; without shared data
   the head of the thread stack is whole.  The program then exits with
   what main returned, or with 1, having told the error and freed its
   message, if it failed. *)
ProgramsStartWhole ==
  /\ phase \in {"frame", "files"} => \A f \in Fields(program) : shared[f.name] = ValueOf(f)
  /\ phase = "call" =>
       /\ heads
       /\ data.function = "main" /\ data.thread_stack = "stack"
       /\ \A i \in DOMAIN data.fields :
            data.fields[i] = IF FrameFields[i] = "args" THEN ArgumentsAre(args_array) ELSE Zero
       /\ program.takes_args => args_array.length = Len(program.argv) /\ args_array.strings = program.argv
       /\ program.fields = << >> => HeaderIsWhole
  /\ phase = "exit" /\ program.form = "main" =>
       /\ exit_code = IF outcome.fails THEN 1 ELSE IF program.returns THEN outcome.ret ELSE 0
       /\ freed_message = IF outcome.fails THEN 1 ELSE 0
       /\ (report # << >>) = outcome.fails
=============================================================================
