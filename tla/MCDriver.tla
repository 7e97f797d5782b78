------------------------------ MODULE MCDriver ------------------------------
(***************************************************************************)
(* A run of the compiler or the server, or the generation of a program's   *)
(* files, which the stages of module Driver have as one step.              *)
(***************************************************************************)
EXTENDS Driver, CodegenOrder, TLC

CONSTANTS file, a, b, c, d

VARIABLE part

MCItems == {file, a, b, c, d}

Way(serve, test, parallel) == [serve |-> serve, test |-> test, parallel |-> parallel]
AllModes == {Way(TRUE, FALSE, FALSE)} \cup {Way(FALSE, t, p) : t, p \in BOOLEAN}

(* Two stages that have items besides that of the main file. *)
Work2(s1, w1, s2, w2) ==
  s1 :> w1 @@ s2 :> w2 @@ "main file" :> <<file>> @@ "first wave" :> <<>> @@ "second wave" :> <<>>
  @@ "const data" :> <<>> @@ "data" :> <<>> @@ "objects" :> <<>> @@ "functions" :> <<>> @@ "tests" :> <<>>

Does(ofFile, ofA, ofB, ofC) == file :> ofFile @@ a :> ofA @@ b :> ofB @@ c :> ofC @@ d :> "plain"

Program(w, x, f, e, s) ==
  [work |-> w, does |-> x, fails |-> f, bad |-> e, fip |-> s, project |-> s]

(* One file behind the main file and two behind that one. *)
FilePrograms ==
  {Program(Work2("first wave", <<a>>, "second wave", <<b, c>>), Does(m, x, y, z), f, {}, "up") :
      m \in {"main", "plain"}, x \in {"plain", "import"}, y, z \in {"plain", "main", "import", "read"}, f \in {{}, {a}, {b}}}

(* Items of other stages, one behind the other and side by side. *)
OtherPrograms ==
  {Program(w, Does("main", "plain", "plain", "plain"), f, {}, "none") :
      w \in {Work2("const data", <<a>>, "data", <<b, c>>), Work2("const data", <<a, b>>, "objects", <<c, d>>)},
      f \in {{}, {a}, {b}, {c}, {d}, {b, c}}}

(* Functions, extern ones among them, and a test. *)
FunctionPrograms ==
  {Program(Work2("functions", <<a, b, c>>, "tests", <<d>>), Does("main", x, y, "extern"), f, {}, s) :
      x, y \in {"plain", "extern"}, f \in {{}, {a}, {b}, {c}, {d}}, s \in {"none", "idle", "mismatch", "up"}}

(* The main file imports a tag, has no main, or fails, and steps of the
   main thread fail. *)
MainPrograms ==
  {Program(Work2("first wave", <<a>>, "functions", <<b>>), Does(x, y, "extern", "plain"), f, e, s) :
      x \in {"main", "import"}, y \in {"main", "plain"}, f \in {{}, {file}, {b}},
      e \in {{}} \cup {{o} : o \in Outcomes}, s \in {"none", "mismatch", "up"}}

MCPrograms == FilePrograms \cup OtherPrograms \cup FunctionPrograms \cup MainPrograms

(* Projects with and without modules, files that fail, types that do. *)
MCDocuments ==
  {Program(Work2("first wave", <<a>>, "second wave", w), Does(o, x, y, "plain"), f, e, s) :
      w \in {<<>>, <<b>>}, o \in {"import", "main"}, x \in {"plain", "import", "main"}, y \in {"plain", "import"}, f \in {{}, {a}}, e \in {{}, {"types"}}, s \in {"none", "mismatch", "up"}}
  \cup {Program(Work2("const data", <<a>>, "functions", <<b, c>>), Does("main", "plain", x, "plain"), f, {}, s) :
      x \in {"plain", "extern"}, f \in {{}, {a}, {b}, {c}}, s \in {"none", "mismatch", "up"}}

MCEvery == MCPrograms \cup MCDocuments

----------------------------------------
(* Files in directories of their own, whose names differ. *)
OwnNames == {[f \in Files |-> f]}

(* Each part while the other one is looked at. *)
DriverIdle ==
  /\ mode = Way(FALSE, FALSE, FALSE) /\ requests = 0 /\ stage = "exit" /\ status = "1"
  /\ program = CHOOSE p \in MCPrograms : file \in p.fails
  /\ next = 0 /\ awaited = 0 /\ result = TRUE /\ here = NoItem /\ at = Fresh
  /\ waiting = <<>> /\ running = {} /\ done = {} /\ live = FALSE /\ main_function = FALSE
  /\ fip = Off /\ holder = NoItem /\ bindings = "absent" /\ asked = {} /\ said = {}
GenerationIdle ==
  /\ root = [f \in Files |-> IF f = Main THEN NoFile ELSE Main] /\ name \in OwnNames
  /\ tips = {} /\ todo = {} /\ new_tips = {} /\ added = {} /\ outcome = "failed" /\ generated = <<>>

MCInit ==
  \/ part = "driver" /\ DriverInit /\ GenerationIdle
  \/ part = "generation" /\ Init /\ DriverIdle

MCNext ==
  \/ part = "driver" /\ DriverNext /\ UNCHANGED <<part, vars>>
  \/ part = "generation" /\ Next /\ UNCHANGED <<part, driver_vars>>

MCSpec == MCInit /\ [][MCNext]_<<part, vars, driver_vars>> /\ DriverFairness /\ WF_vars(Step)

(* Both parts come to an end. *)
EverythingEnds == RunsEnd /\ GenerationEnds
=============================================================================
