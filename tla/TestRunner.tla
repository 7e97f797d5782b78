----------------------------- MODULE TestRunner -----------------------------
(***************************************************************************)
(* The program that `flintc --test` makes of the tests of a project: the   *)
(* functions visible_width, test.execute_test and main that                *)
(* generate_visible_width_function, generate_execute_test_function and     *)
(* generate_builtin_test emit (src/generator/generator_builtin.cpp), and   *)
(* what generate_test_function adds to each test.                          *)
(*                                                                         *)
(* A test has its annotations; when it runs it prints lines and returns    *)
(* whether it fails.  What is printed is captured in between; what the     *)
(* runner itself prints is written down as a sequence of entries.  A line  *)
(* of a test is a sequence of glyphs, each with its bytes.                 *)
(***************************************************************************)
EXTENDS Startup, SequencesExt

CONSTANTS
  Outputs,         (* bound: the lines that a test prints                  *)
  LongOutputs,     (* bound: those of a test that always shows its output  *)
  RunnerCareless   (* what tests do that the runner does not expect        *)

ASSUME RunnerAssumption ==
  RunnerCareless \subseteq {"captures", "stops", "loose escapes", "zero bytes", "broken characters", "wide characters"}

Annotations == {"test_performance", "test_should_fail", "test_output_always", "test_output_never"}

VARIABLES
  test_files,       (* the files that have tests, in the order of main          *)
  test,        (* the file and the test that run, as places                *)
  capturing_test,  (* whether the output is captured                       *)
  captured,    (* the lines that were captured                             *)
  terminal_log,    (* what arrived at the terminal                         *)
  test_fail,   (* what the test returned                                   *)
  counter,     (* how many tests have failed                               *)
  ran          (* the tests that have run, and what they did               *)

runner_vars == <<test_files, test, capturing_test, captured, terminal_log, test_fail, counter, ran>>

----------------------------------------
(* Glyphs: how wide they are on the terminal, and their bytes. *)

ESC == 27
Bracket == 91
Glyph(width, bytes) == [width |-> width, bytes |-> bytes]
Bytes(line) == FlattenSeq([i \in DOMAIN line |-> line[i].bytes])
TrueWidth(line) == FoldLeft(LAMBDA w, g : w + g.width, 0, line)

Expected(g) ==
  /\ g.bytes = <<0>> => "zero bytes" \in RunnerCareless
  /\ g.bytes[1] = ESC /\ (Len(g.bytes) = 1 \/ g.bytes[2] # Bracket) => "loose escapes" \in RunnerCareless
  /\ g.bytes[1] >= 128 /\ Len(g.bytes) = 1 => "broken characters" \in RunnerCareless
  /\ g.width > 1 => "wide characters" \in RunnerCareless

(* The length of a character from its first byte. *)
Advance(byte) ==
  CASE byte \div 32 = 6 -> 2
    [] byte \div 16 = 14 -> 3
    [] byte \div 8 = 30 -> 4
    [] OTHER -> 1

(* The end of a control sequence: its final byte, or the end of the text. *)
CsiExit(bytes, j) ==
  IF \E k \in j .. Len(bytes) : bytes[k] \in 64 .. 126
  THEN CHOOSE k \in j .. Len(bytes) : bytes[k] \in 64 .. 126 /\ \A l \in j .. k - 1 : bytes[l] \notin 64 .. 126
  ELSE Len(bytes) + 1

visible_width(bytes) ==
  LET count[i \in 1 .. Len(bytes) + 4] ==
        IF i > Len(bytes) THEN 0
        ELSE IF bytes[i] = ESC /\ i < Len(bytes) /\ bytes[i + 1] = Bracket THEN count[CsiExit(bytes, i + 2) + 1]
        ELSE 1 + count[i + Advance(bytes[i])]
  IN count[1]

----------------------------------------
(* The box around the output of a test: how wide its lines are in truth. *)

Largest(a, b) == IF a < b THEN b ELSE a
LongestLine(lines) == FoldLeft(LAMBDA w, l : Largest(w, visible_width(Bytes(l))), 0, lines)
OutputWidth(longest) == Largest(9, longest + 1)
Dashes(longest) == IF longest > 8 THEN longest - 8 ELSE 0

(* printf stops at a zero byte. *)
PrintedWidth(line) ==
  TrueWidth(IF \E i \in DOMAIN line : line[i].bytes = <<0>>
            THEN SubSeq(line, 1, (CHOOSE i \in DOMAIN line :
                                    line[i].bytes = <<0>> /\ \A j \in 1 .. i - 1 : line[j].bytes # <<0>>) - 1)
            ELSE line)
RowWidth(output_width, line) == 2 + PrintedWidth(line) + output_width - visible_width(Bytes(line))
Box(lines) ==
  LET longest == LongestLine(lines)
  IN [lines |-> lines,
      widths |-> {11 + Dashes(longest)} \union {RowWidth(OutputWidth(longest), lines[i]) : i \in DOMAIN lines}]

----------------------------------------
Entry(kind) == [kind |-> kind]
Prints(entry) == terminal_log' = Append(terminal_log, entry)

TestsOf(f) == SelectSeq(program.tests, LAMBDA t : t.file = f)
Current == TestsOf(test_files[test.file])[test.index]
Annotated(a) == a \in Current.annotations

RunnerInit ==
  /\ test_files = << >> /\ test = [file |-> 0, index |-> 0]
  /\ capturing_test = FALSE /\ captured = << >> /\ terminal_log = << >>
  /\ test_fail = FALSE /\ counter = 0 /\ ran = << >>

NoTests ==
  /\ phase = "heads" /\ program.form = "tests" /\ program.tests = << >>
  /\ Prints(Entry("no tests"))
  /\ phase' = "exit" /\ exit_code' = 0
  /\ UNCHANGED <<program, instances, heads, header, data, args_array, shared, outcome, report, freed_message,
                 test_files, test, capturing_test, captured, test_fail, counter, ran>>

(* The map of the tests is in no order; its files are sorted. *)
InAnyOrder == SetToSeqs({program.tests[i].file : i \in DOMAIN program.tests})
(* A mistake: the order of the map. *)
Unsorted(s) == s

Sorted(s) == SortSeq(s, <)

SortTests ==
  /\ phase = "files" /\ phase' = "file"
  /\ \E s \in InAnyOrder : test_files' = Sorted(s)
  /\ test' = [file |-> 1, index |-> 0]
  /\ UNCHANGED <<program, instances, heads, header, data, args_array, shared, outcome, report, freed_message,
                 exit_code, capturing_test, captured, terminal_log, test_fail, counter, ran>>

PrintFile ==
  /\ phase = "file"
  /\ Prints([kind |-> "file", file |-> test_files[test.file]])
  /\ test' = [test EXCEPT !.index = 1] /\ phase' = "prepare"
  /\ UNCHANGED <<program, instances, heads, header, data, args_array, shared, outcome, report, freed_message,
                 exit_code, test_files, capturing_test, captured, test_fail, counter, ran>>

(* The default frame of the test, found by the number that was computed
   from it again, and the beginning of the capture. *)
PrepareTest ==
  /\ phase = "prepare" /\ phase' = "run"
  /\ data' = [function |-> Current, thread_stack |-> "stack", fields |-> <<Zero>>]
  /\ capturing_test' = TRUE /\ captured' = << >>
  /\ UNCHANGED <<program, instances, heads, header, args_array, shared, outcome, report, freed_message,
                 exit_code, test_files, test, terminal_log, test_fail, counter, ran>>

MayPrint == IF Len(program.tests) = 1 /\ Current.annotations = {"test_output_always"} THEN LongOutputs ELSE Outputs

(* What a test does (external): it uses up its frame, prints and returns,
   or ends the capture before it prints its last line, or the program. *)
Endings == {"returns"} \union (RunnerCareless \intersect {"captures", "stops"})

RunTest(lines, fails, ending) ==
  /\ phase = "run" /\ phase' = IF ending = "stops" THEN "exit" ELSE "verdict"
  /\ exit_code' = IF ending = "stops" THEN 134 ELSE exit_code
  /\ \A i \in DOMAIN lines : \A j \in DOMAIN lines[i] : Expected(lines[i][j])
  /\ data' = [data EXCEPT !.fields = <<ResultIs(0)>>]
  /\ ran' = Append(ran, [test |-> Current, lines |-> lines, fails |-> fails, frame |-> data])
  /\ test_fail' = fails
  /\ IF ending = "captures" /\ lines # << >>
     THEN captured' = << >> /\ Prints([kind |-> "line", line |-> Last(lines)])
     ELSE captured' = lines /\ UNCHANGED terminal_log
  /\ capturing_test' = FALSE
  /\ UNCHANGED <<program, instances, heads, header, args_array, shared, outcome, report, freed_message,
                 test_files, test, counter>>

TestSucceeds == IF Annotated("test_should_fail") THEN test_fail ELSE ~test_fail

ShowsOutput == IF TestSucceeds THEN Annotated("test_output_always") ELSE ~Annotated("test_output_never")

PrintVerdict ==
  /\ phase = "verdict"
  /\ Prints([kind |-> IF TestSucceeds THEN "passed" ELSE "failed", name |-> Current.name])
  /\ phase' = IF ShowsOutput THEN "output" ELSE IF Annotated("test_performance") THEN "perf" ELSE "merge"
  /\ UNCHANGED <<program, instances, heads, header, data, args_array, shared, outcome, report, freed_message,
                 exit_code, test_files, test, capturing_test, captured, test_fail, counter, ran>>

PrintOutput ==
  /\ phase = "output"
  /\ Prints([kind |-> "box", box |-> Box(captured)])
  /\ phase' = IF Annotated("test_performance") THEN "perf" ELSE "merge"
  /\ UNCHANGED <<program, instances, heads, header, data, args_array, shared, outcome, report, freed_message,
                 exit_code, test_files, test, capturing_test, captured, test_fail, counter, ran>>

PrintPerf ==
  /\ phase = "perf" /\ phase' = "merge"
  /\ Prints(Entry("took"))
  /\ UNCHANGED <<program, instances, heads, header, data, args_array, shared, outcome, report, freed_message,
                 exit_code, test_files, test, capturing_test, captured, test_fail, counter, ran>>

(* The captured lines are freed. *)
NextTest ==
  /\ phase = "merge"
  /\ counter' = IF TestSucceeds THEN counter ELSE counter + 1
  /\ captured' = << >>
  /\ IF test.index < Len(TestsOf(test_files[test.file]))
     THEN test' = [test EXCEPT !.index = @ + 1] /\ phase' = "prepare"
     ELSE IF test.file < Len(test_files)
     THEN test' = [file |-> test.file + 1, index |-> 0] /\ phase' = "file"
     ELSE test' = test /\ phase' = "end"
  /\ UNCHANGED <<program, instances, heads, header, data, args_array, shared, outcome, report, freed_message,
                 exit_code, test_files, capturing_test, terminal_log, test_fail, ran>>

EndTests ==
  /\ phase = "end" /\ phase' = "exit"
  /\ Prints(IF counter = 0 THEN Entry("all passed") ELSE [kind |-> "tests failed", count |-> counter])
  /\ exit_code' = IF counter = 0 THEN 0 ELSE 1
  /\ UNCHANGED <<program, instances, heads, header, data, args_array, shared, outcome, report, freed_message,
                 test_files, test, capturing_test, captured, test_fail, counter, ran>>

RunnerNext ==
  \/ NoTests \/ SortTests \/ PrintFile \/ PrepareTest
  \/ phase = "run" /\ \E lines \in MayPrint, fails \in BOOLEAN, ending \in Endings : RunTest(lines, fails, ending)
  \/ PrintVerdict \/ PrintOutput \/ PrintPerf \/ NextTest \/ EndTests

ProgramInit == StartupInit /\ RunnerInit
ProgramNext ==
  \/ program.form = "main" /\ StartupNext /\ UNCHANGED runner_vars
  \/ program.form = "tests" /\ program.tests # << >> /\ StartupNext /\ UNCHANGED runner_vars
  \/ program.form = "tests" /\ RunnerNext
ProgramSpec == ProgramInit /\ [][ProgramNext]_<<startup_vars, runner_vars>>

----------------------------------------
(* What a reader of the report expects of it. *)

Behaves(r) == r.fails = ("test_should_fail" \in r.test.annotations)
Told(r) ==
  <<[kind |-> IF Behaves(r) THEN "passed" ELSE "failed", name |-> r.test.name]>>
  \o (IF IF Behaves(r) THEN "test_output_always" \in r.test.annotations
                       ELSE "test_output_never" \notin r.test.annotations
      THEN <<[kind |-> "box", box |-> r.lines]>> ELSE << >>)
  \o (IF "test_performance" \in r.test.annotations THEN <<Entry("took")>> ELSE << >>)
ToldOfFile(f) ==
  <<[kind |-> "file", file |-> f]>>
  \o FlattenSeq([i \in DOMAIN SelectSeq(ran, LAMBDA r : r.test.file = f) |->
                   Told(SelectSeq(ran, LAMBDA r : r.test.file = f)[i])])
Misbehaved == {i \in DOMAIN ran : ~Behaves(ran[i])}
Verdict ==
  IF Misbehaved = {} THEN Entry("all passed") ELSE [kind |-> "tests failed", count |-> Cardinality(Misbehaved)]
FilesInOrder == SortSeq(SetToSeq({program.tests[i].file : i \in DOMAIN program.tests}), <)
WholeReport == Append(FlattenSeq([i \in DOMAIN FilesInOrder |-> ToldOfFile(FilesInOrder[i])]), Verdict)
Content(e) == IF e.kind = "box" THEN [e EXCEPT !.box = e.box.lines] ELSE e

(* When the runner ends every test has run once, on a frame of its own
   that nothing had touched; the report has one verdict for each of them,
   below its file, that says whether it did what its annotations say, with
   all that this test printed and nothing of another one below it, if its
   annotations and the verdict ask for it; the program exits with 0
   exactly if no test misbehaved; and every box that was drawn around an
   output is straight, whatever colours and characters are in it. *)
RunnerTellsTheTruth ==
  /\ phase = "exit" /\ program.form = "tests" =>
       IF program.tests = << >> THEN exit_code = 0 /\ terminal_log = <<Entry("no tests")>>
       ELSE /\ {ran[i].test : i \in DOMAIN ran} = {program.tests[i] : i \in DOMAIN program.tests}
            /\ Len(ran) = Len(program.tests)
            /\ \A i \in DOMAIN ran :
                 ran[i].frame = [function |-> ran[i].test, thread_stack |-> "stack", fields |-> <<Zero>>]
            /\ [i \in DOMAIN terminal_log |-> Content(terminal_log[i])] = WholeReport
            /\ exit_code = IF Misbehaved = {} THEN 0 ELSE 1
  /\ \A i \in DOMAIN terminal_log :
       terminal_log[i].kind = "box" => Cardinality(terminal_log[i].box.widths) = 1
=============================================================================
