------------------------------ MODULE Console ------------------------------
(***************************************************************************)
(* What a compiled program does with its standard streams, with other      *)
(* programs and with its environment: the functions that                   *)
(* src/generator/module/core emits in generator_print.cpp,                 *)
(* generator_system.cpp, generator_env.cpp and generator_read.cpp.         *)
(*                                                                         *)
(* Output goes into the buffer of stdout, which the C library empties when *)
(* it likes, to where descriptor 1 points: the terminal or, between        *)
(* start_capture and end_capture, a temporary file.  Nothing in the        *)
(* runtime writes to stderr, which moves along with stdout.                *)
(***************************************************************************)
EXTENDS CText, FiniteSets

CONSTANTS
  NoCapture,         (* the NULL that capture_file is                      *)
  Unset,             (* what a variable is that does not exist             *)
  Names, Values,     (* bound: the names and values of variables           *)
  ExitCodes,         (* bound: with which commands exit                    *)
  InitialCap,        (* of the buffer of getline, 128 in the code          *)
  Memory,            (* the largest buffer that realloc returns            *)
  Uses,              (* bound: what programs use, each one of these        *)
  ConsoleCareless    (* what programs do that the functions do not expect  *)

ASSUME ConsoleAssumption ==
  /\ NoCapture \notin Texts /\ Unset \notin Values
  /\ ExitCodes \subseteq 0 .. 255 /\ Memory \in Nat
  /\ InitialCap \in Nat \ {0}
  /\ Uses \subseteq {"output", "commands", "variables", "input", "files"}
  /\ ConsoleCareless \subseteq {"capture one character", "commands that are killed", "zeros in names"}

VARIABLES
  use,           (* which of them the program uses                         *)
  call,          (* the function that was called last, and with what       *)
  at,            (* "idle", a step of the call, "returned", or how it ended *)
  result,        (* the error that was thrown, if any, and what it returned *)
  stdout_to,     (* where descriptor 1 points                              *)
  stdio,         (* the buffer of stdout                                   *)
  terminal,      (* what arrived at the terminal                           *)
  capture_file,  (* what arrived in the temporary file                     *)
  descriptors,   (* the copies of the descriptors 1 and 2 that are open    *)
  outside,       (* all that was printed while nothing was captured        *)
  inside,        (* all that was printed since the capture began           *)
  pipe,          (* what a command has still to say                        *)
  env,           (* the variables                                          *)
  stdin,         (* what is to come on stdin                               *)
  cap, buf,      (* the buffer of getline                                  *)
  given          (* the input when the call began                          *)

out == <<stdout_to, stdio, terminal, capture_file, descriptors, outside, inside>>
reader == <<stdin, cap, buf, given>>
calling == <<use, call, at, result>>
console_vars == <<calling, out, pipe, env, reader>>

Answer(err, text, ls, code) == [err |-> err, text |-> text, lines |-> ls, code |-> code]
NoAnswer == Answer("none", << >>, << >>, 0)
NoCall == [fn |-> "none"]

ConsoleInit ==
  /\ use \in Uses
  /\ call = NoCall /\ at = "idle" /\ result = NoAnswer
  /\ stdout_to = "terminal" /\ stdio = << >> /\ terminal = << >>
  /\ capture_file = NoCapture /\ descriptors = 0
  /\ outside = << >> /\ inside = << >>
  /\ pipe = << >>
  /\ env = [c \in {CString(n) : n \in Names} |-> Unset]
  /\ stdin \in IF use = "input" THEN Texts ELSE {<< >>}
  /\ cap = 0 /\ buf = << >> /\ given = << >>

Ready(part) == use = part /\ at \in {"idle", "returned"}
Returns(answer) == result' = answer /\ at' = "returned"
Called(c) == call' = c /\ UNCHANGED use

----------------------------------------
(* Output. *)

capturing == capture_file # NoCapture

(* The buffer is written to where descriptor 1 points. *)
Flushed ==
  IF stdout_to = "terminal"
  THEN [terminal |-> terminal \o stdio, capture_file |-> capture_file]
  ELSE [terminal |-> terminal, capture_file |-> capture_file \o stdio]

(* Bound: a program prints no more than a text, inside or outside. *)
print(text) ==
  /\ Ready("output")
  /\ Len(outside) + Len(inside) + Len(text) <= MaxText
  /\ Called([fn |-> "print"]) /\ Returns(NoAnswer)
  /\ stdio' = stdio \o text
  /\ IF capturing THEN inside' = inside \o text /\ UNCHANGED outside
     ELSE outside' = outside \o text /\ UNCHANGED inside
  /\ UNCHANGED <<stdout_to, terminal, capture_file, descriptors, pipe, env, reader>>

StdioFlushes ==
  /\ use = "output" /\ stdio # << >>
  /\ terminal' = Flushed.terminal /\ capture_file' = Flushed.capture_file
  /\ stdio' = << >>
  /\ UNCHANGED <<calling, stdout_to, descriptors, outside, inside, pipe, env, reader>>

StartAgain ==
  /\ Ready("output") /\ capturing
  /\ Called([fn |-> "start_capture"]) /\ Returns(NoAnswer)
  /\ UNCHANGED <<out, pipe, env, reader>>

(* Without a temporary file the copies of the descriptors are forgotten,
   not closed. *)
start_capture ==
  /\ Ready("output") /\ ~capturing
  /\ Called([fn |-> "start_capture"]) /\ Returns(NoAnswer)
  /\ terminal' = Flushed.terminal /\ stdio' = << >>
  /\ descriptors' = descriptors + 2
  /\ \E made \in IF "tmpfile" \in Fallible THEN BOOLEAN ELSE {TRUE} :
       IF made THEN capture_file' = << >> /\ stdout_to' = "capture" /\ inside' = << >>
       ELSE UNCHANGED <<capture_file, stdout_to, inside>>
  /\ UNCHANGED <<outside, pipe, env, reader>>

(* A mistake: descriptor 1 points to the terminal again when the buffer is
   emptied. *)
CapturedUnflushed == capture_file

Captured == Flushed.capture_file

(* The lines of what was captured: those that end, in the order in which
   they end, and the rest if the last line feed, or the first character if
   there is none, is not the last character. *)
IntoLines(text) ==
  LET ends == {i \in DOMAIN text : text[i] = NL}
      nth == [k \in 1 .. Cardinality(ends) |->
                CHOOSE i \in ends : Cardinality({j \in ends : j <= i}) = k]
      start(k) == IF k = 1 THEN 1 ELSE nth[k - 1] + 1
      last == IF ends = {} THEN 1 ELSE nth[Cardinality(ends)]
      whole == [k \in DOMAIN nth |-> SubSeq(text, start(k), nth[k] - 1)]
  IN IF last < Len(text) THEN Append(whole, After(text, IF ends = {} THEN 0 ELSE last))
     ELSE whole

EndCapture(fn, answer) ==
  /\ Ready("output") /\ capturing
  /\ Called([fn |-> fn]) /\ Returns(answer)
  /\ stdio' = << >> /\ stdout_to' = "terminal"
  /\ capture_file' = NoCapture
  /\ descriptors' = descriptors - 2
  /\ UNCHANGED <<terminal, outside, inside, pipe, env, reader>>

end_capture == EndCapture("end_capture", Answer("none", Captured, << >>, 0))

end_capture_lines ==
  /\ Len(inside) = 1 /\ inside # <<NL>> => "capture one character" \in ConsoleCareless
  /\ EndCapture("end_capture_lines", Answer("none", << >>, IntoLines(Captured), 0))

EndNothing ==
  /\ Ready("output") /\ ~capturing
  /\ Called([fn |-> "end_nothing"]) /\ Returns(NoAnswer)
  /\ UNCHANGED <<out, pipe, env, reader>>

----------------------------------------
(* Commands.  A command writes its text and exits with a code, or it is
   killed by a signal; the wait status has them in different bytes. *)

Status(code, signal) == 256 * code + signal

(* A mistake: the byte of the signal. *)
LowByte(status) == status % 256

ExitCode(status) == (status \div 256) % 256

CallCommand(text, code, signal) ==
  /\ Ready("commands")
  /\ signal = 0 \/ (signal = 9 /\ code = 0 /\ "commands that are killed" \in ConsoleCareless)
  /\ Called([fn |-> "system_command", text |-> text, code |-> code, signal |-> signal])
  /\ at' = "command" /\ result' = Answer("none", << >>, << >>, 0)
  /\ UNCHANGED <<out, pipe, env, reader>>

EmptyCommand ==
  /\ Ready("commands")
  /\ Called([fn |-> "empty_command"])
  /\ Returns(Answer("EmptyCommand", << >>, << >>, 0))
  /\ UNCHANGED <<out, pipe, env, reader>>

popen ==
  /\ at = "command"
  /\ \/ pipe' = call.text /\ at' = "piped" /\ UNCHANGED result
     \/ /\ "popen" \in Fallible
        /\ Returns(Answer("SpawnFailed", << >>, << >>, 0))
        /\ UNCHANGED pipe
  /\ UNCHANGED <<use, call, out, env, reader>>

ReadPipe ==
  /\ at = "piped" /\ pipe # << >>
  /\ result' = [result EXCEPT !.text = @ \o CString(fgets(pipe))]
  /\ pipe' = After(pipe, Len(fgets(pipe)))
  /\ UNCHANGED <<use, call, at, out, env, reader>>

pclose ==
  /\ at = "piped" /\ pipe = << >>
  /\ Returns([result EXCEPT !.code = ExitCode(Status(call.code, call.signal))])
  /\ UNCHANGED <<use, call, out, pipe, env, reader>>

----------------------------------------
(* Variables. *)

get_env(name) ==
  /\ Ready("variables")
  /\ CString(name) # name => "zeros in names" \in ConsoleCareless
  /\ Called([fn |-> "get_env", name |-> name])
  /\ Returns(IF env[CString(name)] = Unset THEN Answer("VarNotFound", << >>, << >>, 0)
             ELSE Answer("none", env[CString(name)], << >>, 0))
  /\ UNCHANGED <<out, pipe, env, reader>>

(* setenv does not know a variable without a name. *)
set_env(name, content, overwrite) ==
  /\ Ready("variables")
  /\ Called([fn |-> "set_env", name |-> name])
  /\ LET kept == name = << >> \/ (env[CString(name)] # Unset /\ ~overwrite) IN
     CASE CString(name) # name ->
            Returns(Answer("InvalidName", << >>, << >>, 0)) /\ UNCHANGED env
       [] CString(name) = name /\ CString(content) # content ->
            Returns(Answer("InvalidValue", << >>, << >>, 0)) /\ UNCHANGED env
       [] OTHER ->
            /\ Returns(Answer("none", << >>, << >>, IF name = << >> THEN 0 ELSE 1))
            /\ env' = IF kept THEN env ELSE [env EXCEPT ![CString(name)] = CString(content)]
  /\ UNCHANGED <<out, pipe, reader>>

----------------------------------------
(* Input. *)

CallRead ==
  /\ Ready("input")
  /\ Called([fn |-> "read_str"]) /\ at' = "getline"
  /\ result' = NoAnswer
  /\ cap' = InitialCap /\ buf' = << >> /\ given' = stdin
  /\ UNCHANGED <<out, pipe, env, stdin>>

(* The buffer grows in front of every character: both ways out of the test
   whether it has to lead to the block that makes it grow.  When realloc
   gives up, the character is stored all the same. *)
GetChar ==
  /\ at = "getline" /\ stdin # << >>
  /\ cap' = 2 * cap
  /\ IF 2 * cap > Memory THEN at' = "undefined" /\ UNCHANGED <<stdin, buf>>
     ELSE /\ buf' = Append(buf, Head(stdin)) /\ stdin' = Tail(stdin)
          /\ at' = IF Head(stdin) = NL THEN "line" ELSE "getline"
  /\ UNCHANGED <<use, call, result, out, pipe, env, given>>

EndOfInput ==
  /\ at = "getline" /\ stdin = << >>
  /\ at' = IF buf = << >> THEN "nothing" ELSE "line"
  /\ UNCHANGED <<use, call, result, out, pipe, env, reader>>

read_str ==
  /\ at = "line"
  /\ Returns(Answer("none", Stripped(buf), << >>, 0))
  /\ cap' = 0 /\ buf' = << >>
  /\ UNCHANGED <<use, call, out, pipe, env, stdin, given>>

NothingToRead ==
  /\ at = "nothing" /\ at' = "aborted"
  /\ UNCHANGED <<use, call, result, out, pipe, env, reader>>

ConsoleNext ==
  \/ \E text \in Texts : print(text)
  \/ StdioFlushes
  \/ start_capture \/ StartAgain \/ end_capture \/ end_capture_lines \/ EndNothing
  \/ EmptyCommand \/ popen \/ ReadPipe \/ pclose
  \/ \E text \in Texts, code \in ExitCodes, signal \in {0, 9} : CallCommand(text, code, signal)
  \/ \E name \in Names : get_env(name)
  \/ \E name \in Names, content \in Values, overwrite \in BOOLEAN : set_env(name, content, overwrite)
  \/ CallRead \/ GetChar \/ EndOfInput \/ read_str \/ NothingToRead

----------------------------------------
(* Every variable has its type. *)
ConsoleTypeOK ==
  /\ use \in Uses
  /\ at \in {"idle", "returned", "command", "piped", "getline", "line", "nothing", "aborted", "undefined"}
  /\ stdout_to \in {"terminal", "capture"}
  /\ {stdio, terminal, outside, inside, pipe, stdin, buf, given} \subseteq Texts
  /\ capture_file \in Texts \cup {NoCapture}
  /\ descriptors \in Nat /\ cap \in Nat
  /\ env \in [{CString(n) : n \in Names} -> Values \cup {Unset}]
  /\ result.code \in 0 .. 255

(* What is printed arrives once, in its order and on the right side:
   outside of a capture at the terminal, inside of it in what end_capture
   returns and, as lines, in what end_capture_lines returns, whenever the
   C library empties its buffer; and when no capture runs, descriptor 1
   points to the terminal and no copy of a descriptor is left open. *)
OutputGoesWhereItShould ==
  /\ IF capturing
     THEN stdout_to = "capture" /\ descriptors = 2
       /\ terminal = outside /\ capture_file \o stdio = inside
     ELSE stdout_to = "terminal" /\ descriptors = 0 /\ terminal \o stdio = outside
  /\ at = "returned" /\ call.fn = "end_capture" => result.text = inside
  /\ at = "returned" /\ call.fn = "end_capture_lines" => AreLinesOf(result.lines, inside)

(* What a command said is returned, and the exit code is 0 only if it
   exited with 0; what get_env returns is the value of the variable that
   has that name; what read_str returns is the next line, and what is left
   of the input is what comes behind it. *)
AnswersAreComplete ==
  /\ at # "undefined"
  /\ at = "returned" /\ call.fn = "system_command" /\ result.err = "none" =>
       /\ result.text = call.text
       /\ result.code = 0 <=> Status(call.code, call.signal) = 0
  /\ at = "returned" /\ call.fn = "get_env" /\ result.err = "none" =>
       call.name \in DOMAIN env /\ env[call.name] = result.text
  /\ at = "returned" /\ call.fn = "read_str" =>
       /\ NL \notin {result.text[i] : i \in DOMAIN result.text}
       /\ \/ given = result.text \o <<NL>> \o stdin
          \/ given = result.text /\ stdin = << >>
  /\ at = "aborted" => given = << >>

(* "grow if needed": the buffer of getline grows only when it is full. *)
GrowsWhenFull == at \in {"getline", "line"} => cap <= InitialCap \/ cap <= 2 * Len(buf)
=============================================================================
