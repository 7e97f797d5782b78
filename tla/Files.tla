------------------------------- MODULE Files -------------------------------
(***************************************************************************)
(* The core module `filesystem` as a compiled program runs it: the         *)
(* functions that src/generator/module/core/generator_filesystem.cpp emits *)
(* around fopen and its relatives, one call at a time, while other         *)
(* programs may rewrite the file between two steps of a call.              *)
(*                                                                         *)
(* There is one path.  What is there is a text, nothing or a directory.    *)
(* Allocations succeed: the strings and arrays that are made are written   *)
(* to unchecked, and the tests behind that come too late to matter.        *)
(***************************************************************************)
EXTENDS CText, FiniteSets

CONSTANTS
  Missing, Directory,  (* what may be at the path besides a text            *)
  OobModes,           (* the array modes that are considered               *)
  NullStr,            (* an element of an array of strings that was filled *)
  FilesCareless       (* what programs do that the functions do not expect *)

ASSUME FilesAssumption ==
  /\ Missing \notin Texts /\ Directory \notin Texts /\ Missing # Directory
  /\ OobModes \subseteq {"PRINT", "CRASH"}
  /\ FilesCareless \subseteq {"read a directory", "read long lines", "rewrite lines that are read"}

VARIABLES
  oob_mode,   (* chosen when the program is compiled                       *)
  disk,       (* what is at the path                                       *)
  files,      (* the number of open FILEs                                  *)
  fs_call,    (* the function that was called last, and with what          *)
  fs_at,      (* "idle", a step of the call, "returned", or how it ended   *)
  file_size,  (* of read_file                                              *)
  position,   (* of read_lines in the file                                 *)
  lines,      (* its array                                                 *)
  line_idx,   (* how many lines it stored                                  *)
  fs_result,  (* the error that was thrown, if any, and what was returned  *)
  seen,       (* all that was at the path since the call began, its own    *)
              (* writing apart *)
  alone       (* whether no other program wrote since then                 *)

locals == <<file_size, position, lines, line_idx>>
files_vars == <<oob_mode, disk, files, fs_call, fs_at, locals, fs_result, seen, alone>>

FileFunctions == {"read_file", "read_lines", "file_exists", "write_file", "append_file", "is_file"}
Reading == {"read_file", "read_lines", "file_exists", "is_file"}
Result(err, text, ls, yes) == [err |-> err, text |-> text, lines |-> ls, yes |-> yes]
NoResult == Result("none", << >>, << >>, FALSE)

FilesInit ==
  /\ oob_mode \in OobModes
  /\ disk \in Texts \cup {Missing, Directory}
  /\ files = 0
  /\ fs_call = [fn |-> "none", text |-> << >>] /\ fs_at = "idle"
  /\ file_size = 0 /\ position = 0 /\ lines = << >> /\ line_idx = 0
  /\ fs_result = NoResult
  /\ seen = {} /\ alone = TRUE

IsText(content) == content \notin {Missing, Directory}
ContentOf(content) == IF IsText(content) THEN content ELSE << >>

(* What fopen may answer: the open modes "rb", "wb" and "ab". *)
Opens ==
  LET impossible == IF fs_call.fn \in Reading THEN disk = Missing ELSE disk = Directory
  IN (IF impossible THEN {} ELSE {TRUE})
       \cup (IF impossible \/ "fopen" \in Fallible THEN {FALSE} ELSE {})

Return(result) == fs_result' = result /\ fs_at' = "returned"

(* The scratch state of a call that is over. *)
Forget == file_size' = 0 /\ position' = 0 /\ lines' = << >> /\ line_idx' = 0

(* Each fits into the buffer with its line feed. *)
HasShortLines(text) ==
  ~ \E i \in DOMAIN text :
      /\ i + BufferSize - 1 \in DOMAIN text
      /\ \A j \in i .. i + BufferSize - 2 : text[j] # NL

----------------------------------------
(* A call begins.  Bound: a text that is appended leaves the file short. *)
CallFile(fn, text) ==
  /\ fs_at \in {"idle", "returned"}
  /\ fn \notin {"write_file", "append_file"} => text = << >>
  /\ fn = "append_file" => Len(ContentOf(disk)) + Len(text) <= MaxText
  /\ fn = "read_file" /\ disk = Directory => "read a directory" \in FilesCareless
  /\ fn = "read_lines" /\ ~HasShortLines(ContentOf(disk)) => "read long lines" \in FilesCareless
  /\ fs_call' = [fn |-> fn, text |-> text]
  /\ fs_at' = fn
  /\ seen' = {disk} /\ alone' = TRUE
  /\ fs_result' = NoResult
  /\ UNCHANGED <<oob_mode, disk, files, locals>>

(* The size of a directory is the largest number there is: no string is
   made for it, and its length is written to where none was allocated. *)
read_file ==
  /\ fs_at = "read_file"
  /\ \/ /\ FALSE \in Opens
        /\ Return(Result("NotFound", << >>, << >>, FALSE))
        /\ UNCHANGED <<files, file_size>>
     \/ /\ TRUE \in Opens /\ "fseek" \in Fallible
        /\ Return(Result("NotReadable", << >>, << >>, FALSE))
        /\ UNCHANGED <<files, file_size>>
     \/ /\ TRUE \in Opens /\ files' = files + 1
        /\ fs_at' = IF disk = Directory THEN "undefined" ELSE "reading"
        /\ file_size' = Len(ContentOf(disk))
        /\ UNCHANGED fs_result
  /\ UNCHANGED <<oob_mode, disk, fs_call, position, lines, line_idx, seen, alone>>

(* A mistake: the file stays open when less was read than it held. *)
FinishReadLeaking(read) ==
  /\ files' = IF read < file_size THEN files ELSE files - 1
  /\ Return(IF read < file_size THEN Result("UnexpectedEOF", << >>, << >>, FALSE)
            ELSE Result("none", SubSeq(disk, 1, read), << >>, FALSE))

FinishRead(read) ==
  /\ files' = files - 1
  /\ Return(IF read < file_size THEN Result("UnexpectedEOF", << >>, << >>, FALSE)
            ELSE Result("none", SubSeq(disk, 1, read), << >>, FALSE))

ReadContent ==
  /\ fs_at = "reading"
  /\ LET there == Shorter(file_size, Len(disk))
     IN \E read \in IF "fread" \in Fallible THEN 0 .. there ELSE {there} : FinishRead(read)
  /\ Forget
  /\ UNCHANGED <<oob_mode, disk, fs_call, seen, alone>>

----------------------------------------
(* read_lines goes through the file twice: it counts the lines, allocates
   an array of that length, and reads them. *)

(* A mistake: a last line that does not end is not a line. *)
CountedEnds(text) == Cardinality({i \in DOMAIN text : text[i] = NL})

Counted(text) ==
  Cardinality({i \in DOMAIN text : text[i] = NL})
    + (IF text # << >> /\ Last(text) # NL THEN 1 ELSE 0)

CountLines ==
  /\ fs_at = "read_lines"
  /\ \/ /\ FALSE \in Opens
        /\ Return(Result("NotFound", << >>, << >>, FALSE))
        /\ UNCHANGED <<files, lines>>
     \/ /\ TRUE \in Opens /\ files' = files + 1
        /\ lines' = [i \in 1 .. Counted(ContentOf(disk)) |-> NullStr]
        /\ fs_at' = "lines"
        /\ UNCHANGED fs_result
  /\ UNCHANGED <<oob_mode, disk, fs_call, file_size, position, line_idx, seen, alone>>

Rest == After(ContentOf(disk), position)
Stored(line) == [lines EXCEPT ![Shorter(line_idx + 1, Len(lines))] = line]

(* One more piece.  Behind the last place of the array it depends on the
   mode: the last line is replaced, or the program stops. *)
ReadLine ==
  /\ fs_at = "lines" /\ Rest # << >>
  /\ LET line == Stripped(CString(fgets(Rest))) IN
     CASE line_idx >= Len(lines) /\ oob_mode = "CRASH" ->
            fs_at' = "aborted" /\ UNCHANGED <<position, lines, line_idx>>
       [] line_idx >= Len(lines) /\ oob_mode = "PRINT" /\ lines = << >> ->
            fs_at' = "undefined" /\ UNCHANGED <<position, lines, line_idx>>
       [] OTHER ->
            /\ lines' = Stored(line)
            /\ line_idx' = line_idx + 1
            /\ position' = position + Len(fgets(Rest))
            /\ UNCHANGED fs_at
  /\ UNCHANGED <<oob_mode, disk, files, fs_call, file_size, fs_result, seen, alone>>

(* Nothing is left.  When less was stored than was counted, the length of
   the array is taken for an address, and the number is written there. *)
EndLines ==
  /\ fs_at = "lines" /\ Rest = << >>
  /\ IF line_idx < Len(lines)
     THEN fs_at' = "undefined" /\ UNCHANGED <<files, fs_result, locals>>
     ELSE files' = files - 1 /\ Return(Result("none", << >>, lines, FALSE)) /\ Forget
  /\ UNCHANGED <<oob_mode, disk, fs_call, seen, alone>>

----------------------------------------
(* A directory can be opened for reading, and what fread says is ignored. *)
Probe(fn) ==
  /\ fs_at = fn
  /\ \E opened \in Opens : Return(Result("none", << >>, << >>, opened))
  /\ UNCHANGED <<oob_mode, disk, files, fs_call, locals, seen, alone>>

file_exists == Probe("file_exists")
is_file == Probe("is_file")

(* "wb" empties the file, "ab" creates it if need be. *)
OpenForWriting(fn, emptied) ==
  /\ fs_at = fn
  /\ \/ /\ FALSE \in Opens
        /\ Return(Result("InvalidPath", << >>, << >>, FALSE))
        /\ UNCHANGED <<disk, files>>
     \/ /\ TRUE \in Opens
        /\ disk' = IF emptied THEN << >> ELSE ContentOf(disk)
        /\ files' = files + 1
        /\ fs_at' = "writing"
        /\ UNCHANGED fs_result
  /\ UNCHANGED <<oob_mode, fs_call, locals, seen, alone>>

write_file == OpenForWriting("write_file", TRUE)
append_file == OpenForWriting("append_file", FALSE)

(* What is at the path when n characters arrived there. *)
Arrived(n) ==
  LET written == SubSeq(fs_call.text, 1, n)
  IN IF fs_call.fn = "append_file" THEN disk \o written ELSE written \o After(disk, n)

(* fwrite and fclose.  What fclose could not write is not reported. *)
WriteContent ==
  /\ fs_at = "writing"
  /\ \E n \in 0 .. Len(fs_call.text), m \in 0 .. Len(fs_call.text) :
       /\ n = Len(fs_call.text) \/ "fwrite" \in Fallible
       /\ m = n \/ (m < n /\ "fclose" \in Fallible)
       /\ disk' = Arrived(m)
       /\ Return(Result(IF n = Len(fs_call.text) THEN "none" ELSE "NotWritable", << >>, << >>, FALSE))
  /\ files' = files - 1
  /\ UNCHANGED <<oob_mode, fs_call, locals, seen, alone>>

(* What is left to read has as many lines as there are places for. *)
FillsArray(text) == HasShortLines(text) /\ line_idx + Counted(After(text, position)) = Len(lines)

(* Other programs.  Bound: once in a call. *)
OthersRewrite(text) ==
  /\ IsText(disk) /\ text # disk /\ alone
  /\ fs_at \notin {"aborted", "undefined", "idle", "returned"}
  /\ fs_at = "lines" /\ ~FillsArray(text) => "rewrite lines that are read" \in FilesCareless
  /\ fs_at = "read_lines" /\ ~HasShortLines(text) => "read long lines" \in FilesCareless
  /\ disk' = text
  /\ seen' = seen \cup {text} /\ alone' = FALSE
  /\ UNCHANGED <<oob_mode, files, fs_call, fs_at, locals, fs_result>>

FilesNext ==
  \/ \E fn \in FileFunctions, text \in Texts : CallFile(fn, text)
  \/ read_file \/ ReadContent
  \/ CountLines \/ ReadLine \/ EndLines
  \/ file_exists \/ is_file
  \/ write_file \/ append_file \/ WriteContent
  \/ \E text \in Texts : OthersRewrite(text)

----------------------------------------
(* Every variable has its type, and at most one file is open. *)
FilesTypeOK ==
  /\ oob_mode \in OobModes
  /\ disk \in Seq(Chars) \cup {Missing, Directory}
  /\ files \in 0 .. 1 /\ alone \in BOOLEAN
  /\ fs_call.fn \in FileFunctions \cup {"none"} /\ fs_call.text \in Texts
  /\ fs_at \in FileFunctions \cup {"idle", "reading", "lines", "writing", "returned", "aborted", "undefined"}
  /\ file_size \in Nat /\ position \in Nat /\ line_idx \in Nat
  /\ lines \in Seq(Seq(Chars) \cup {NullStr})
  /\ fs_result.yes \in BOOLEAN /\ fs_result.lines \in Seq(Seq(Chars) \cup {NullStr})

(* Whichever way a call returns, also when something fails between, the
   file it opened is closed again, and closed once. *)
FilesAreClosed == fs_at \in {"idle", "returned"} => files = 0

Before == CHOOSE content \in seen : TRUE

(* What read_file returns was in the file: its beginning at some time of
   the call, as long as the file was at some time of it; and read_lines
   returns the lines of a file that no other program changes, no matter
   how the last one ends, and stays in its array in any case. *)
ReadsTellTheTruth ==
  /\ fs_at # "undefined"
  /\ fs_at = "returned" /\ fs_call.fn = "read_file" =>
       IF fs_result.err = "none"
       THEN \E t \in seen, u \in seen :
              Len(fs_result.text) = Len(u) /\ IsPrefix(fs_result.text, t)
       ELSE fs_result.text = << >>
  /\ fs_at = "returned" /\ fs_call.fn = "read_lines" /\ fs_result.err = "none" /\ alone =>
       AreLinesOf(fs_result.lines, ContentOf(Before))
  /\ fs_at = "returned" /\ fs_call.fn \in {"file_exists", "is_file"} /\ alone =>
       (fs_result.yes => Before # Missing)

(* A file that no other program changes holds exactly what was written, or
   what was there and what was appended, if no error was thrown; it is as
   it was if the path was refused, and no text is lost by appending. *)
WritesAreReported ==
  fs_at = "returned" /\ fs_call.fn \in {"write_file", "append_file"} /\ alone =>
    LET kept == IF fs_call.fn = "append_file" THEN ContentOf(Before) ELSE << >>
    IN CASE fs_result.err = "none" -> disk = kept \o fs_call.text
         [] fs_result.err = "InvalidPath" -> disk = Before
         [] OTHER -> IsPrefix(kept, disk) /\ IsStrictPrefix(disk, kept \o fs_call.text)

(* What is read and what is said of it, and of what was written, is true. *)
FilesTellTheTruth == ReadsTellTheTruth /\ WritesAreReported
=============================================================================
