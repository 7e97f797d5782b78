------------------------------- MODULE Strings -------------------------------
(***************************************************************************)
(* Strings of a compiled program: the runtime functions that               *)
(* src/generator/module/generator_string.cpp emits, and the memory rules   *)
(* of the statements that call them.                                       *)
(*                                                                         *)
(* A `str` lives in one malloc'ed block, its length first and then its     *)
(* characters.  A variable owns a block.  An expression leaves the address *)
(* of a block, which is a variable's or a new one.  Which of the new ones  *)
(* a statement has to free is decided by the compiler, from the kind of    *)
(* the expressions: operands that are registered as garbage are freed,     *)
(* except the garbage of the outermost expression, which is taken for the  *)
(* value that the statement stores.  What nobody frees is lost.            *)
(*                                                                         *)
(* A statement pushes its operands, combines them, and ends by storing,    *)
(* comparing or discarding the one that is left.                           *)
(***************************************************************************)
EXTENDS Integers, Sequences, FiniteSets, SequencesExt

CONSTANTS
  Vars,         (* the variables of type str                               *)
  Blocks,       (* places where malloc may put a block                     *)
  None,         (* a variable outside of its scope                         *)
  Chars,        (* the characters                                          *)
  Literals,     (* bound: the literals of the program                      *)
  Junk,         (* what malloc leaves in a block                           *)
  MaxLen,       (* bound: strings are at most this long                    *)
  MaxOperands,  (* bound: the strings a statement makes or reads           *)
  MaxLost,      (* bound: statements begin with at most this many lost     *)
  Modes,        (* the array modes that are considered                     *)
  Careless      (* what programs do that the runtime does not check for    *)

ASSUME StringsAssumption ==
  /\ None \notin Blocks \cup Vars /\ Junk \notin Chars
  /\ \A chars \in Literals : chars \in Seq(Chars) /\ Len(chars) <= MaxLen
  /\ MaxLen \in Nat /\ MaxOperands \in Nat /\ MaxLost \in Nat
  /\ Modes \subseteq {"PRINT", "SILENT", "CRASH", "UNSAFE"}
  /\ Careless \subseteq {"append itself", "index an empty string", "index without checks"}

VARIABLES
  oob_mode,     (* chosen when the program is compiled                     *)
  heap,         (* whether a block is in use, and its characters           *)
  var,          (* the block of a variable                                 *)
  at,           (* "idle", in an expression, or where the program ended    *)
  stmt,         (* the statement: its form and its target                  *)
  stack,        (* the operands that are evaluated                         *)
  garbage,      (* what the statement frees in any case                    *)
  lost,         (* blocks that no code refers to any more                  *)
  printed,      (* the messages of the last call                           *)
  answer        (* of the last comparison                                  *)

vars == <<oob_mode, heap, var, at, stmt, stack, garbage, lost, printed, answer>>

StatementForms == {"declare", "assign", "append", "discard", "compare"}
NoStatement == [form |-> "none", target |-> None, operands |-> 0, wanted |-> << >>]

----------------------------------------
(* The heap.  A function that makes a block puts it at Fresh(h). *)

Fresh(h) == CHOOSE b \in Blocks : ~h[b].live
Freed(h, b) == [h EXCEPT ![b] = [live |-> FALSE, text |-> << >>]]
FreedAll(h, bs) ==
  [b \in Blocks |-> IF b \in bs THEN [live |-> FALSE, text |-> << >>] ELSE h[b]]
Text(h, b) == h[b].text

create_str(h, len) ==
  [h EXCEPT ![Fresh(h)] = [live |-> TRUE, text |-> [i \in 1 .. len |-> Junk]]]

(* memcpy to value + offset of a block. *)
Copied(h, b, offset, chars) ==
  [h EXCEPT ![b].text = [i \in DOMAIN @ |->
     IF i - offset \in DOMAIN chars THEN chars[i - offset] ELSE @[i]]]

(* A mistake: the last character is not copied. *)
InitWithoutLast(h, chars) ==
  Copied(create_str(h, Len(chars)), Fresh(h), 0, SubSeq(chars, 1, Len(chars) - 1))

init_str(h, chars) == Copied(create_str(h, Len(chars)), Fresh(h), 0, chars)

(* flint.clone of a str. *)
clone_str(h, b) == init_str(h, Text(h, b))

add_str_lit(h, b, chars) ==
  LET b_chars == Text(h, b)
      made == create_str(h, Len(b_chars) + Len(chars))
  IN Copied(Copied(made, Fresh(h), 0, b_chars), Fresh(h), Len(b_chars), chars)

(* A mistake: the second operand overwrites the first. *)
AddAtTheStart(h, b, c) ==
  LET made == create_str(h, Len(Text(h, b)) + Len(Text(h, c)))
  IN Copied(Copied(made, Fresh(h), 0, Text(h, b)), Fresh(h), 0, Text(h, c))

add_str_str(h, b, c) == add_str_lit(h, b, Text(h, c))

(* realloc to a length, which keeps the characters and may move them. *)
Moved(h, b, moves) == IF moves THEN Fresh(h) ELSE b
Reallocated(h, b, len, moves) ==
  LET kept == [i \in 1 .. len |-> IF i \in DOMAIN Text(h, b) THEN Text(h, b)[i] ELSE Junk]
      freed == IF moves THEN Freed(h, b) ELSE h
  IN [freed EXCEPT ![Moved(h, b, moves)] = [live |-> TRUE, text |-> kept]]

(* Both lengths are read before realloc, the source's characters after it. *)
append_str(h, b, source, moves) ==
  LET dest_len == Len(Text(h, b))
      grown == Reallocated(h, b, dest_len + Len(Text(h, source)), moves)
  IN Copied(grown, Moved(h, b, moves), dest_len, Text(h, source))

ReadsFreedSource(b, source, moves) == b = source /\ moves

(* Shorter strings are smaller, others are compared by their characters. *)
compare_str(s, t) ==
  LET differ == {i \in DOMAIN s : s[i] # t[i]}
      first == CHOOSE i \in differ : \A j \in differ : i <= j
  IN CASE Len(s) # Len(t) -> IF Len(s) < Len(t) THEN -1 ELSE 1
       [] Len(s) = Len(t) /\ differ = {} -> 0
       [] OTHER -> IF s[first] < t[first] THEN -1 ELSE 1

Relations == {"<", ">", "<=", ">=", "==", "!="}

(* What each operator makes of it. *)
generate_string_cmp(op, s, t) ==
  LET result == compare_str(s, t)
  IN CASE op = "<" -> result < 0    [] op = ">" -> result > 0
       [] op = "<=" -> result <= 0  [] op = ">=" -> result >= 0
       [] op = "==" -> result = 0   [] OTHER -> result # 0

----------------------------------------
(* Positions: what an access does with one that is out of bounds. *)

Checked == oob_mode # "UNSAFE"
Prints(problem) == IF problem /\ oob_mode # "SILENT" THEN 1 ELSE 0

(* The position (from 0) that is accessed; -1 stands for 2^64 - 1. *)
AccessedAt(len, idx) == IF Checked /\ idx >= len THEN len - 1 ELSE idx

(* The positions nobody checks, which a careful program does not use. *)
MayGoWrong(len) ==
  /\ ~Checked => "index without checks" \in Careless
  /\ len = 0 => "index an empty string" \in Careless

AccessAborts(len, idx) == oob_mode = "CRASH" /\ idx >= len

(* get_str_slice: the ends it copies between, or that it aborts.  `to` is
   MaxLen + 2 where the range has no upper bound. *)
OpenEnd == MaxLen + 2

SliceTo(len, to) ==
  LET real_to == IF to = OpenEnd THEN len ELSE to
  IN IF Checked /\ real_to > len THEN len ELSE real_to

SliceFrom(from, real_to) == IF Checked /\ from > real_to THEN real_to - 1 ELSE from

SliceAborts(len, from, to) ==
  LET real_to == SliceTo(len, to)
      beyond == to # OpenEnd /\ to > len
  IN \/ oob_mode = "CRASH" /\ (beyond \/ from > real_to)
     \/ Checked /\ from > real_to /\ real_to = 0

(* The message about clamping the lower bound is printed in any mode. *)
SlicePrints(len, from, to) ==
  LET real_to == SliceTo(len, to)
  IN Prints(to # OpenEnd /\ to > len) + Prints(from > real_to)
       + IF from > real_to /\ Checked /\ oob_mode # "CRASH"
         THEN IF real_to = 0 THEN Prints(TRUE) ELSE 1 ELSE 0

get_str_slice(h, b, from, to) ==
  LET real_to == SliceTo(Len(Text(h, b)), to)
      real_from == SliceFrom(from, real_to)
  IN IF from = real_to THEN create_str(h, 0)
     ELSE init_str(h, SubSeq(Text(h, b), real_from + 1, real_to))

SliceOutOfBounds(len, from, to) ==
  LET real_to == SliceTo(len, to)
      real_from == SliceFrom(from, real_to)
  IN from # real_to /\ ~(0 <= real_from /\ real_from <= real_to /\ real_to <= len)

----------------------------------------
(* Operands: a string, by the kind of expression that left it, and `late`,
   the garbage registered at the depth of that expression.  A cast to str
   of anything but a literal behaves like a sum. *)

Operand(kind, block, late, text) ==
  [kind |-> kind, block |-> block, late |-> late, text |-> text]

Above == stack[Len(stack)]
Below == stack[Len(stack) - 1]
Popped(n) == SubSeq(stack, 1, Len(stack) - n)

(* An operand nobody registers, whose block is new. *)
Unregistered(o) == IF o.kind \in {"sum", "slice"} THEN {o.block} ELSE {}
Literal(o) == IF o.kind = "literal" THEN {o.block} ELSE {}
IsProducer(o) == o.kind \in {"slice", "interpolation"}

Evaluating == at = "expression"
NoAnswer == [op |-> "none", holds |-> FALSE]
Between == at = "idle" /\ Cardinality(lost) <= MaxLost
MayGrow == Evaluating /\ stmt.operands < MaxOperands
MayPush == MayGrow /\ Len(stack) < 2
Counted == stmt' = [stmt EXCEPT !.operands = @ + 1]

Init ==
  /\ oob_mode \in Modes
  /\ heap = [b \in Blocks |-> [live |-> FALSE, text |-> << >>]]
  /\ var = [x \in Vars |-> None]
  /\ at = "idle" /\ stmt = NoStatement /\ stack = << >>
  /\ garbage = {} /\ lost = {} /\ printed = 0 /\ answer = NoAnswer

Begin(form, target) ==
  /\ Between
  /\ CASE form = "declare" -> target # None /\ var[target] = None
       [] form \in {"assign", "append"} -> target # None /\ var[target] # None
       [] OTHER -> target = None
  /\ at' = "expression"
  /\ stmt' = [NoStatement EXCEPT !.form = form, !.target = target]
  /\ printed' = 0 /\ answer' = NoAnswer
  /\ UNCHANGED <<oob_mode, heap, var, stack, garbage, lost>>

generate_variable(x) ==
  /\ MayPush /\ var[x] # None
  /\ stack' = Append(stack, Operand("variable", var[x], {}, Text(heap, var[x])))
  /\ Counted
  /\ UNCHANGED <<oob_mode, heap, var, at, garbage, lost, printed, answer>>

(* The analyzer casts every literal to str, which makes a block. *)
generate_literal(chars) ==
  /\ MayPush
  /\ heap' = init_str(heap, chars)
  /\ stack' = Append(stack, Operand("literal", Fresh(heap), {}, chars))
  /\ Counted
  /\ UNCHANGED <<oob_mode, var, at, garbage, lost, printed, answer>>

(* Two literals would have been folded by the parser. *)
generate_string_addition ==
  /\ Evaluating /\ Len(stack) >= 2
  /\ ~(Above.kind = "literal" /\ Below.kind = "literal")
  /\ Len(Text(heap, Above.block)) + Len(Text(heap, Below.block)) <= MaxLen
  /\ heap' = add_str_str(heap, Below.block, Above.block)
  /\ stack' = Append(Popped(2), Operand("sum", Fresh(heap),
                Literal(Below) \cup Literal(Above), Below.text \o Above.text))
  /\ garbage' = garbage \cup Below.late \cup Above.late
                  \cup Unregistered(Below) \cup Unregistered(Above)
  /\ UNCHANGED <<oob_mode, var, at, stmt, lost, printed, answer>>

(* $"chars": its block is registered at the depth of the expression. *)
interpolate_literal(chars) ==
  /\ MayPush
  /\ heap' = init_str(heap, chars)
  /\ stack' = Append(stack, Operand("interpolation", Fresh(heap), {Fresh(heap)}, chars))
  /\ Counted
  /\ UNCHANGED <<oob_mode, var, at, garbage, lost, printed, answer>>

(* $"c{e}", $"{e}c" and $"{e}{f}": the sums but the last are lost, and the
   last is registered.  The parser refuses $"{e}" (parser_expression.cpp:889),
   so no variable's own block comes out of an interpolation. *)
Interpolated(h, operands, left) ==
  /\ heap' = h
  /\ stack' = Append(Popped(Len(operands)), Operand("interpolation", left.block,
       {left.block} \cup UNION {operands[i].late : i \in DOMAIN operands}, left.text))
  /\ lost' = lost \cup left.lost \cup UNION {Unregistered(operands[i]) : i \in DOMAIN operands}
  /\ Counted
  /\ UNCHANGED <<oob_mode, var, at, garbage, printed, answer>>

generate_string_interpolation ==
  /\ MayGrow /\ Len(stack) > 0 /\ Above.kind # "literal"
  /\ \/ \E c \in Chars :
          LET first == init_str(heap, <<c>>)
              sum == add_str_str(first, Fresh(heap), Above.block)
          IN /\ Len(Text(heap, Above.block)) < MaxLen
             /\ Interpolated(sum, <<Above>>, [block |-> Fresh(first), lost |-> {Fresh(heap)},
                                            text |-> <<c>> \o Above.text])
     \/ \E c \in Chars :
          /\ Len(Text(heap, Above.block)) < MaxLen
          /\ Interpolated(add_str_lit(heap, Above.block, <<c>>), <<Above>>,
               [block |-> Fresh(heap), lost |-> {}, text |-> Append(Above.text, c)])
     \/ /\ Len(stack) >= 2 /\ Below.kind # "literal"
        /\ Len(Text(heap, Above.block)) + Len(Text(heap, Below.block)) <= MaxLen
        /\ Interpolated(add_str_str(heap, Below.block, Above.block), <<Below, Above>>,
             [block |-> Fresh(heap), lost |-> {}, text |-> Below.text \o Above.text])

(* e[from..to]: the base stays as it is, also when nobody else has it. *)
generate_slice(from, to) ==
  LET len == Len(Text(heap, Above.block))
      inside == from <= to /\ to <= len
  IN /\ MayGrow /\ Len(stack) > 0 /\ Above.kind \in {"variable", "slice"}
     /\ printed' = printed + SlicePrints(len, from, to)
     /\ Counted
     /\ UNCHANGED <<oob_mode, var, garbage, answer>>
     /\ \/ /\ SliceAborts(len, from, to)
           /\ at' = "aborted" /\ UNCHANGED <<heap, stack, lost>>
        \/ /\ ~SliceAborts(len, from, to) /\ SliceOutOfBounds(len, from, to)
           /\ Checked \/ "index without checks" \in Careless
           /\ at' = "undefined" /\ UNCHANGED <<heap, stack, lost>>
        \/ /\ ~SliceAborts(len, from, to) /\ ~SliceOutOfBounds(len, from, to)
           /\ heap' = get_str_slice(heap, Above.block, from, to)
           /\ stack' = Append(Popped(1), Operand("slice", Fresh(heap), Above.late,
                 IF inside THEN SubSeq(Above.text, from + 1, to)
                 ELSE Text(heap', Fresh(heap))))
           /\ lost' = lost \cup Unregistered(Above)
           /\ UNCHANGED at

----------------------------------------
(* The ends of statements.  clear_garbage runs first, where something is
   stored; the garbage of the outermost expression was taken out of it. *)

Done == at' = "idle" /\ stmt' = NoStatement /\ stack' = << >> /\ garbage' = {}
EndsAs(form) == Evaluating /\ stmt.form = form /\ Len(stack) = 1
Cleared == FreedAll(heap, garbage)
Dropped == (Above.late \cup IF IsProducer(Above) THEN {} ELSE Literal(Above) \cup Unregistered(Above))
             \ IF IsProducer(Above) THEN {Above.block} ELSE {}
Stored(h, b) == heap' = h /\ var' = [var EXCEPT ![stmt.target] = b]

(* A mistake: a variable is stored, not copied. *)
DeclareAlias ==
  /\ EndsAs("declare") /\ Done
  /\ Stored(Cleared, Above.block)
  /\ lost' = lost \cup (Dropped \ {Above.block})
  /\ UNCHANGED <<oob_mode, printed, answer>>

generate_declaration ==
  /\ EndsAs("declare") /\ Done
  /\ IF IsProducer(Above) THEN Stored(Cleared, Above.block)
     ELSE Stored(clone_str(Cleared, Above.block), Fresh(Cleared))
  /\ lost' = lost \cup Dropped
  /\ UNCHANGED <<oob_mode, printed, answer>>

(* str x; *)
generate_default(x) ==
  /\ Between /\ var[x] = None
  /\ heap' = create_str(heap, 0)
  /\ var' = [var EXCEPT ![x] = Fresh(heap)]
  /\ printed' = 0 /\ answer' = NoAnswer
  /\ UNCHANGED <<oob_mode, at, stmt, stack, garbage, lost>>

(* Whatever is not a variable is owned by the statement (assign_str); the
   string of a variable is copied, unless it is the same one. *)
generate_string_assignment ==
  LET old == var[stmt.target]
      freed == Freed(Cleared, old)
  IN /\ EndsAs("assign") /\ Done
     /\ CASE Above.kind # "variable" -> Stored(freed, Above.block)
          [] Above.kind = "variable" /\ Above.block = old -> Stored(Cleared, old)
          [] OTHER -> Stored(clone_str(freed, Above.block), Fresh(freed))
     /\ lost' = lost \cup (Dropped \ {Above.block})
     /\ UNCHANGED <<oob_mode, printed, answer>>

(* x += e; what e left is freed only where e registered it. *)
generate_append ==
  LET old == var[stmt.target]
      source == Above.block
  IN /\ EndsAs("append")
     /\ Len(Text(heap, old)) + Len(Text(heap, source)) <= MaxLen
     /\ old = source => "append itself" \in Careless
     /\ UNCHANGED <<oob_mode, printed, answer>>
     /\ \E moves \in BOOLEAN :
          LET appended == append_str(heap, old, source, moves)
          IN IF ReadsFreedSource(old, source, moves)
             THEN at' = "undefined" /\ UNCHANGED <<heap, var, stmt, stack, garbage, lost>>
             ELSE /\ Done
                  /\ Stored(FreedAll(appended, garbage \cup Above.late), Moved(heap, old, moves))
                  /\ lost' = lost \cup Literal(Above) \cup Unregistered(Above)

generate_discard ==
  /\ EndsAs("discard") /\ Done
  /\ heap' = IF IsProducer(Above) THEN Freed(Cleared, Above.block) ELSE Cleared
  /\ lost' = lost \cup Dropped
  /\ UNCHANGED <<oob_mode, var, printed, answer>>

(* if e == f, or another operator: all garbage is cleared, sums are not. *)
generate_comparison(op) ==
  /\ Evaluating /\ stmt.form = "compare" /\ Len(stack) = 2 /\ Done
  /\ heap' = FreedAll(heap, garbage \cup Below.late \cup Above.late
                              \cup Literal(Below) \cup Literal(Above))
  /\ lost' = lost \cup Unregistered(Below) \cup Unregistered(Above)
  /\ answer' = [op |-> op, holds |-> generate_string_cmp(op, Text(heap, Below.block),
                                                     Text(heap, Above.block))]
  /\ UNCHANGED <<oob_mode, var, printed>>

(* x[idx] = c *)
assign_str_at(x, idx, c) ==
  LET b == var[x]
      len == Len(Text(heap, b))
      accessed == AccessedAt(len, idx)
  IN /\ Between /\ b # None
     /\ printed' = Prints(Checked /\ idx >= len)
     /\ UNCHANGED <<oob_mode, var, stmt, stack, garbage, lost>>
     /\ answer' = NoAnswer
     /\ \/ AccessAborts(len, idx) /\ at' = "aborted" /\ UNCHANGED heap
        \/ /\ ~AccessAborts(len, idx) /\ accessed \in 0 .. len - 1
           /\ heap' = [heap EXCEPT ![b].text[accessed + 1] = c] /\ UNCHANGED at
        \/ /\ ~AccessAborts(len, idx) /\ accessed \notin 0 .. len - 1
           /\ MayGoWrong(len)
           /\ at' = "undefined" /\ UNCHANGED heap

(* x[idx] is read by the same rules. *)
access_str_at(x, idx) ==
  LET len == Len(Text(heap, var[x]))
      accessed == AccessedAt(len, idx)
  IN /\ Between /\ var[x] # None
     /\ printed' = Prints(Checked /\ idx >= len)
     /\ UNCHANGED <<oob_mode, heap, var, stmt, stack, garbage, lost>>
     /\ answer' = NoAnswer
     /\ \/ AccessAborts(len, idx) /\ at' = "aborted"
        \/ ~AccessAborts(len, idx) /\ accessed \in 0 .. len - 1 /\ UNCHANGED at
        \/ /\ ~AccessAborts(len, idx) /\ accessed \notin 0 .. len - 1
           /\ MayGoWrong(len)
           /\ at' = "undefined"

(* The variable goes out of scope and is freed. *)
generate_end_of_scope(x) ==
  /\ Between /\ var[x] # None
  /\ heap' = Freed(heap, var[x])
  /\ var' = [var EXCEPT ![x] = None]
  /\ printed' = 0 /\ answer' = NoAnswer
  /\ UNCHANGED <<oob_mode, at, stmt, stack, garbage, lost>>

Next ==
  \/ \E form \in StatementForms, target \in Vars \cup {None} : Begin(form, target)
  \/ \E x \in Vars : generate_variable(x)
  \/ \E chars \in Literals : generate_literal(chars)
  \/ \E chars \in Literals : interpolate_literal(chars)
  \/ generate_string_addition
  \/ generate_string_interpolation
  \/ \E from \in 0 .. MaxLen, to \in (0 .. MaxLen + 1) \cup {OpenEnd} : generate_slice(from, to)
  \/ generate_declaration
  \/ \E x \in Vars : generate_default(x)
  \/ generate_string_assignment
  \/ generate_append
  \/ generate_discard
  \/ \E op \in Relations : generate_comparison(op)
  \/ \E x \in Vars, idx \in 0 .. MaxLen, c \in Chars : assign_str_at(x, idx, c)
  \/ \E x \in Vars, idx \in 0 .. MaxLen : access_str_at(x, idx)
  \/ \E x \in Vars : generate_end_of_scope(x)

Spec == Init /\ [][Next]_vars

----------------------------------------
(* Correctness. *)

Held == {var[x] : x \in Vars} \ {None}

(* The type invariant, which also says that no string holds characters
   that nobody wrote: every function that makes a block fills it. *)
TypeOK ==
  /\ \A b \in Blocks : heap[b].text \in Seq(Chars) /\ (~heap[b].live => heap[b].text = << >>)
  /\ var \in [Vars -> Blocks \cup {None}]
  /\ at \in {"idle", "expression", "aborted", "undefined"}
  /\ stmt.form \in StatementForms \cup {"none"}
  /\ \A i \in DOMAIN stack : stack[i].block \in Blocks
  /\ garbage \subseteq Blocks /\ lost \subseteq Blocks

(* No memory is touched that is not there: what a statement reads, frees
   or stores is in use, and no check lets a position through that is not
   in the string. *)
NoUndefinedBehaviour ==
  /\ at # "undefined"
  /\ \A i \in DOMAIN stack : heap[stack[i].block].live
  /\ \A b \in garbage : heap[b].live

(* Between statements a block in use is either lost or the string of
   exactly one variable: no statement shares a block or frees it twice,
   and nothing is lost but what the rules of garbage leave behind. *)
EveryStringHasOneOwner ==
  at = "idle" =>
    /\ \A x, y \in Vars : var[x] = var[y] /\ var[x] # None => x = y
    /\ Held \cap lost = {}
    /\ {b \in Blocks : heap[b].live} = Held \cup lost

(* The heap, the variables and the operands have their types, and no
   statement reads outside a string's text or what was freed. *)
StringsAreReadable == TypeOK /\ NoUndefinedBehaviour

(* What is readable, and owned by one variable or temporary each. *)
StringsAreOwned == StringsAreReadable /\ EveryStringHasOneOwner

(* What a statement gives its target: the value of its expression, behind
   the text it had when it appends. *)
Wanted == (IF stmt.form = "append" THEN Text(heap, var[stmt.target]) ELSE << >>) \o Above.text

(* A step leaves every string alone but the target of its statement, which
   becomes what is wanted; an assignment to a position changes one
   position at most; == and != compare characters. *)
ValuesStep ==
  /\ \A x \in Vars : var'[x] # None /\ (stmt.target # x \/ at' # "idle") =>
       \/ var[x] = None /\ Text(heap', var'[x]) = << >>
       \/ Text(heap', var'[x]) = Text(heap, var[x])
       \/ at = "idle" /\ Cardinality({i \in DOMAIN Text(heap, var[x]) :
                            Text(heap', var'[x])[i] # Text(heap, var[x])[i]}) = 1
  /\ at = "expression" /\ at' = "idle" /\ stmt.target # None =>
       Text(heap', var'[stmt.target]) = Wanted
  /\ stmt.form = "compare" /\ at' = "idle" =>
       /\ answer'.op = "==" => (answer'.holds <=> Below.text = Above.text)
       /\ answer'.op = "!=" => (answer'.holds <=> Below.text # Above.text)

(* Strings are values, in every step of the generated statements. *)
StringsAreValues == [][ValuesStep]_vars

(* Nothing is lost: "whether to free this expression result (when
   discarding it) or whether to clone it (when it's not a producer)"
   (expression_node.hpp:93) is decided so that nothing remains. *)
NothingIsLost == at = "idle" => lost = {}

(* "As above, the OOB options apply to whether a print, crash etc is done
   in here" (generator_string.cpp:1014). *)
SilentPrintsNothing == oob_mode = "SILENT" => printed = 0
=============================================================================
