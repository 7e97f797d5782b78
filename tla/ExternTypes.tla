---------------------------- MODULE ExternTypes ----------------------------
(***************************************************************************)
(* A call of an extern function: how a generated program hands values to   *)
(* code compiled by a C compiler and takes its result back, on the System  *)
(* V ABI (src/src/generator/generator_ir.cpp, get_extern_type, and         *)
(* generator_expression.cpp, convert_type_to_ext, convert_type_from_ext    *)
(* and generate_extern_call; the Windows branches are left out).           *)
(*                                                                         *)
(* The same rules are written down three times in the code: for the types  *)
(* of the declaration, for the arguments and for the result.  C has its    *)
(* own: a struct of up to 16 bytes travels in registers, one for each of   *)
(* its eightbytes.                                                         *)
(*                                                                         *)
(* The content of a value is the set of <<position, tag>> where the bytes  *)
(* named by the tag begin.  Two that overlap have been mixed up.           *)
(***************************************************************************)
EXTENDS Naturals, Sequences, FiniteSets
LOCAL INSTANCE SequencesExt

CONSTANTS
  Signatures,            (* the signatures that are called                      *)
  BoundaryCareless  (* what signatures do that the conversions get wrong   *)

VARIABLES
  signature,  (* the types of the parameters and of the result             *)
  step,       (* "declare", "convert", "call", "receive" or "done"         *)
  declared,   (* the parameter types and the result of the declaration     *)
  converted,  (* the arguments so far                                      *)
  valid,      (* whether the code that was generated is valid              *)
  arrived,    (* what the C function sees                                  *)
  received,   (* the element that is where each element of the result was  *)
              (* expected *)
  blocks      (* the memory that holds the result                          *)

boundary_vars == <<signature, step, declared, converted, valid, arrived, received, blocks>>

----------------------------------------
(* Types.  A type is a form and its elements: arrays inside a struct are
   expanded into their elements. *)

Size(k) ==
  CASE k \in {"i8", "bool"} -> 1 [] k = "i16" -> 2 [] k \in {"i32", "f32"} -> 4 [] OTHER -> 8

LLVM(kind, size, lanes) == [kind |-> kind, size |-> size, lanes |-> lanes]
IntN(size) == LLVM("int", size, 1)
Ptr == LLVM("ptr", 8, 1)
LLVMOf(k) ==
  CASE k = "bool" -> LLVM("i1", 1, 1)
    [] k \in {"f32", "f64"} -> LLVM("float", Size(k), 1)
    [] k \in {"ptr", "str"} -> Ptr
    [] OTHER -> IntN(Size(k))
Vec2(k) == [LLVMOf(k) EXCEPT !.lanes = 2]

IsFloat(k) == k \in {"f32", "f64"}
Aligned(offset, size) == IF offset % size = 0 THEN offset ELSE ((size + offset) \div size) * size

(* Where each element of a struct is. *)
RECURSIVE Place(_, _)
Place(elems, offset) ==
  IF elems = << >> THEN << >>
  ELSE LET here == Aligned(offset, Size(Head(elems)))
       IN <<here>> \o Place(Tail(elems), here + Size(Head(elems)))
Offsets(t) == Place(t.elems, 0)

IsStruct(t) == t.form \in {"data", "tuple", "group"}
Widest(elems) == CHOOSE n \in {Size(elems[e]) : e \in DOMAIN elems} :
                   \A e \in DOMAIN elems : Size(elems[e]) <= n
SizeOf(elems) ==
  Aligned(Last(Place(elems, 0)) + Size(Last(elems)), Widest(elems))

(* get_type_size: a vector takes a power of two. *)
get_type_size(t) ==
  IF t.form = "vector" /\ Len(t.elems) = 3 THEN 4 * Size(Head(t.elems)) ELSE SizeOf(t.elems)

----------------------------------------
(* What C does (external): the class of an eightbyte, and what it holds. *)

Eightbytes(t, p) ==
  LET InByte(b) == {e \in DOMAIN t.elems : Offsets(t)[e] \div 8 = b}
  IN [b \in 1 .. (IF SizeOf(t.elems) > 8 THEN 2 ELSE 1) |->
        [class |-> IF \A e \in InByte(b - 1) : IsFloat(t.elems[e]) THEN "sse" ELSE "int",
         holds |-> {<<Offsets(t)[e] % 8, <<p, e>>>> : e \in InByte(b - 1)}]]

InMemory(t) == SizeOf(t.elems) > 16
OfClass(pieces, class) ==
  LET Its(r) == r.class = class IN SelectSeq(pieces, Its)

IntRegisters == 6
SseRegisters == 8
NoInputs == [c \in {"int", "sse", "memory"} |-> << >>]

(* The pieces of one parameter: in registers, or all of them on the stack. *)
Arrive(inputs, pieces) ==
  LET Taken(c) == inputs[c] \o OfClass(pieces, c)
  IN IF Len(Taken("int")) <= IntRegisters /\ Len(Taken("sse")) <= SseRegisters
     THEN [c \in DOMAIN inputs |-> Taken(c)]
     ELSE [inputs EXCEPT !["memory"] = @ \o pieces]

Whole(p) == {<<0, <<p, 0>>>>}

(* What a C function with these parameters finds in registers and memory. *)
CInputs(ps, ret) ==
  LET Pieces(p) == IF InMemory(ps[p]) THEN <<[class |-> "memory", holds |-> Whole(p)]>>
                   ELSE Eightbytes(ps[p], p)
      First == IF InMemory(ret) THEN << <<[class |-> "int", holds |-> Whole(0)]>> >> ELSE << >>
  IN FoldLeft(Arrive, NoInputs, First \o [p \in DOMAIN ps |-> Pieces(p)])

----------------------------------------
(* How the elements of a small struct are laid out: the offsets within its
   two containers of eight bytes. *)

RECURSIVE Fill(_, _)
Fill(elems, offset) ==
  IF elems = << >> THEN << >>
  ELSE LET size == Size(Head(elems))
           here == Aligned(offset, size)
       IN IF 8 < offset + size \/ here = 8 THEN << >>
          ELSE <<here>> \o Fill(Tail(elems), here + size)

Stacks(t) ==
  LET first == Fill(t.elems, 0)
  IN <<first, Fill(SubSeq(t.elems, Len(first) + 1, Len(t.elems)), 0)>>
first_size(t) ==
  LET n == Len(Stacks(t)[1]) IN Stacks(t)[1][n] + Size(t.elems[n])

(* u8 values only, packed into i24, i40 and the like. *)
IsBytes(t) == Stacks(t)[2] = << >> /\ Len(Stacks(t)[1]) = first_size(t)
TwoFloats(t, e) == t.elems[e] = "f32" /\ t.elems[e + 1] = "f32"

StructExternType(t) ==
  LET first == Stacks(t)[1]
      second == Stacks(t)[2]
      n == Len(first)
      First == CASE n = 1 -> IF IsFloat(t.elems[1]) THEN LLVMOf("f64") ELSE IntN(8)
                 [] n = 2 /\ TwoFloats(t, 1) -> Vec2("f32")
                 [] OTHER -> IntN(8)
      Second == CASE Len(second) = 1 -> LLVMOf(t.elems[n + 1])
                [] Len(second) = 2 /\ TwoFloats(t, n + 1) -> Vec2(t.elems[1])
                [] OTHER -> IntN(8)
  IN CASE get_type_size(t) > 16 -> <<Ptr>>
       [] get_type_size(t) <= 16 /\ IsBytes(t) -> <<IntN(first_size(t))>>
       [] get_type_size(t) <= 16 /\ ~IsBytes(t) ->
            IF second = << >> /\ n = 1 THEN <<LLVMOf(t.elems[1])>>
            ELSE IF second = << >> /\ n = 2 /\ TwoFloats(t, 1) THEN <<Vec2("f32")>>
            ELSE <<First, Second>>

(* A vector is a struct to C.  bool8 was meant to be left to get_type. *)
VectorExternType(t) ==
  LET k == Head(t.elems)
      n == Len(t.elems)
      Pair == IF k = "f32" THEN Vec2(k) ELSE IntN(8)
  IN CASE k = "i8" -> <<IntN(n)>>
       [] k = "i16" -> IF n <= 4 THEN <<IntN(2 * n)>> ELSE <<IntN(8), IntN(8)>>
       [] Size(k) = 8 -> [e \in 1 .. n |-> LLVMOf(k)]
       [] k \in {"i32", "f32"} /\ n = 3 -> <<Pair, LLVMOf(k)>>
       [] k \in {"i32", "f32", "bool"} /\ n # 3 -> [e \in 1 .. (n \div 2) |-> Pair]

get_extern_type(t) ==
  CASE IsStruct(t) -> StructExternType(t)
    [] t.form = "vector" -> VectorExternType(t)
    [] t.form = "scalar" -> <<LLVMOf(t.elems[1])>>

----------------------------------------
(* Arguments. *)

Value(type, holds) == [type |-> type, holds |-> holds]

(* In the first container only the last element is shifted. *)
PackFirst(t, p) ==
  LET first == Stacks(t)[1]
      n == Len(first)
  IN CASE n = 1 -> Value(LLVMOf(t.elems[1]), {<<0, <<p, 1>>>>})
       [] n = 2 /\ TwoFloats(t, 1) -> Value(Vec2("f32"), {<<0, <<p, 1>>>>, <<4, <<p, 2>>>>})
       [] OTHER -> Value(IntN(8), {<<IF e = n THEN first[e] ELSE 0, <<p, e>>>> : e \in 1 .. n})

PackSecondUnshifted(t, p) ==
  LET n == Len(Stacks(t)[1])
      second == Stacks(t)[2]
  IN Value(get_extern_type(t)[2], {<<0, <<p, n + e>>>> : e \in DOMAIN second})
PackSecond(t, p) ==
  LET n == Len(Stacks(t)[1])
      second == Stacks(t)[2]
  IN CASE Len(second) = 1 -> Value(LLVMOf(t.elems[n + 1]), {<<0, <<p, n + 1>>>>})
       [] Len(second) = 2 /\ TwoFloats(t, n + 1) ->
            Value(Vec2("f32"), {<<0, <<p, n + 1>>>>, <<4, <<p, n + 2>>>>})
       [] OTHER -> Value(IntN(8), {<<second[e], <<p, n + e>>>> : e \in DOMAIN second})

convert_data_type_to_ext(t, p) ==
  CASE get_type_size(t) > 16 -> <<Value(Ptr, {<<0, <<p, 0>>>>})>>
    [] get_type_size(t) <= 16 /\ IsBytes(t) ->
         <<Value(IntN(first_size(t)), {<<e - 1, <<p, e>>>> : e \in DOMAIN t.elems})>>
    [] get_type_size(t) <= 16 /\ ~IsBytes(t) -> <<PackFirst(t, p), PackSecond(t, p)>>

(* A piece of a vector: `count` lanes from `from` on. *)
Lanes(t, p, type, from, count) ==
  Value(type, {<<(e - from) * Size(Head(t.elems)), <<p, e>>>> : e \in from .. from + count - 1})

VectorToExt(t, p) ==
  LET k == Head(t.elems)
      n == Len(t.elems)
      Pair == IF k \in {"f32", "bool"} THEN Vec2(k) ELSE IntN(8)
  IN CASE Size(k) = 8 -> [e \in 1 .. n |-> Lanes(t, p, LLVMOf(k), e, 1)]
       [] k = "i8" \/ (k = "i16" /\ n <= 4) -> <<Lanes(t, p, IntN(n * Size(k)), 1, n)>>
       [] k = "i16" /\ n > 4 -> <<Lanes(t, p, IntN(8), 1, 4), Lanes(t, p, IntN(8), 5, 4)>>
       [] k \in {"i32", "f32"} /\ n = 3 -> <<Lanes(t, p, Pair, 1, 2), Lanes(t, p, LLVMOf(k), 3, 1)>>
       [] k \in {"i32", "f32", "bool"} /\ n # 3 ->
            [c \in 1 .. (n \div 2) |-> Lanes(t, p, Pair, 2 * c - 1, 2)]

convert_type_to_ext(t, p) ==
  CASE IsStruct(t) -> convert_data_type_to_ext(t, p)
    [] t.form = "vector" -> VectorToExt(t, p)
    [] t.form = "scalar" -> <<Value(LLVMOf(t.elems[1]), {<<0, <<p, 1>>>>})>>

----------------------------------------
(* What no part of the code takes care of. *)

TwoContainers(t) == IsStruct(t) /\ SizeOf(t.elems) <= 16 /\ Stacks(t)[2] # << >>
OneContainer(t) == IsStruct(t) /\ SizeOf(t.elems) <= 16 /\ Stacks(t)[2] = << >> /\ ~IsBytes(t)
TailOfFloats(t) ==
  LET n == Len(Stacks(t)[1])
  IN TwoContainers(t) /\ Len(Stacks(t)[2]) = 2 /\ TwoFloats(t, n + 1) /\ t.elems[1] # "f32"

ParameterHits(t) ==
  (IF OneContainer(t) THEN {"one container"} ELSE {})
  \union (IF TwoContainers(t) /\ Len(Stacks(t)[1]) = 1 /\ t.elems[1] \notin {"i64", "f64"}
          THEN {"narrow front"} ELSE {})
  \union (IF TwoContainers(t) /\ Len(Stacks(t)[1]) > 2 THEN {"three in front"} ELSE {})
  \union (IF TailOfFloats(t) THEN {"floats behind"} ELSE {})
  \union (IF t.form = "vector" /\ InMemory(t) THEN {"wide vector"} ELSE {})
  \union (IF t.form = "vector" /\ Head(t.elems) = "bool" THEN {"bool8"} ELSE {})
ResultHits(t) ==
  (IF OneContainer(t) /\ Len(t.elems) <= 2 /\ (Len(t.elems) = 1 \/ TwoFloats(t, 1))
   THEN {"one container"} ELSE {})
  \union (IF TailOfFloats(t) THEN {"floats behind"} ELSE {})
  \union (IF t.form = "vector" /\ Head(t.elems) = "bool" THEN {"bool8"} ELSE {})
  \union (IF t.form = "tuple" /\ ~InMemory(t) THEN {"tuple result"} ELSE {})
CallHits(ps, ret) ==
  (IF \E p, q \in DOMAIN ps : p < q /\ Len(get_extern_type(ps[p])) > 1 /\ InMemory(ps[q])
   THEN {"reference behind"} ELSE {})
  \union (IF CInputs(ps, ret)["memory"] # << >> /\ \A p \in DOMAIN ps : ~InMemory(ps[p])
          THEN {"registers"} ELSE {})

Hits(c) ==
  UNION {ParameterHits(c.params[p]) : p \in DOMAIN c.params}
    \union ResultHits(c.result) \union CallHits(c.params, c.result)

----------------------------------------
(* One call. *)

BoundaryInit ==
  /\ signature \in {c \in Signatures : Hits(c) \subseteq BoundaryCareless}
  /\ step = "declare"
  /\ declared = [params |-> << >>, result |-> << >>]
  /\ converted = << >> /\ valid = TRUE
  /\ arrived = NoInputs /\ received = << >> /\ blocks = {}

params == signature.params
result_type == signature.result
needs_sret == get_type_size(result_type) > 16
sret == IF needs_sret THEN <<Value(Ptr, Whole(0))>> ELSE << >>

(* Function::generate_function_type: structs are flattened. *)
generate_function_type ==
  /\ step = "declare"
  /\ declared' = [params |-> [v \in DOMAIN sret |-> Ptr]
                               \o FlattenSeq([p \in DOMAIN params |-> get_extern_type(params[p])]),
                  result |-> IF needs_sret THEN << >> ELSE get_extern_type(result_type)]
  /\ converted' = sret
  /\ step' = "convert"
  /\ UNCHANGED <<signature, valid, arrived, received, blocks>>

(* All the arguments, from the first to the last. *)
ConvertArguments ==
  /\ step = "convert"
  /\ converted' = converted \o FlattenSeq([p \in DOMAIN params |-> convert_type_to_ext(params[p], p)])
  /\ step' = "call"
  /\ UNCHANGED <<signature, declared, valid, arrived, received, blocks>>

(* The attribute byval goes to the argument's number, not to where its
   value is. *)
ByVal ==
  {Len(sret) + p : p \in {q \in DOMAIN params : get_type_size(params[q]) > 16}}

PassedAs(n) ==
  [class |-> IF n \in ByVal THEN "memory"
             ELSE IF converted[n].type.kind = "float" THEN "sse" ELSE "int",
   holds |-> converted[n].holds]

CallExtern ==
  /\ step = "call"
  /\ valid' = /\ [n \in DOMAIN converted |-> converted[n].type] = declared.params
              /\ \A n \in ByVal : converted[n].type = Ptr
  /\ arrived' = FoldLeft(Arrive, NoInputs, [n \in DOMAIN converted |-> <<PassedAs(n)>>])
  /\ step' = "receive"
  /\ UNCHANGED <<signature, declared, converted, received, blocks>>

(* Container c of the result: what C left in the next register of its
   class. *)
ClassOf(type) == IF type.kind = "float" THEN "sse" ELSE "int"
Returned(c) ==
  LET type == declared.result[c]
      Same(d) == ClassOf(d) = ClassOf(type)
      k == Len(SelectSeq(SubSeq(declared.result, 1, c), Same))
      registers == OfClass(Eightbytes(result_type, 0), ClassOf(type))
  IN IF k <= Len(registers) THEN registers[k].holds ELSE {}
At(c, position) ==
  LET here == {h \in Returned(c) : h[1] = position}
  IN IF Cardinality(here) = 1 THEN (CHOOSE h \in here : TRUE)[2] ELSE "garbage"

(* convert_data_type_from_ext: where element e is taken from. *)
FromContainer(e) ==
  LET n == Len(Stacks(result_type)[1])
      c == IF e <= n THEN 1 ELSE 2
      k == IF e <= n THEN e ELSE e - n
      stack == Stacks(result_type)[c]
  IN IF Len(stack) = 2 /\ TwoFloats(result_type, IF c = 1 THEN 1 ELSE n + 1)
     THEN At(c, (k - 1) * declared.result[c].size)
     ELSE At(c, stack[k])

FromVector(e) ==
  LET size == Size(Head(result_type.elems))
      per == 8 \div size
  IN At(((e - 1) \div per) + 1, ((e - 1) % per) * size)

(* ExtractValue needs a struct. *)
Extracts == IsStruct(result_type) /\ ~IsBytes(result_type)

ReceiveSmall ==
  /\ step = "receive" /\ ~needs_sret
  /\ valid' = (valid /\ (Extracts => Len(declared.result) = 2))
  /\ received' = IF ~valid' THEN << >>
                 ELSE [e \in DOMAIN result_type.elems |->
                         CASE IsStruct(result_type) /\ IsBytes(result_type) -> At(1, e - 1)
                           [] IsStruct(result_type) /\ ~IsBytes(result_type) -> FromContainer(e)
                           [] result_type.form = "vector" -> FromVector(e)
                           [] result_type.form = "scalar" -> At(1, 0)]
  /\ blocks' = CASE result_type.form = "data" -> {"dima"}
                 [] result_type.form = "tuple" -> {"malloc"}
                 [] OTHER -> {}     \* the block of a group is freed at once
  /\ step' = "done"
  /\ UNCHANGED <<signature, declared, converted, arrived>>
(* The result is in the scratch space: data is copied to a slot of its
   own, anything else is loaded. *)
ReceiveLarge ==
  /\ step = "receive" /\ needs_sret
  /\ received' = [e \in DOMAIN result_type.elems |-> <<0, e>>]
  /\ blocks' = IF result_type.form = "data" THEN {"dima"} ELSE {}
  /\ step' = "done"
  /\ UNCHANGED <<signature, declared, converted, valid, arrived>>

BoundaryNext ==
  \/ generate_function_type \/ ConvertArguments \/ CallExtern
  \/ ReceiveSmall \/ ReceiveLarge

----------------------------------------
(* Properties. *)

BoundaryTypeOK ==
  /\ step # "declare" => signature \in Signatures
  /\ step \in {"declare", "convert", "call", "receive", "done"}
  /\ valid \in BOOLEAN
  /\ blocks \subseteq {"dima", "malloc"}

(* A value that is passed to an extern function, or returned by one, is
   the same on both sides: the call is valid code, each register and each
   stack slot that the C function looks at holds the elements it expects
   there at the offsets it expects (what convert_data_type_to_ext and the
   attribute byval decide), each element of the result is taken from where
   C left it, and only data keeps memory afterwards. *)
CrossesUnchanged ==
  /\ BoundaryTypeOK
  /\ valid
  /\ step \in {"receive", "done"} => arrived = CInputs(params, result_type)
  /\ step = "done" =>
       /\ received = [e \in DOMAIN result_type.elems |-> <<0, e>>]
       /\ blocks = IF result_type.form = "data" THEN {"dima"} ELSE {}
=============================================================================
