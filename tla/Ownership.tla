----------------------------- MODULE Ownership -----------------------------
(***************************************************************************)
(* What the functions flint.clone and flint.free of a generated program do *)
(* with a value of each type (src/src/generator/generator_memory.cpp).     *)
(*                                                                         *)
(* A value is what a variable of its type stores (generator_ir.cpp,        *)
(* get_type): a scalar, an address, or a sequence of the values that are   *)
(* stored in one place.  The memory has the blocks of malloc and the slots *)
(* of DIMA, which count their references.  A behaviour makes a value,      *)
(* clones it, and frees the original and the clone in either order.        *)
(*                                                                         *)
(* Data values that are const or shared have no instances (the parser puts *)
(* the field, or a global, in place of an access): they are left out.      *)
(***************************************************************************)
EXTENDS Naturals, Sequences, TLC
LOCAL INSTANCE SequencesExt

CONSTANTS
  Types,          \* of each type id: its kind, what it is made of, and its name
  Held,           \* the types of the values that are made
  Scalars,        \* what the members of a scalar type are
  OpaqueLeakMode  \* "SILENT", "PRINT" or "CRASH"

KindOf(t) == Types[t].kind
Of(t) == Types[t].of

NULL == 0
Unset == <<>>      \* a persistent variable that is not initialized yet
Null == "null"     \* an opaque value that holds nothing
Handle == "handle"

----------------------------------------
(* Types. *)

RECURSIVE is_freeable(_)
is_freeable(t) ==
  CASE KindOf(t) \in {"scalar"} -> FALSE
    [] KindOf(t) = "opaque" -> OpaqueLeakMode # "SILENT"
    [] KindOf(t) \in {"static", "optional", "tuple", "variant"} ->
         \E n \in DOMAIN Of(t) : is_freeable(Of(t)[n])
    [] OTHER -> TRUE

is_dima_managed(t) == KindOf(t) \in {"data", "object"}

(* Whether a variable of the type stores an address. *)
is_complex(t) == KindOf(t) \in {"data", "object", "fn"}
StoresAddress(t) == is_complex(t) \/ KindOf(t) \in {"str", "opaque", "dynamic"}

(* The types flint.free and flint.clone have a case for.  They are told
   apart by their names, where the id a call passes also depends on the
   file a type is defined in. *)
get_all_freeable_types ==
  LET freeable == {t \in DOMAIN Types : is_freeable(t)}
  IN  {CHOOSE t \in freeable : Types[t].name = name : name \in {Types[t].name : t \in freeable}}

----------------------------------------
(* The memory. *)

EmptyMemory == [blocks |-> <<>>, next |-> 1, misused |-> FALSE, leak_reported |-> FALSE]

Misuse(m) == [m EXCEPT !.misused = TRUE]

IsBlock(m, p, allocator) == p \in DOMAIN m.blocks /\ m.blocks[p].allocator = allocator

(* The block at the address m.next, in the memory after it. *)
Allocate(m, allocator, content) ==
  [m EXCEPT !.blocks = (m.next :> [allocator |-> allocator, arc |-> 1, content |-> content]) @@ @,
            !.next = @ + 1]

Without(m, p) ==
  [m EXCEPT !.blocks = [q \in DOMAIN @ \ {p} |-> @[q]]]

free(m, p) ==
  CASE p = NULL -> m
    [] p # NULL /\ IsBlock(m, p, "malloc") -> Without(m, p)
    [] OTHER -> Misuse(m)

retain(m, p) ==
  IF IsBlock(m, p, "dima") THEN [m EXCEPT !.blocks[p].arc = @ + 1] ELSE Misuse(m)

(* The elements of a dynamic array, the fields of a data value, ... *)
Content(m, p) == IF p \in DOMAIN m.blocks THEN m.blocks[p].content ELSE <<>>

(* The types of the values a value of a type is made of. *)
Parts(m, v, t) ==
  CASE KindOf(t) = "static" -> [n \in DOMAIN v |-> Of(t)[1]]
    [] KindOf(t) = "dynamic" -> [n \in DOMAIN Content(m, v) |-> Of(t)[1]]
    [] OTHER -> Of(t)

----------------------------------------
(* flint.free. *)

RECURSIVE flint_free(_, _, _), generate_free_value(_, _, _)

(* The last reference to a slot frees what is stored in it, and the slot. *)
release(m, p, t) ==
  CASE ~IsBlock(m, p, "dima") -> Misuse(m)
    [] IsBlock(m, p, "dima") /\ m.blocks[p].arc > 1 -> [m EXCEPT !.blocks[p].arc = @ - 1]
    [] OTHER -> LET freed == flint_free(m, p, t)
                IN  IF p \in DOMAIN freed.blocks THEN Without(freed, p) ELSE Misuse(freed)

(* What is stored in another value: released, freed, or nothing of both. *)
FreePart(m, v, t) ==
  CASE ~is_freeable(t) -> m
    [] is_freeable(t) /\ is_dima_managed(t) -> release(m, v, t)
    [] OTHER -> flint_free(m, v, t)

FreeParts(m, values, types) ==
  FoldLeftDomain(LAMBDA before, n : FreePart(before, values[n], types[n]), m, values)

FreeArray(m, v, t) ==
  CASE KindOf(t) = "static" -> FreeParts(m, v, Parts(m, v, t))
    [] OTHER -> free(FreeParts(m, Content(m, v), Parts(m, v, t)), v)

(* The slot itself goes in release, which calls this. *)
FreeData(m, v, t) == FreeParts(m, Content(m, v), Of(t))

FreeObject(m, v, t) ==
  FoldLeftDomain(LAMBDA before, n : release(before, Content(m, v)[n], Of(t)[n]), m, Of(t))

FreeError(m, v) == free(m, v[3])

FreeFunc(m, v, t) ==
  FoldLeftDomain(LAMBDA before, n : release(before, v[n], Of(t)[n]), m, Of(t))

(* A callable: its function's persistent variables, of which some may not
   be initialized.  The address of a static array is not what is passed on
   here, but the array. *)
LoadsPersistent(t) == is_complex(t) \/ KindOf(t) \in {"static", "dynamic", "str", "opaque"}

free_callable(m, v, t) ==
  LET locals == Content(m, v)
      FreeLocal(before, n) ==
        CASE ~is_freeable(Of(t)[n]) \/ locals[n] = Unset -> before
          [] LoadsPersistent(Of(t)[n]) # StoresAddress(Of(t)[n]) -> Misuse(before)
          [] OTHER -> FreePart(before, locals[n][1], Of(t)[n])
  IN  free(FoldLeftDomain(FreeLocal, m, locals), v)

(* An interface has the object, its dispatch function and its DIMA head. *)
FreeInterface(m, v) == release(m, v[1], v[3])

FreeOpaque(m, v) ==
  CASE v = Null -> m
    [] OTHER -> [m EXCEPT !.leak_reported = TRUE]

FreeOptional(m, v, t) ==
  CASE KindOf(Of(t)[1]) = "variant" -> generate_free_value(m, v, Of(t)[1])
    [] v[1] = 0 -> m
    [] OTHER -> FreePart(m, v[2], Of(t)[1])

FreeTuple(m, v, t) == FreeParts(m, v, Of(t))

(* What goes to dima.release is the address of the variant, and not what
   is stored in it. *)
FreeVariant(m, v, t) ==
  CASE v[1] = 0 \/ ~is_freeable(Of(t)[v[1]]) -> m
    [] is_dima_managed(Of(t)[v[1]]) -> Misuse(m)
    [] OTHER -> flint_free(m, v[2], Of(t)[v[1]])

generate_free_value(m, v, t) ==
  CASE KindOf(t) \in {"static", "dynamic"} -> FreeArray(m, v, t)
    [] KindOf(t) = "data" -> FreeData(m, v, t)
    [] KindOf(t) = "object" -> FreeObject(m, v, t)
    [] KindOf(t) \in {"error_set", "err_variant"} -> FreeError(m, v)
    [] KindOf(t) = "func" -> FreeFunc(m, v, t)
    [] KindOf(t) = "fn" -> free_callable(m, v, t)
    [] KindOf(t) = "interface" -> FreeInterface(m, v)
    [] KindOf(t) = "str" -> free(m, v)
    [] KindOf(t) = "opaque" -> FreeOpaque(m, v)
    [] KindOf(t) = "optional" -> FreeOptional(m, v, t)
    [] KindOf(t) = "tuple" -> FreeTuple(m, v, t)
    [] KindOf(t) = "variant" -> FreeVariant(m, v, t)

(* An id without a case ends the program. *)
flint_free(m, v, t) ==
  IF t \in get_all_freeable_types THEN generate_free_value(m, v, t) ELSE Misuse(m)

----------------------------------------
(* flint.clone.  A clone is what the memory became, and the value. *)

RECURSIVE flint_clone(_, _, _), generate_clone_value(_, _, _)

(* The values of a sequence, one after the other.  Values that own nothing
   are copied. *)
CloneParts(m, values, types) ==
  FoldLeftDomain(LAMBDA before, n :
      IF ~is_freeable(types[n]) THEN [before EXCEPT !.v = Append(@, values[n])]
      ELSE LET part == flint_clone(before.m, values[n], types[n])
           IN  [m |-> part.m, v |-> Append(before.v, part.v)],
    [m |-> m, v |-> <<>>], values)

(* A new block with clones of what another one holds. *)
CloneBlock(m, v, types, allocator) ==
  LET parts == CloneParts(m, Content(m, v), types)
  IN  IF ~IsBlock(m, v, allocator) THEN [m |-> Misuse(m), v |-> NULL]
      ELSE [m |-> Allocate(parts.m, allocator, parts.v), v |-> parts.m.next]

CloneArray(m, v, t) ==
  CASE KindOf(t) = "static" -> CloneParts(m, v, Parts(m, v, t))
    [] OTHER -> CloneBlock(m, v, Parts(m, v, t), "malloc")

CloneData(m, v, t) == CloneBlock(m, v, Of(t), "dima")

CloneObject(m, v, t) == CloneBlock(m, v, Of(t), "dima")

CloneStr(m, v) ==
  IF ~IsBlock(m, v, "malloc") THEN [m |-> Misuse(m), v |-> NULL]
  ELSE [m |-> Allocate(m, "malloc", Content(m, v)), v |-> m.next]

CloneError(m, v, t) ==
  LET message == CloneStr(m, v[3])
  IN  [m |-> message.m,
       v |-> <<IF KindOf(t) = "error_set" THEN t ELSE v[1], v[2], message.v>>]

(* A func component and its clone share their data, and an interface and
   its clone the object. *)
CloneFunc(m, v, t) ==
  [m |-> FoldLeftDomain(LAMBDA before, n : retain(before, v[n]), m, Of(t)), v |-> v]

(* A mistake: the object is shared without being counted. *)
CloneInterfaceUncounted(m, v) == [m |-> m, v |-> v]

CloneInterface(m, v) == [m |-> retain(m, v[1]), v |-> v]

clone_callable(m, v, t) ==
  LET locals == Content(m, v)
      CloneLocal(before, n) ==
        CASE ~is_freeable(Of(t)[n]) \/ locals[n] = Unset -> [before EXCEPT !.v = Append(@, locals[n])]
          [] LoadsPersistent(Of(t)[n]) # StoresAddress(Of(t)[n]) ->
               [m |-> Misuse(before.m), v |-> Append(before.v, locals[n])]
          [] OTHER -> LET part == flint_clone(before.m, locals[n][1], Of(t)[n])
                      IN  [m |-> part.m, v |-> Append(before.v, <<part.v>>)]
      cloned == FoldLeftDomain(CloneLocal, [m |-> m, v |-> <<>>], locals)
  IN  [m |-> Allocate(cloned.m, "malloc", cloned.v), v |-> cloned.m.next]

CloneOptional(m, v, t) ==
  IF KindOf(Of(t)[1]) = "variant" THEN generate_clone_value(m, v, Of(t)[1])
  ELSE IF v[1] = 0 THEN [m |-> m, v |-> <<0>>]
  ELSE LET value == flint_clone(m, v[2], Of(t)[1]) IN [m |-> value.m, v |-> <<1, value.v>>]

CloneVariant(m, v, t) ==
  IF v[1] = 0 \/ ~is_freeable(Of(t)[v[1]]) THEN [m |-> m, v |-> v]
  ELSE LET value == flint_clone(m, v[2], Of(t)[v[1]]) IN [m |-> value.m, v |-> <<v[1], value.v>>]

generate_clone_value(m, v, t) ==
  CASE KindOf(t) \in {"static", "dynamic"} -> CloneArray(m, v, t)
    [] KindOf(t) = "data" -> CloneData(m, v, t)
    [] KindOf(t) = "object" -> CloneObject(m, v, t)
    [] KindOf(t) \in {"error_set", "err_variant"} -> CloneError(m, v, t)
    [] KindOf(t) = "func" -> CloneFunc(m, v, t)
    [] KindOf(t) = "fn" -> clone_callable(m, v, t)
    [] KindOf(t) = "interface" -> CloneInterface(m, v)
    [] KindOf(t) = "str" -> CloneStr(m, v)
    [] KindOf(t) = "opaque" -> [m |-> m, v |-> v]
    [] KindOf(t) = "optional" -> CloneOptional(m, v, t)
    [] KindOf(t) = "tuple" -> CloneParts(m, v, Of(t))
    [] KindOf(t) = "variant" -> CloneVariant(m, v, t)

flint_clone(m, v, t) ==
  IF t \in get_all_freeable_types THEN generate_clone_value(m, v, t)
  ELSE [m |-> Misuse(m), v |-> v]

----------------------------------------
(* What the values mean to a program, and how it makes them: an optional
   is empty or not, an array empty or of two elements, a persistent
   variable not initialized or so; Depth bounds values inside others of
   their type. *)

CONSTANT Depth

RECURSIVE Meanings(_, _), AllOf(_, _)

AllOf(types, depth) ==
  IF types = <<>> THEN {<<>>}
  ELSE {<<x>> \o rest : x \in Meanings(Head(types), depth), rest \in AllOf(Tail(types), depth)}

Meanings(t, depth) ==
  LET parts == AllOf(Of(t), depth)
      optional == IF depth = 0 THEN {} ELSE Meanings(Of(t)[1], depth - 1)
  IN  CASE KindOf(t) = "scalar" -> Scalars
        [] KindOf(t) = "str" -> {<<"text">>}
        [] KindOf(t) = "opaque" -> {Null, Handle}
        [] KindOf(t) = "error_set" -> {<<t, "value", <<"message">>>>}
        [] KindOf(t) = "err_variant" -> {<<Of(t)[n], "value", <<"message">>>> : n \in DOMAIN Of(t)}
        [] KindOf(t) = "static" -> AllOf(<<Of(t)[1], Of(t)[1]>>, depth)
        [] KindOf(t) = "dynamic" -> {<<>>} \union {<<x, x>> : x \in Meanings(Of(t)[1], depth)}
        [] KindOf(t) \in {"data", "object", "func", "tuple"} -> parts
        [] KindOf(t) = "interface" -> {<<x, "dispatch", Of(t)[1]>> : x \in Meanings(Of(t)[1], depth)}
        [] KindOf(t) = "fn" ->
             {[n \in DOMAIN Of(t) |-> IF set[n] THEN <<p[n]>> ELSE Unset] :
                p \in parts, set \in [DOMAIN Of(t) -> BOOLEAN]}
        [] KindOf(t) = "variant" ->
             UNION {{<<n, x>> : x \in Meanings(Of(t)[n], depth)} : n \in DOMAIN Of(t)}
        [] KindOf(t) = "optional" /\ KindOf(Of(t)[1]) = "variant" -> {<<0>>} \union optional
        [] KindOf(t) = "optional" /\ KindOf(Of(t)[1]) # "variant" ->
             {<<0>>} \union {<<1, x>> : x \in optional}

(* A value of a meaning, in the memory it is made in. *)
RECURSIVE Build(_, _, _)

BuildParts(m, meanings, types) ==
  FoldLeftDomain(LAMBDA before, n :
      LET part == Build(before.m, meanings[n], types[n])
      IN  [m |-> part.m, v |-> Append(before.v, part.v)],
    [m |-> m, v |-> <<>>], meanings)

Build(m, x, t) ==
  LET Inside(parts, allocator) ==
        [m |-> Allocate(parts.m, allocator, parts.v), v |-> parts.m.next]
      Behind(n, part) == [m |-> part.m, v |-> [x EXCEPT ![n] = part.v]]
      Locals ==
        FoldLeftDomain(LAMBDA before, n :
            LET part == Build(before.m, x[n][1], Of(t)[n])
            IN  IF x[n] = Unset THEN [before EXCEPT !.v = Append(@, Unset)]
                ELSE [m |-> part.m, v |-> Append(before.v, <<part.v>>)],
          [m |-> m, v |-> <<>>], x)
  IN  CASE KindOf(t) \in {"scalar", "opaque"} -> [m |-> m, v |-> x]
        [] KindOf(t) = "str" -> Inside([m |-> m, v |-> x], "malloc")
        [] KindOf(t) \in {"error_set", "err_variant"} -> Behind(3, Inside([m |-> m, v |-> x[3]], "malloc"))
        [] KindOf(t) = "static" -> BuildParts(m, x, [n \in DOMAIN x |-> Of(t)[1]])
        [] KindOf(t) = "dynamic" -> Inside(BuildParts(m, x, [n \in DOMAIN x |-> Of(t)[1]]), "malloc")
        [] KindOf(t) \in {"data", "object"} -> Inside(BuildParts(m, x, Of(t)), "dima")
        [] KindOf(t) \in {"func", "tuple"} -> BuildParts(m, x, Of(t))
        [] KindOf(t) = "interface" -> Behind(1, Build(m, x[1], Of(t)[1]))
        [] KindOf(t) = "fn" -> Inside(Locals, "malloc")
        [] KindOf(t) = "variant" -> Behind(2, Build(m, x[2], Of(t)[x[1]]))
        [] KindOf(t) = "optional" /\ x[1] = 0 -> [m |-> m, v |-> x]
        [] KindOf(t) = "optional" /\ x[1] # 0 /\ KindOf(Of(t)[1]) = "variant" -> Build(m, x, Of(t)[1])
        [] KindOf(t) = "optional" /\ x[1] # 0 /\ KindOf(Of(t)[1]) # "variant" -> Behind(2, Build(m, x[2], Of(t)[1]))

(* Whether a value has the meaning: every address on the way is allocated
   and what is stored there has the meaning it should. *)
RECURSIVE Means(_, _, _, _)

PartsMean(m, values, meanings, types) ==
  /\ Len(values) = Len(meanings)
  /\ \A n \in DOMAIN meanings : Means(m, values[n], meanings[n], types[n])

Means(m, v, x, t) ==
  LET Inside(allocator) == IsBlock(m, v, allocator) /\ PartsMean(m, Content(m, v), x, Of(t))
  IN  CASE KindOf(t) \in {"scalar", "opaque"} -> v = x
        [] KindOf(t) = "str" -> IsBlock(m, v, "malloc") /\ Content(m, v) = x
        [] KindOf(t) \in {"error_set", "err_variant"} ->
             v[1] = x[1] /\ v[2] = x[2] /\ IsBlock(m, v[3], "malloc") /\ Content(m, v[3]) = x[3]
        [] KindOf(t) = "static" -> PartsMean(m, v, x, Parts(m, v, t))
        [] KindOf(t) = "dynamic" ->
             IsBlock(m, v, "malloc") /\ PartsMean(m, Content(m, v), x, [n \in DOMAIN x |-> Of(t)[1]])
        [] KindOf(t) \in {"data", "object"} -> Inside("dima")
        [] KindOf(t) \in {"func", "tuple"} -> PartsMean(m, v, x, Of(t))
        [] KindOf(t) = "interface" -> v[2] = x[2] /\ v[3] = x[3] /\ Means(m, v[1], x[1], Of(t)[1])
        [] KindOf(t) = "fn" ->
             /\ IsBlock(m, v, "malloc")
             /\ \A n \in DOMAIN x :
                  IF x[n] = Unset THEN Content(m, v)[n] = Unset
                  ELSE Means(m, Content(m, v)[n][1], x[n][1], Of(t)[n])
        [] KindOf(t) = "variant" -> v[1] = x[1] /\ Means(m, v[2], x[2], Of(t)[x[1]])
        [] KindOf(t) = "optional" /\ x[1] = 0 -> v[1] = 0
        [] KindOf(t) = "optional" /\ x[1] # 0 /\ KindOf(Of(t)[1]) = "variant" -> Means(m, v, x, Of(t)[1])
        [] KindOf(t) = "optional" /\ x[1] # 0 /\ KindOf(Of(t)[1]) # "variant" ->
             v[1] = 1 /\ Means(m, v[2], x[2], Of(t)[1])

----------------------------------------
(* A value, its clone, and their ends. *)

VARIABLES
  held,       \* the type of the value
  meaning,
  blocks,     \* the memory
  original,   \* the value, its clone, and whether they are there
  clone,
  alive

ownership == <<held, meaning, blocks, original, clone, alive>>

OwnershipInit ==
  /\ held \in Held
  /\ meaning \in Meanings(held, Depth)
  /\ LET made == Build(EmptyMemory, meaning, held)
     IN  blocks = made.m /\ original = made.v
  /\ clone = Unset
  /\ alive = {"original"}

MakeClone ==
  /\ alive = {"original"} /\ clone = Unset
  /\ LET made == flint_clone(blocks, original, held)
     IN  blocks' = made.m /\ clone' = <<made.v>>
  /\ alive' = {"original", "clone"}
  /\ UNCHANGED <<held, meaning, original>>

(* The end of a variable's scope. *)
End(which) ==
  /\ which \in alive
  /\ clone # Unset
  /\ blocks' = FreePart(blocks, IF which = "clone" THEN clone[1] ELSE original, held)
  /\ alive' = alive \ {which}
  /\ UNCHANGED <<held, meaning, original, clone>>

OwnershipNext == MakeClone \/ \E which \in {"original", "clone"} : End(which)

----------------------------------------
(* Whether there is an opaque value in a value that is not null. *)
RECURSIVE HoldsHandle(_, _)
HoldsHandle(x, t) ==
  LET Some(types) == \E n \in DOMAIN x : HoldsHandle(x[n], types[n])
  IN  CASE KindOf(t) = "opaque" -> x = Handle
        [] KindOf(t) \in {"data", "object", "func", "tuple"} -> Some(Of(t))
        [] KindOf(t) \in {"static", "dynamic"} -> Some([n \in DOMAIN x |-> Of(t)[1]])
        [] KindOf(t) = "interface" -> HoldsHandle(x[1], Of(t)[1])
        [] KindOf(t) = "fn" -> \E n \in DOMAIN x : x[n] # Unset /\ HoldsHandle(x[n][1], Of(t)[n])
        [] KindOf(t) = "variant" -> HoldsHandle(x[2], Of(t)[x[1]])
        [] KindOf(t) = "optional" ->
             x[1] # 0 /\ IF KindOf(Of(t)[1]) = "variant" THEN HoldsHandle(x, Of(t)[1])
                         ELSE HoldsHandle(x[2], Of(t)[1])
        [] OTHER -> FALSE

(* A clone means what its original means, and keeps its meaning when the
   original ends, as the original does when the clone ends.  Nothing is
   freed twice or by the wrong allocator or for a type that flint.free
   does not know, and when both have ended nothing is left, except what is
   behind an opaque value, which is reported. *)
ClonesStandAlone ==
  /\ ~blocks.misused
  /\ "original" \in alive => Means(blocks, original, meaning, held)
  /\ "clone" \in alive => Means(blocks, clone[1], meaning, held)
  /\ alive = {} => /\ blocks.blocks = <<>>
                   /\ blocks.leak_reported <=> HoldsHandle(meaning, held)
=============================================================================
