------------------------------ MODULE Castability ------------------------------
(***************************************************************************)
(* Which type can be cast to which, and what a cast does to an expression: *)
(* Analyzer::Castability in src/src/analyzer/analyzer_castability.cpp with *)
(* the casting tables of src/include/lexer/builtins.hpp.                   *)
(*                                                                         *)
(* A type is a record with its kind.  An expression is a record with its   *)
(* node, its type and its parts.  Namespaces, which keep one object per    *)
(* type, are left out: types are equal when their records are.             *)
(***************************************************************************)
EXTENDS Integers, Sequences, FiniteSets

CONSTANTS
  ErrorParents,  \* <<parent, child>> for error sets by name
  Implements     \* <<object, func component or interface>> by name

----------------------------------------
(* Types. *)

Prim(n) == [kind |-> "primitive", name |-> n]
Named(k, n) == [kind |-> k, name |-> n]
Alias(t) == [kind |-> "alias", base |-> t]
Vec(t, w) == [kind |-> "vector", base |-> t, width |-> w]
Opt(t) == [kind |-> "optional", base |-> t]
Variant(ts) == [kind |-> "variant", members |-> ts]
Arr(t, fixed) == [kind |-> "array", base |-> t, fixed |-> fixed, empty |-> FALSE]
Group(ts) == [kind |-> "group", types |-> ts]
Tuple(ts) == [kind |-> "tuple", types |-> ts]
NoType == [kind |-> "no type"]

IntLit == Prim("int")         \* the type of an integer literal
FloatLit == Prim("float")     \* that of a floating point literal
StrLit == Prim("strlit")   \* type.flint.str.lit
Literals == {IntLit, FloatLit, StrLit}
Str == Prim("str")
U8 == Prim("u8")
I8 == Prim("i8")
U64 == Prim("u64")
I32 == Prim("i32")
F32 == Prim("f32")
Bool == Prim("bool")
Bool8 == Vec(Bool, 8)
NoneLit == Opt(Prim("void"))

Integral == {"u8", "i8", "u16", "i16", "u32", "i32", "u64", "i64"}
Numbers == Integral \union {"f32", "f64"}

(* primitive_implicit_casting_table, the rows of the scalars; from a
   vector to another the same row holds. *)
Widened ==
  [u8 |-> {"u16", "i16", "u32", "i32", "f32", "u64", "i64", "f64"},
   i8 |-> {"i16", "i32", "i64", "f32", "f64"},
   u16 |-> {"u32", "i32", "u64", "i64", "f32", "f64"},
   i16 |-> {"i32", "i64", "f32", "f64"},
   u32 |-> {"i64", "u64", "f32", "f64"},
   i32 |-> {"i64", "f64"},
   u64 |-> {}, i64 |-> {},
   f32 |-> {"f64"}, f64 |-> {},
   int |-> Numbers, float |-> {"f32", "f64"}, bool |-> {}, strlit |-> {}]

(* primitive_casting_table *)
Converted(n) == IF n = "strlit" THEN {} ELSE Numbers \ {n}

VectorExists(n, w) == w = 8 => n \notin {"u64", "i64", "f64"}

Targets(t, implicit) ==
  LET row(n) == IF implicit THEN Widened[n] ELSE Converted(n) IN
  CASE t = Bool8 -> {Str, U8} \union IF implicit THEN {} ELSE {I8}
    [] t.kind = "vector" /\ t # Bool8 ->
         {Str} \union {Vec(Prim(n), t.width) :
                         n \in {m \in row(t.base.name) : VectorExists(m, t.width)}}
    [] t.kind = "primitive" /\ t.name \in DOMAIN Widened ->
         {Str} \union {Prim(n) : n \in row(t.name)} \union IF t \in {U8, I8} THEN {Bool8} ELSE {}
    [] t = Arr(U8, FALSE) /\ ~implicit -> {Str}
    [] OTHER -> {}

----------------------------------------
(* CastDirection: "same", "ltr" (the left one to the right one), "rtl",
   "both" (either way) and "not". *)

Flip(d) == CASE d = "ltr" -> "rtl" [] d = "rtl" -> "ltr" [] OTHER -> d
FromRight == {"same", "rtl", "both"}

Direction(right, left) ==
  CASE right /\ ~left -> "ltr" [] left /\ ~right -> "rtl" [] left /\ right -> "both" [] OTHER -> "not"

BecomesRight(l, r) ==
  \/ <<l, r>> = <<IntLit, FloatLit>>
  \/ l.kind = "pointer" /\ r.kind = "opaque"
  \/ l.kind = "error" /\ r.kind = "error" /\ <<l.name, r.name>> \in ErrorParents
  \/ l.kind = "object" /\ r.kind \in {"func", "interface"} /\ <<l.name, r.name>> \in Implements

(* The left operand may be a string that the right one is turned into; not
   the other way round. *)
check_primitive_castability(l, r, implicit) ==
  IF BecomesRight(l, r) THEN "ltr"
  ELSE IF BecomesRight(r, l) \/ (l = Str /\ r.kind \in {"enum", "error", "opaque"}) THEN "rtl"
  ELSE Direction(r \in Targets(l, implicit), l \in Targets(r, implicit))

RECURSIVE check_types(_, _, _)

is_castable_to(to, from) == check_types(to, from, TRUE) \in FromRight

ToOptional(d) == CASE d = "same" -> "same" [] d \in {"both", "rtl"} -> "rtl" [] OTHER -> "not"

OptionalOnTheLeft(l, r, implicit) ==
  IF \/ l.base = r
     \/ r \in {IntLit, FloatLit} /\ check_primitive_castability(l.base, r, TRUE) = "rtl"
    THEN "rtl"
  ELSE ToOptional(check_types(l.base, r, implicit))

(* The direction that is asked for is that of the base type on the left,
   and it is not turned round. *)
OptionalOnTheRight(l, r, implicit) ==
  \/ r.base = l
  \/ l \in {IntLit, FloatLit} /\ check_primitive_castability(r.base, l, TRUE) = "rtl"
  \/ check_types(r.base, l, implicit) \in {"both", "ltr"}

CastSingles(l, r, implicit) ==
  CASE l.kind = "vector" /\ r.kind # "vector" /\ is_castable_to(l.base, r) -> "rtl"
    [] l.kind # "vector" /\ r.kind = "vector" /\ is_castable_to(r.base, l) -> "ltr"
    [] r = NoneLit -> "rtl"
    [] l = NoneLit /\ r # NoneLit -> "ltr"
    [] l.kind = "optional" /\ NoneLit \notin {l, r} -> OptionalOnTheLeft(l, r, implicit)
    [] r.kind = "optional" /\ l.kind # "optional" /\ r # NoneLit
         /\ OptionalOnTheRight(l, r, implicit) -> "ltr"
    [] OTHER ->
         CASE l.kind = "variant" /\ r.kind = "variant" -> "not"
           [] l.kind = "variant" /\ r.kind # "variant" -> IF r \in l.members THEN "rtl" ELSE "not"
           [] l.kind # "variant" /\ r.kind = "variant" -> IF l \in r.members THEN "ltr" ELSE "not"
           [] l.kind = "array" /\ r.kind = "array" ->
                (CASE l.base = r.base /\ r.fixed /\ ~l.fixed -> "rtl"
                   [] l.base = r.base /\ l.fixed /\ ~r.fixed -> "ltr"
                   [] OTHER -> "not")
           [] OTHER -> check_primitive_castability(l, r, implicit)

(* A group on the right of something that is no group. *)
CastGroup(l, r, implicit) ==
  LET types == r.types
      sameSize(n) == n = Len(types)
      ofElement(i) == check_types(l.types[i], types[i], implicit)
      decisive == {i \in DOMAIN types : types[i] # l.types[i] /\ ofElement(i) # "rtl"}
  IN  CASE l.kind = "vector" ->
             IF /\ sameSize(l.width)
                /\ \A i \in DOMAIN types :
                     \/ types[i] = l.base
                     \/ check_primitive_castability(l.base, types[i], TRUE) \in FromRight
               THEN "both" ELSE "not"
        [] l.kind = "tuple" ->
             (CASE ~sameSize(Len(l.types)) -> "not"
                [] sameSize(Len(l.types)) /\ decisive = {} -> "both"
                [] OTHER ->   \* an alias of the element's type decides for all
                     IF ofElement(CHOOSE i \in decisive : \A j \in decisive : i <= j) = "same"
                       THEN "same" ELSE "not")
        [] l.kind = "primitive" ->
             IF \A i \in DOMAIN types : check_types(l, types[i], implicit) \in FromRight
               THEN "rtl" ELSE "not"
        [] OTHER -> "not"

Together(directions) ==
  CASE directions \intersect {"not", "rtl"} = {} /\ "ltr" \in directions -> "ltr"
    [] directions \intersect {"not", "ltr"} = {} /\ "rtl" \in directions -> "rtl"
    [] OTHER -> "not"

CastGroups(l, r, implicit) ==
  IF Len(l.types) # Len(r.types) THEN "not"
  ELSE Together({check_types(l.types[i], r.types[i], implicit) : i \in DOMAIN l.types})

check_types(l, r, implicit) ==
  CASE l.kind = "alias" -> check_types(l.base, r, implicit)
    [] l.kind # "alias" /\ r.kind = "alias" -> check_types(l, r.base, implicit)
    [] "alias" \notin {l.kind, r.kind} ->
         CASE l = r -> "same"
           [] l # r /\ l.kind = "group" /\ r.kind = "group" -> CastGroups(l, r, implicit)
           [] l.kind # "group" /\ r.kind = "group" -> CastGroup(l, r, implicit)
           [] l.kind = "group" /\ r.kind # "group" -> Flip(check_types(r, l, implicit))
           [] OTHER -> CastSingles(l, r, implicit)

----------------------------------------
(* Expressions.  An outcome is an expression and whether it was accepted. *)

Literal(t) == [node |-> "literal", type |-> t, of |-> <<>>, value |-> t.name]
Cast(t, e) == [node |-> "cast", type |-> t, of |-> <<e>>]
TypesOf(es) == [i \in DOMAIN es |-> es[i].type]
GroupOf(es) == [node |-> "group", type |-> Group(TypesOf(es)), of |-> es]

Accept(e) == [ok |-> TRUE, e |-> e]
Reject(e) == [ok |-> FALSE, e |-> e]

(* An expression with the outcomes of its parts. *)
Assembled(e, outcomes) ==
  [ok |-> \A i \in DOMAIN outcomes : outcomes[i].ok,
   e |-> [e EXCEPT !.of = [i \in DOMAIN outcomes |-> outcomes[i].e]]]

DefaultOf(t) == CASE t = IntLit -> I32 [] t = FloatLit -> F32 [] t = StrLit -> Str [] OTHER -> t

(* What is left of an expression that ends the compiler: only a literal has
   digits to make a text of. *)
Asserted(e) == [e EXCEPT !.node = "assertion", !.type = NoType]

RECURSIVE resolve_comptime_type_of_expr(_, _)
resolve_comptime_type_of_expr(e, target) ==
  CASE e.type \in {IntLit, FloatLit} /\ target = Str ->
         Accept(IF e.node = "literal" THEN Cast(Str, Literal(StrLit)) ELSE Asserted(e))
    [] e.type \in {IntLit, FloatLit} /\ target # Str ->
         Accept([e EXCEPT !.type = IF target = NoType THEN DefaultOf(e.type) ELSE target])
    [] e.type \notin {IntLit, FloatLit} /\ target # NoType -> Reject(e)
    [] e.type = StrLit /\ target = NoType -> Accept([e EXCEPT !.type = Str])
    [] OTHER ->
         IF e.type.kind = "group" /\ e.node = "group"
              /\ \E i \in DOMAIN e.type.types : e.type.types[i] \in Literals
           THEN Accept([e EXCEPT
                  !.type = Group([i \in DOMAIN e.type.types |-> DefaultOf(e.type.types[i])]),
                  !.of = [i \in DOMAIN e.of |-> resolve_comptime_type_of_expr(e.of[i], NoType).e]])
           ELSE Reject(e)

(* The same with the cast forgotten. *)
BecomeUncast(e, target) == resolve_comptime_type_of_expr(e, target).e

OrCast(resolved, target) == IF resolved.ok THEN resolved.e ELSE Cast(target, resolved.e)

(* A literal takes the type over, anything else is wrapped in a cast. *)
Become(e, target) == OrCast(resolve_comptime_type_of_expr(e, target), target)

(* The elements of a group expression whose target is a group or a tuple:
   one that can be cast either way only has its type replaced. *)
BecomeElements(target, e, changed) ==
  IF changed = {} THEN e
  ELSE [e EXCEPT !.type = Group(target.types),
                 !.of = [i \in DOMAIN @ |-> IF i \in changed THEN Become(@[i], target.types[i]) ELSE @[i]]]

Having(group, target) == IF group.type = target THEN group ELSE Cast(target, group)

CoerceElements(target, e, implicit) ==
  LET old == e.type.types
      direction == [i \in DOMAIN old |-> check_types(target.types[i], old[i], implicit)]
  IN  IF \E i \in DOMAIN old : direction[i] \in {"not", "ltr"} THEN Reject(e)
      ELSE Accept(Having(BecomeElements(target, e, {i \in DOMAIN old : direction[i] = "rtl"}), target))

(* The elements of a group expression whose target is a vector: for each
   one that is no literal the expression as a whole is wrapped once more,
   and the wrapping, not the group, gets the type of the new group. *)
WrapResolved(target, e, implicit, resolved) ==
  LET base == target.base
      left == {i \in DOMAIN e.of : resolved[i].e.type # base}
      group == [e EXCEPT !.of = [i \in DOMAIN e.of |-> resolved[i].e]]
      Wrapped[n \in 0..Len(e.of)] == IF n = 0 THEN group ELSE Cast(target, Wrapped[n - 1])
      whole == Wrapped[Cardinality(left)]
  IN  IF \E i \in left : check_primitive_castability(base, resolved[i].e.type, implicit) \notin FromRight
        THEN Reject(e)
      ELSE IF left # {} \/ \E i \in DOMAIN e.of : resolved[i].ok
        THEN Accept(Cast(target, [whole EXCEPT !.type = Group([i \in DOMAIN e.of |-> base])]))
        ELSE Accept(Cast(target, whole))

CoerceToVector(target, e, implicit) ==
  WrapResolved(target, e, implicit,
    [i \in DOMAIN e.of |-> IF e.of[i].type = target.base THEN Reject(e.of[i])
                           ELSE resolve_comptime_type_of_expr(e.of[i], target.base)])

CoerceValueToVector(target, e, implicit) ==
  LET base == target.base
      castable(t, how) == t = base \/ check_primitive_castability(base, t, how) \in FromRight
  IN  CASE target = Bool8 /\ e.type = U8 -> Accept(Cast(target, e))
        [] e.type.kind = "group" ->
             IF \A i \in DOMAIN e.type.types : castable(e.type.types[i], implicit)
               THEN Accept(Cast(target, e)) ELSE Reject(e)
        [] OTHER ->
             IF castable(e.type, TRUE)
               THEN Accept(Cast(target, resolve_comptime_type_of_expr(e, base).e)) ELSE Reject(e)

CoerceToOptional(target, e, implicit) ==
  CASE e.type = target.base \/ e.type = NoneLit -> Accept(Cast(target, e))
    [] e.type.kind = "optional" /\ e.type # NoneLit -> Reject(e)
    [] OTHER ->
         IF check_types(target.base, e.type, implicit) \in FromRight
           THEN Accept(Cast(target, Become(e, target.base)))
           ELSE Reject(e)

RECURSIVE Coerce(_, _, _)
Coerce(target, e, implicit) ==
  LET direction == check_types(target, e.type, implicit)
      wrapped == Accept(Cast(target, e))
  IN
  CASE target.kind = "alias" -> Coerce(target.base, e, implicit)
    [] target.kind # "alias" /\ direction = "same" -> Accept(e)
    [] target.kind # "alias" /\ direction \in {"not", "ltr"} -> Reject(e)
    [] OTHER ->
         CASE e.node = "group" /\ target.kind \in {"group", "tuple"} -> CoerceElements(target, e, implicit)
           [] target.kind = "vector" ->
                IF e.node = "group" THEN CoerceToVector(target, e, implicit)
                                    ELSE CoerceValueToVector(target, e, implicit)
           [] target.kind = "optional" -> CoerceToOptional(target, e, implicit)
           [] target.kind = "primitive" -> Accept(Become(e, target))
           [] target.kind = "group" /\ e.type.kind = "vector" ->
                IF \A i \in DOMAIN target.types : target.types[i] = e.type.base THEN wrapped ELSE Reject(e)
           [] target.kind = "opaque" -> IF e.type.kind = "pointer" THEN wrapped ELSE Reject(e)
           [] OTHER -> wrapped

----------------------------------------
(* The operands of a binary operator. *)

(* The two of them are cast to the type of one of them. *)
LeftIs(outcome, r) == [ok |-> outcome.ok, l |-> outcome.e, r |-> r]
RightIs(l, outcome) == [ok |-> outcome.ok, l |-> l, r |-> outcome.e]
CoerceLeft(l, r) == LeftIs(Coerce(r.type, l, TRUE), r)
CoerceRight(l, r) == RightIs(l, Coerce(l.type, r, TRUE))

CoercePair(l, r) ==
  LET direction == check_types(l.type, r.type, TRUE)
  IN  CASE direction = "not" -> RightIs(l, Reject(r))
        [] direction = "same" -> RightIs(l, Accept(r))
        [] direction = "ltr" -> CoerceLeft(l, r)
        [] OTHER -> CoerceRight(l, r)

Comparable(t) == t.kind \in {"enum", "primitive"}
Untyped(t) == t \in {IntLit, FloatLit}

(* A group on the left is not looked into: it is the right operand that is
   asked whether it is a group expression.  A literal on the other side
   has the type of the first element assigned to it. *)
MatchGroupAndValue(l, r) ==
  LET type == IF Untyped(r.type) THEN l.type.types[1] ELSE r.type
  IN  [ok |-> \A i \in DOMAIN l.type.types : l.type.types[i] = type,
       l |-> l, r |-> [r EXCEPT !.type = IF Untyped(@) THEN type ELSE @]]

(* The values of a group that is no expression are compared up to the
   first one that differs, which is an error if it is an untyped literal. *)
MatchValueAndGroup(l, r) ==
  LET types == r.type.types
      different == {i \in DOMAIN types : types[i] # l.type}
      first == CHOOSE i \in different : \A j \in different : i <= j
      left == [l EXCEPT !.type = IF Untyped(@) THEN types[1] ELSE @]
  IN  IF r.node = "group"
        THEN RightIs(left, Assembled(r, [i \in DOMAIN r.of |-> Coerce(l.type, r.of[i], TRUE)]))
        ELSE [ok |-> different = {} \/ ~Untyped(types[first]), l |-> left, r |-> r]

(* Groups of different sizes are taken to match. *)
Paired(l, r, pairs) ==
  [ok |-> \A i \in DOMAIN pairs : pairs[i].ok,
   l |-> [l EXCEPT !.of = [i \in DOMAIN pairs |-> pairs[i].l]],
   r |-> [r EXCEPT !.of = [i \in DOMAIN pairs |-> pairs[i].r]]]

MatchGroups(l, r) ==
  IF Len(l.type.types) # Len(r.type.types) THEN RightIs(l, Accept(r))
  ELSE CASE l.node = "group" /\ r.node = "group" ->
              Paired(l, r, [i \in DOMAIN l.of |-> CoercePair(l.of[i], r.of[i])])
         [] l.node = "group" /\ r.node # "group" -> CoerceLeft(l, r)
         [] l.node # "group" /\ r.node = "group" -> CoerceRight(l, r)
         [] OTHER -> RightIs(l, Reject(r))

match_binop_operands(op, l, r) ==
  LET left == l.type.kind = "group"
      right == r.type.kind = "group"
  IN  CASE l.type = r.type -> RightIs(l, Accept(r))
        [] l.type # r.type /\ op = "??" ->
             RightIs(l, IF l.type.kind = "optional" THEN Coerce(l.type.base, r, TRUE) ELSE Reject(r))
        [] OTHER ->
             CASE left /\ Comparable(r.type) -> MatchGroupAndValue(l, r)
               [] right /\ Comparable(l.type) -> MatchValueAndGroup(l, r)
               [] left /\ right -> MatchGroups(l, r)
               [] OTHER -> CoercePair(l, r)
=============================================================================
