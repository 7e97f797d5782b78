------------------------------ MODULE Analyzer ------------------------------
(***************************************************************************)
(* A statement on its way through the front end: the parser builds its     *)
(* expressions, finds the functions that are called and coerces some of    *)
(* the values (parser_expression.cpp, parser_statement.cpp and             *)
(* parser_util.cpp), the analyzer goes over all of it again and coerces    *)
(* the rest (analyzer.cpp), and the generator takes what comes out         *)
(* (generate_type_cast and generate_literal).                              *)
(*                                                                         *)
(* A node keeps the types that its declaration asks of its parts in        *)
(* `wants`, NoType where nothing is asked.  A behaviour is one statement.  *)
(***************************************************************************)
EXTENDS Castability

CONSTANT Careless   \* the kinds of statements known to go wrong that are compiled all the same

VARIABLES
  source,     \* the statement as it is written
  statement,  \* what has become of it
  stage       \* "source", "parsed", "analyzed" or "rejected"

front == <<source, statement, stage>>

----------------------------------------
(* Nodes. *)

NullType == Named("pointer", "void")

Node(kind, t, es) == [node |-> kind, type |-> t, of |-> es]
Value(t) == Node("variable", t, <<>>)
Binop(op, l, r) == [node |-> "binop", type |-> NoType, op |-> op, of |-> <<l, r>>]
Wanting(kind, t, wants, es) == [node |-> kind, type |-> t, of |-> es, wants |-> wants]
Call(kind, t, extern, functions, es) ==
  [node |-> kind, type |-> t, of |-> es, wants |-> [i \in DOMAIN es |-> NoType],
   extern |-> extern, functions |-> functions]

Relational == {"=="}

StringOf(e) == IF e.type = StrLit THEN Cast(Str, e) ELSE e

(* Every part is coerced to what is wanted of it. *)
CoerceParts(e, implicit) ==
  Assembled(e, [i \in DOMAIN e.of |-> IF e.wants[i] = NoType THEN Accept(e.of[i])
                                      ELSE Coerce(e.wants[i], e.of[i], implicit)])

RECURSIVE Extends(_, _)
Extends(child, parent) ==
  child = parent \/ \E link \in ErrorParents : link[2] = child /\ Extends(link[1], parent)

(* What both the parser and the analyzer do to an expression whose type is
   known beforehand: an error is only cast to an error set that extends
   its own. *)
Expect(e, expected) ==
  CASE expected \in {NoType, e.type} -> Accept(e)
    [] expected \notin {NoType, e.type} /\ expected.kind = "error" ->
         IF e.type.kind = "error" /\ Extends(expected.name, e.type.name)
           THEN Accept(Cast(expected, e)) ELSE Reject(e)
    [] OTHER -> Coerce(expected, e, TRUE)

Expected(outcome, expected) == IF outcome.ok THEN Expect(outcome.e, expected) ELSE outcome

(* Two literals are folded into one. *)
Folds(l, r) ==
  l.node = "literal" /\ r.node = "literal" /\ {l.value, r.value} \subseteq {"int", "float"}

Folded(op, l, r) ==
  CASE op \in Relational -> Value(Bool)
    [] op \notin Relational /\ l.value = "float" -> l
    [] OTHER -> r

TypeOfBinop(op, l) ==
  CASE op \in Relational -> Bool
    [] op = "??" /\ l.type.kind = "optional" -> l.type.base
    [] OTHER -> l.type

----------------------------------------
(* The parser. *)

(* The operands are matched when both of them are there. *)
Matched(e, match) ==
  CASE ~match.ok -> Reject(e)
    [] match.ok /\ Folds(match.l, match.r) -> Accept(Folded(e.op, match.l, match.r))
    [] OTHER -> Accept([e EXCEPT !.type = TypeOfBinop(e.op, match.l), !.of = <<match.l, match.r>>])

ParseBinop(e) == Matched(e, match_binop_operands(e.op, e.of[1], e.of[2]))

ParseGroup(e) ==
  IF \E i \in DOMAIN e.of : e.of[i].type.kind = "group" THEN Reject(e)
  ELSE Accept(GroupOf([i \in DOMAIN e.of |-> StringOf(e.of[i])]))

(* An argument fits when it has the type of the parameter or is cast to it
   and not the other way; of several functions one must fit exactly. *)
get_functions_from_call_types(functions, types) ==
  {f \in functions : /\ Len(f) = Len(types)
                     /\ \A i \in DOMAIN f : types[i] = f[i] \/ check_types(types[i], f[i], TRUE) = "ltr"}

FindFunction(e, found) ==
  LET exact == {f \in found : f = TypesOf(e.of)}
  IN  CASE Cardinality(found) = 1 -> Accept([e EXCEPT !.wants = CHOOSE f \in found : TRUE])
        [] Cardinality(found) > 1 /\ exact # {} -> Accept([e EXCEPT !.wants = CHOOSE f \in exact : TRUE])
        [] OTHER -> Reject(e)

ParseCall(e) ==
  LET call == [e EXCEPT !.of = [i \in DOMAIN e.of |-> StringOf(e.of[i])]]
      params == CHOOSE f \in e.functions : TRUE
  IN  CASE e.node = "call" ->
             FindFunction(call, get_functions_from_call_types(e.functions, TypesOf(call.of)))
        [] e.node = "instance call" ->
             FindFunction(call, {f \in e.functions : Len(f) = Len(call.of)})
        [] e.node = "callable call" ->
             IF Len(params) # Len(e.of) THEN Reject(call)
             ELSE CoerceParts([call EXCEPT !.wants = params], TRUE)

(* The type that the branches of a switch have in common: it moves on to
   the type of a branch that it can be cast to. *)
CommonType(types) ==
  LET Common[n \in 1..Len(types)] ==
        IF n = 1 THEN types[1]
        ELSE LET t == Common[n - 1]
                 direction == check_primitive_castability(t, types[n], TRUE)
             IN  CASE t = NoType \/ (t # types[n] /\ direction = "not") -> NoType
                   [] t # NoType /\ t # types[n] /\ direction = "ltr" -> types[n]
                   [] OTHER -> t
  IN  Common[Len(types)]

(* The parts of a switch are its switcher, one match and its branches. *)
Branches(e) == SubSeq(e.of, 3, Len(e.of))

Typed(e, type) == IF type = NoType THEN Reject(e) ELSE Accept([e EXCEPT !.type = type])

ParseNode(e) ==
  CASE e.node = "binop" -> ParseBinop(e)
    [] e.node = "group" -> ParseGroup(e)
    [] e.node \in {"call", "instance call", "callable call"} -> ParseCall(e)
    [] e.node = "cast" -> Accept(IF e.of[1].type = e.type THEN e.of[1] ELSE e)
    [] e.node = "switch" -> Typed(e, CommonType(TypesOf(Branches(e))))
    [] OTHER -> Accept(e)

Parsed(parts) == IF parts.ok THEN ParseNode(parts.e) ELSE parts

RECURSIVE create_expression(_, _)
create_expression(e, expected) ==
  Expected(Parsed(Assembled(e, [i \in DOMAIN e.of |-> create_expression(e.of[i], NoType)])), expected)

(* The variable of an inferred declaration: a group of equal numbers
   becomes a vector, one of different types a tuple. *)
Infer(value) ==
  LET types == value.type.types
      homogeneous == \A i \in DOMAIN types : types[i] = types[1]
      isVector == /\ types[1].kind = "primitive" /\ types[1] # Str
                  /\ IF types[1] = Bool THEN Len(types) = 8 ELSE VectorExists(types[1].name, Len(types))
  IN  CASE value.type.kind # "group" -> value
        [] value.type.kind = "group" /\ homogeneous ->
             IF isVector THEN Cast(Vec(types[1], Len(types)), value) ELSE value
        [] OTHER -> Cast(Tuple(types), value)

(* The statements whose values the parser coerces, those whose values it
   reads with the type in mind, and all others. *)
Declared(s, value) == Accept([s EXCEPT !.of = <<value>>, !.wants = <<value.type>>])

ParseParts(s, parts) ==
  CASE ~parts.ok -> Reject(s)
    [] parts.ok /\ s.node = "declaration" -> CoerceParts(parts.e, TRUE)
    [] parts.ok /\ s.node = "inferred" ->
         Declared(s, Infer(resolve_comptime_type_of_expr(parts.e.of[1], NoType).e))
    [] OTHER -> parts

ParseStatement(s) ==
  ParseParts(s, Assembled(s,
    [i \in DOMAIN s.of |-> create_expression(s.of[i], IF s.node \in {"assignment", "array assignment"}
                                                        THEN s.wants[i] ELSE NoType)]))

----------------------------------------
(* The analyzer. *)

RECURSIVE analyze_type(_, _, _)
analyze_type(level, t, emptyAllowed) ==
  CASE t.kind = "pointer" -> t = NullType \/ level = "external"
    [] t.kind = "array" -> (emptyAllowed \/ ~t.empty) /\ analyze_type(level, t.base, FALSE)
    [] t.kind \in {"alias", "optional"} -> analyze_type(level, t.base, FALSE)
    [] t.kind \in {"group", "tuple"} -> \A i \in DOMAIN t.types : analyze_type(level, t.types[i], FALSE)
    [] t.kind = "variant" -> \A u \in t.members : analyze_type(level, u, FALSE)
    [] OTHER -> TRUE

Strings(op, match) ==
  IF op = "??" THEN match ELSE [match EXCEPT !.l = StringOf(@), !.r = StringOf(@)]

analyze_binop(e) == Matched(e, Strings(e.op, match_binop_operands(e.op, e.of[1], e.of[2])))

(* Two slips: a cast is kept around a value that has its type by now, and
   enums are cast to integers only. *)
AnalyzeCastKept(e) == Assembled(e, <<Coerce(e.type, e.of[1], FALSE)>>)

AnalyzeCastOfEnums(e) ==
  IF e.of[1].type.kind = "enum" /\ e.type = Str THEN Reject(e) ELSE Accept(e)

Casting(e, coerced) ==
  IF ~coerced.ok THEN Reject(e)
  ELSE Accept(IF coerced.e.type = e.type THEN coerced.e ELSE [e EXCEPT !.of = <<coerced.e>>])

OrCasting(e, literal) == IF literal.ok THEN literal ELSE Casting(e, Coerce(e.type, e.of[1], FALSE))

AnalyzeCast(e) ==
  LET inner == e.of[1]
  IN  CASE inner.type = e.type -> Accept(inner)
        [] inner.type # e.type /\ inner.type.kind = "enum" ->
             IF e.type = Str \/ (e.type.kind = "primitive" /\ e.type.name \in Integral)
               THEN Accept(e) ELSE Reject(e)
        [] OTHER ->
             OrCasting(e, resolve_comptime_type_of_expr(inner, e.type))

(* The type of a switch over untyped literals is that of its surroundings,
   if it is one that such a literal can have. *)
SwitchType(type, expected) ==
  CASE type = IntLit -> IF expected.kind = "primitive" /\ expected.name \in Numbers THEN expected ELSE I32
    [] type = FloatLit -> IF expected \in {F32, Prim("f64")} THEN expected ELSE F32
    [] OTHER -> type

AnalyzeSwitch(e, expected) ==
  LET type == SwitchType(e.type, expected)
      on == e.of[1].type
      wants == [i \in DOMAIN e.of |-> CASE i = 1 -> NoType
                                        [] i = 2 -> IF on.kind = "primitive" THEN on ELSE NoType
                                        [] OTHER -> type]
  IN  CoerceParts([node |-> "switch", type |-> type, of |-> e.of, wants |-> wants], TRUE)

LevelOf(e, level) ==
  CASE e.node \in {"call", "instance call"} -> IF e.extern THEN "external" ELSE "internal"
    [] e.node = "callable call" -> "internal"
    [] OTHER -> level

(* Literals, variables, groups, accesses and the like are left as they
   are once their parts have been looked at. *)
AnalyzeParts(e, expected) ==
  CASE e.node = "binop" -> analyze_binop(e)
    [] e.node = "cast" -> AnalyzeCast(e)
    [] e.node = "switch" -> AnalyzeSwitch(e, expected)
    [] e.node \in {"call", "instance call", "array access", "array initializer", "interpolation"} ->
         CoerceParts(e, TRUE)
    [] e.node = "initializer" -> CoerceParts(e, FALSE)
    [] e.node = "object" -> IF TypesOf(e.of) = e.wants THEN Accept(e) ELSE Reject(e)
    [] OTHER -> Accept(e)

Analyzed(parts, expected) == IF parts.ok THEN AnalyzeParts(parts.e, expected) ELSE parts

RECURSIVE analyze_expression(_, _, _)
analyze_expression(level, e, expected) ==
  IF ~analyze_type(level, e.type, TRUE) THEN Reject(e)
  ELSE Expected(
         Analyzed(Assembled(e, [i \in DOMAIN e.of |-> analyze_expression(LevelOf(e, level), e.of[i], NoType)]),
                  expected),
         expected)

(* A value is analyzed with what the statement wants of it in mind by the
   assignments and by return, and coerced by all statements but those of
   which nothing is wanted. *)
AnalyzeStatementParts(s, level, parts) ==
  CASE \/ ~parts.ok
       \/ s.node \in {"declaration", "inferred"} /\ ~analyze_type(level, s.wants[1], FALSE) -> Reject(s)
    [] parts.ok /\ s.node \in {"array assignment", "group assignment", "condition", "throw"} -> parts
    [] OTHER -> CoerceParts(parts.e, TRUE)

analyze_statement(s) ==
  LET level == LevelOf(s, "internal") IN
  AnalyzeStatementParts(s, level, Assembled(s,
    [i \in DOMAIN s.of |-> analyze_expression(level, s.of[i], IF s.node \in {"assignment", "return"}
                                                              THEN s.wants[i] ELSE NoType)]))

----------------------------------------
(* Statements that are known to go wrong, by what is wanted and what is
   there. *)

RECURSIVE Based(_)
Based(t) == IF t.kind = "alias" THEN Based(t.base) ELSE t

Elements(e) == {e.of[i] : i \in DOMAIN e.of}
TypeBefore(e) == IF e.node = "group" THEN Group(TypesOf(e.of)) ELSE e.type
AllAre(g, t) == \A i \in DOMAIN g.types : g.types[i] = t

(* A group expression with an untyped literal where one value is wanted,
   one with values of another type where a vector is wanted, a group that
   is no expression where another kind of group is wanted, a value that is
   cast before it is spread over a vector, and none where no optional is. *)
WantForms == {"loose group", "other elements", "group value", "splat", "none"}

IsWantForm(form, want, e) ==
  LET t == Based(want) IN
  CASE form = "loose group" ->
         e.node = "group" /\ t.kind = "primitive" /\ \E x \in Elements(e) : Untyped(x.type)
    [] form = "other elements" ->
         /\ e.node = "group" /\ t.kind = "vector"
         /\ \E x \in Elements(e) : x.node # "literal" /\ x.type # t.base
    [] form = "group value" ->
         /\ e.type # t
         /\ \/ e.type.kind = "group" /\ t.kind \in {"tuple", "vector", "group"}
            \/ e.type.kind = "tuple" /\ t.kind = "group"
    [] form = "splat" ->
         /\ t.kind = "vector" /\ e.node # "literal" /\ e.type.kind = "primitive"
         /\ e.type # t.base \/ t = Bool8
    [] form = "none" -> e.type = NoneLit /\ t.kind # "optional"

LooseWant(want, e) == {f \in WantForms : want # NoType /\ IsWantForm(f, want, e)}

(* A cast to an alias, one of an untyped literal to something that is no
   number, one that there is no code for, and one of a group expression
   whose elements could be cast either way. *)
CastForms == {"alias", "literal cast", "no code", "either way"}

IsCastForm(form, t, e) ==
  CASE form = "alias" -> t.kind = "alias"
    [] form = "literal cast" ->
         /\ \E x \in {e} \union Elements(e) : Untyped(x.type)
         /\ t # Str /\ ~(t.kind = "primitive" /\ t.name \in Numbers)
    [] form = "no code" ->
         \/ <<e.type, t>> \in {<<I8, U8>>, <<Bool8, I8>>}
         \/ e.type.kind = "enum" /\ t.kind = "primitive" /\ t.name \in {"i8", "u16", "i16"}
    [] form = "either way" ->
         /\ e.node = "group" /\ t.kind \in {"group", "tuple"} /\ Len(e.of) = Len(t.types)
         /\ \E i \in DOMAIN e.of : check_types(t.types[i], e.of[i].type, FALSE) = "both"

LooseCast(t, e) == {f \in CastForms : IsCastForm(f, t, e)} \union LooseWant(t, e)

(* An optional default whose operands have the same type (or whose left
   one is a sum, which is no optional but may have that of the other), and
   a group
   whose elements have not all the type of the other operand. *)
LooseOperands(op, l, r) ==
  LET left == TypeBefore(l)
      right == TypeBefore(r)
      first(g) == g.types[1]
      fits(g, t) == /\ g.kind = "group" /\ AllAre(g, first(g)) /\ ~Untyped(first(g))
                    /\ \/ t = g \/ AllAre(g, t)
                       \/ Untyped(t) /\ first(g) # Str /\ is_castable_to(first(g), t)
  IN  {f \in {"default", "groups"} :
         \/ f = "default" /\ op = "??" /\ (left = right \/ l.node = "binop")
         \/ f = "groups" /\ "group" \in {left.kind, right.kind} /\ ~fits(left, right) /\ ~fits(right, left)}
      \union LooseWant(left, r) \union LooseWant(right, l)

RECURSIVE LooseEnds(_)
LooseEnds(e) ==
  LET args == {<<f, i>> \in e.functions \X DOMAIN e.of : Len(f) = Len(e.of)} IN
  UNION {LooseEnds(x) : x \in Elements(e)} \union
  CASE e.node = "binop" -> LooseOperands(e.op, e.of[1], e.of[2])
    [] e.node = "cast" -> LooseCast(e.type, e.of[1])
    [] e.node \in {"call", "instance call", "callable call"} ->
         UNION {LooseWant(a[1][a[2]], e.of[a[2]]) : a \in args}
    [] e.node = "initializer" ->
         UNION {LooseCast(e.wants[i], e.of[i]) : i \in DOMAIN e.of} \ {"literal cast", "alias"}
    [] OTHER -> IF "wants" \in DOMAIN e
                  THEN UNION {LooseWant(e.wants[i], e.of[i]) : i \in DOMAIN e.of} ELSE {}

----------------------------------------

Compiles(s) ==
  /\ LooseEnds(s) \subseteq Careless
  /\ source = s /\ statement = s /\ stage = "source"

Becomes(outcome, passed) ==
  /\ statement' = outcome.e
  /\ stage' = IF outcome.ok THEN passed ELSE "rejected"
  /\ UNCHANGED source

Parse == stage = "source" /\ Becomes(ParseStatement(source), "parsed")
Analyze == stage = "parsed" /\ Becomes(analyze_statement(statement), "analyzed")

AnalyzerNext == Parse \/ Analyze

----------------------------------------
(* The generator. *)

(* The values that generate_type_cast has code for. *)
Convertible(from, to) ==
  LET isNumber(t) == t.kind = "primitive" /\ t.name \in Numbers
      isVector(t) == t.kind = "vector" /\ t # Bool8
  IN
  \/ from = to
  \/ to = Str /\ \/ from \in {StrLit, Bool, Bool8, Arr(U8, FALSE)}
                 \/ from.kind \in {"enum", "error", "opaque"} \/ isVector(from) \/ isNumber(from)
  \/ (isNumber(from) \/ from = Bool) /\ isNumber(to) /\ <<from, to>> # <<I8, U8>>
  \/ from = Bool8 /\ to = U8
  \/ from.kind = "enum" /\ to.kind = "primitive" /\ to.name \in {"i32", "u32", "i64", "u64", "u8"}
  \/ from.kind = "object" /\ to.kind \in {"func", "interface"}
  \/ from.kind = "array" /\ to.kind = "array" /\ from.fixed /\ ~to.fixed /\ from.base = to.base
  \/ from \in {NoneLit, NullType}
  \/ to.kind = "optional" /\ (to.base = from \/ from.kind = "variant")
  \/ to.kind = "variant" /\ from \in to.members
  \/ to.kind = "error" /\ from.kind = "error"
  \/ from.kind = "pointer" /\ to.kind = "opaque"

(* A cast node, for which groups, vectors and tuples are taken apart. *)
GeneratesCast(e) ==
  LET from == e.of[1].type
      to == e.type
      elements == IF from.kind = "group" THEN from.types ELSE <<from>>
  IN  CASE to.kind = "group" -> from.kind \in {"vector", "tuple"}
        [] to = Bool8 -> from = U8
        [] to.kind = "vector" /\ to # Bool8 ->
             /\ Len(elements) \in {1, to.width}
             /\ \A i \in DOMAIN elements : elements[i] = to.base
        [] to.kind = "tuple" -> from.kind = "group" /\ from.types = to.types
        [] OTHER -> \A i \in DOMAIN elements : Convertible(elements[i], to)

GeneratesLiteral(e) ==
  \/ e.value = "strlit" /\ e.type \in {StrLit, Str}
  \/ e.value # "strlit" /\ e.type.kind = "primitive" /\ e.type.name \in Numbers

----------------------------------------
(* Properties. *)

RECURSIVE Nodes(_)
Nodes(e) == {e} \union UNION {Nodes(x) : x \in Elements(e)}

HasType(e, want) == want = NoType \/ e.type = Based(want)

OperandsAgree(e) ==
  LET l == e.of[1].type
      r == e.of[2].type
  IN  IF e.op = "??" THEN l.kind = "optional" /\ r = l.base
      ELSE \/ l = r
           \/ l.kind = "group" /\ AllAre(l, r)
           \/ r.kind = "group" /\ AllAre(r, l)

(* The digits behind the point are only dropped where the source says so. *)
DigitsAreKept(e) ==
  \/ e.value # "float" \/ e.type \in {F32, Prim("f64")}
  \/ \E x \in Nodes(source) : x.node \in {"cast", "initializer"}

IsSound(e) ==
  CASE e.node = "cast" -> GeneratesCast(e)
    [] e.node = "literal" -> GeneratesLiteral(e) /\ DigitsAreKept(e)
    [] e.node = "group" -> e.type.types = TypesOf(e.of)
    [] e.node = "binop" -> OperandsAgree(e)
    [] e.node = "switch" -> \A i \in 3..Len(e.of) : e.of[i].type = e.type
    [] "wants" \in DOMAIN e -> \A i \in DOMAIN e.of : HasType(e.of[i], e.wants[i])
    [] OTHER -> TRUE

(* What the analyzer accepts the generator has code for: every cast is one
   that generate_type_cast knows, no literal is left without a type, the
   operands of an operator have one type, and every value has the type
   that is wanted of it, whichever of the two passes coerced it. *)
CoercionsAreSound == stage = "analyzed" => \A e \in Nodes(statement) : IsSound(e)

(* What was coerced is not coerced again: the analyzer goes over values
   that the parser has cast, so another look at its own outcome must
   accept it and change nothing. *)
AnalysisIsSettled == stage = "analyzed" => analyze_statement(statement) = Accept(statement)

(* Where both passes coerce a value, the analyzer does not turn down what
   the parser took (pointers aside, which are for external calls only). *)
HasPointers(e) == \E x \in Nodes(e) : x.type.kind = "pointer"

AnalyzerAgreesWithParser ==
  [][/\ stage = "parsed" /\ source.node \in {"declaration", "assignment", "array assignment"}
     /\ ~HasPointers(source) /\ ~\E i \in DOMAIN source.wants : source.wants[i].kind = "pointer"
     => stage' = "analyzed"]_front
=============================================================================
