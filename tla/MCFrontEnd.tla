----------------------------- MODULE MCFrontEnd -----------------------------
(***************************************************************************)
(* The front end on small statements: every kind of type is wanted and     *)
(* given at least once, literals and group expressions among them; and     *)
(* errors of a family of four sets, thrown, caught, cast and printed.       *)
(***************************************************************************)
EXTENDS Analyzer, ErrorSets

Family == {<<"parent", "child">>}
Implemented == {<<"o", "f">>}

Scalars == {Prim(n) : n \in {"u8", "i8", "i32", "i64", "f32", "bool", "str"}}
I64 == Prim("i64")
Pairs == {Vec(I32, 2), Vec(U8, 2), Group(<<I32, I32>>), Group(<<U8, I64>>), Tuple(<<I32, Str>>)}
Objects == {Named("enum", "e"), Named("error", "parent"), Named("error", "child"), Named("object", "o"),
            Named("func", "f"), Named("opaque", "a"), Named("pointer", "i32")}
Holders == {Variant({I32, Str}), Opt(I32), Opt(Str), Arr(U8, FALSE), Arr(U8, TRUE)}
Values == Scalars \union {Bool8} \union Pairs \union Objects \union Holders
Wanted == Values \union {Alias(I64)}

LiteralOf == {Literal(t) : t \in Literals}
Leaves == {Value(t) : t \in Values \union {NoneLit, NullType}} \union LiteralOf
FewLeaves == {Value(t) : t \in {U8, I32, I64}} \union LiteralOf
GroupExpressions == {Node("group", NoType, <<a, b>>) : a, b \in FewLeaves}
Expressions == Leaves \union GroupExpressions

Statement(kind, t, e) == Wanting(kind, NoType, <<t>>, <<e>>)
Condition(e) == Statement("condition", NoType, e)
Sums(as, bs) == {Binop(op, a, b) : op \in {"+", "==", "??"}, a \in as, b \in bs}
Switches == {Node("switch", NoType, <<Value(on), Literal(IntLit), a, b>>) : on \in {I32, U8}, a, b \in Leaves}
Several == {Wanting(k, Named("object", "o"), <<t, I32>>, <<e, f>>) :
              k \in {"initializer", "object", "array access", "interpolation"}, t \in Wanted, e \in Expressions,
              f \in {Value(U8), Literal(FloatLit)}}
Overloads(t) == {{<<t, I32>>}, {<<t, I32>>, <<I64, I32>>}, {<<t>>}}

FrontEndInit ==
  \/ \E k \in {"declaration", "assignment", "array assignment", "return"}, t \in Wanted, e \in Expressions :
       Compiles(Statement(k, t, e))
  \/ \E t \in Scalars, e \in Sums(FewLeaves, FewLeaves) : Compiles(Statement("declaration", t, e))
  \/ \E e \in Expressions \union Sums(Expressions, Expressions) : Compiles(Statement("inferred", NoType, e))
  \/ \E e \in Sums(Sums(FewLeaves, FewLeaves), FewLeaves) : Compiles(Statement("inferred", NoType, e))
  \/ \E t \in Wanted, e \in Expressions : Compiles(Condition(Cast(t, e)))
  \/ \E t \in Scalars \ {Bool}, e \in Sums(FewLeaves, FewLeaves) : Compiles(Condition(Cast(t, e)))
  \/ \E t \in {I64, F32, Str, Opt(I32)}, e \in Switches : Compiles(Statement("return", t, e))
  \/ \E e \in Several : Compiles(Condition(e))
  \/ \E extern \in BOOLEAN, t \in Wanted, e \in Expressions :
       Compiles(Condition(Call("call", I32, extern, {<<t>>, <<I64>>}, <<e>>)))
  \/ \E t \in Wanted, e \in Expressions, f \in {Value(I32), Literal(IntLit)} : \E fs \in Overloads(t) :
       Compiles(Condition(Call("instance call", I32, FALSE, fs, <<e, f>>)))
  \/ \E t \in Wanted, e \in Expressions : Compiles(Condition(Call("callable call", I32, FALSE, {<<t>>}, <<e>>)))

(* A family of sets in three generations, and two that are no relatives. *)
Defined(parent, values) == create_error(parent, values, [i \in DOMAIN values |-> values[i] \o "!"])
Relatives ==
  [base |-> Defined(AnyError, <<"a", "b">>), child |-> Defined("base", <<"c">>),
   grandchild |-> Defined("child", <<"d", "e">>), other |-> Defined(AnyError, <<"a">>)]
Shadowing == [base |-> Defined(AnyError, <<"a">>), child |-> Defined("base", <<"b", "a">>)]
Doubled == [base |-> Defined(AnyError, <<"a", "b", "a">>)]
SomeFamilies == {Relatives, Shadowing, Doubled}
SomeBodies == {<<>>, << <<"x">>, <<>>, <<"y">>, <<"x">> >>, << <<"x">>, <<"x", "y">> >>}

NoStatement == Statement("nothing", NoType, Value(I32))
NotCompiling == source = NoStatement /\ statement = NoStatement /\ stage = "no statement"
NotThrowing ==
  /\ sets = <<>> /\ body = <<>> /\ progress = "no error"
  /\ err = NoError /\ named = NoName /\ printed = NoName
  /\ static = Unheld /\ ran = NotSwitched /\ throws = 0

FrontEndSpec ==
  /\ (FrontEndInit /\ NotThrowing) \/ (NotCompiling /\ ErrorsInit)
  /\ [][(AnalyzerNext /\ UNCHANGED errors) \/ (ErrorsNext /\ UNCHANGED front)]_<<front, errors>>
=============================================================================
