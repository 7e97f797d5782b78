----------------------------- MODULE MCNumbers -----------------------------
EXTENDS Arithmetic, Conversions, ConstantFolding

(* The lanes behind the first: the ends of both ranges, and around 0. *)
Ends == {-Half, 0, 1, Half - 1, 2 * Half - 1}

VectorProduct == [op |-> "mul", signed |-> TRUE, shape |-> "vector"]
ButVectorProducts == Functions \ {VectorProduct}

(* Widths in the order of 8, 16, 32 and 64. *)
FewBits == [w \in Widths |-> CASE w = 8 -> 2 [] w = 16 -> 3 [] w = 32 -> 4 [] w = 64 -> 6]

(* Literals of one and two digits, of integers also with zeros in front,
   and of floats with up to two digits behind the point. *)
FewDigits == {0, 1, 3}
Wholes == {<<d>> : d \in FewDigits} \union {<<c, d>> : c \in FewDigits \ {0}, d \in FewDigits}
WithZeros == Wholes \union {<<0, 0>>, <<0, 1>>, <<0, 3>>, <<0, 1, 3>>, <<0, 3, 0>>, <<0, 0, 1>>}
Points == {[digits |-> w \o f, point |-> Len(w) - 1] :
             w \in Wholes, f \in {<<d>> : d \in FewDigits} \union {<<0, 1>>, <<1, 0>>, <<3, 1>>}}

(* A call of one module or of another, or an expression of literals; the
   state of what is not looked at stands still. *)
Silent ==
  /\ job = "none" /\ from = U64 /\ to = U64 /\ x = 0 /\ y = 0 /\ text = <<>>
  /\ rest = 0 /\ len = 0 /\ state = "done" /\ answer = <<>>
Idle ==
  /\ overflow_mode = "SILENT" /\ at = "returned" /\ printed = FALSE
  /\ fn = [op |-> "add", signed |-> TRUE, shape |-> "small"]
  /\ lhs = [i \in {1} |-> 0] /\ rhs = lhs /\ returned = lhs
  /\ base_mut = 0 /\ exp_mut = 0 /\ result = 0
NoLiterals ==
  expression = [operation |-> "none", lhs |-> ZeroInt, rhs |-> ZeroInt] /\ folded = NothingFolded

NumbersSpec ==
  /\ \/ ArithmeticInit /\ Silent /\ NoLiterals
     \/ Idle /\ ConversionInit /\ NoLiterals
     \/ Idle /\ Silent /\ FoldingInit
  /\ [][\/ ArithmeticNext /\ UNCHANGED <<conversion, folding>>
        \/ ConversionNext /\ UNCHANGED <<arithmetic_vars, folding>>
        \/ FoldingNext /\ UNCHANGED <<arithmetic_vars, conversion>>]_<<arithmetic_vars, conversion, folding>>

----------------------------------------
(* A folded expression has the value its operation has, in the one form
   that value has.  (With it, the type of what the runtime returns.) *)
FoldingIsExact == ArithmeticTypeOK /\ NumbersAreNormal /\ FoldedAsComputed
=============================================================================
