--------------------------- MODULE ConstantFolding ---------------------------
(***************************************************************************)
(* Number literals and the operations the compiler carries out on them:    *)
(* the arbitrary precision numbers of src/include/parser/ap_int.hpp and    *)
(* ap_float.hpp, the folding of two literals in                            *)
(* src/src/parser/parser_expression.cpp, and the constant that is          *)
(* generated for a literal in src/src/generator/generator_expression.cpp.  *)
(*                                                                         *)
(* An integer is a sign and digits, the most significant one first; a      *)
(* float also has the index of its last digit before the point, which is   *)
(* negative when the point comes first.                                    *)
(***************************************************************************)
EXTENDS Integers, Sequences

CONSTANTS
  Base,        \* of the digits; 10 in the code
  Precision,   \* digits a quotient gets; 50 in the code
  Scaling,     \* a bound on the digits behind any point
  IntLiterals, FloatLiterals,   \* digits, and digits with a point
  MaxPower,    \* a bound on exponents
  LiteralBits, \* widths of the types of literals
  Misfolded    \* what is folded although it is known to go wrong:
               \* "sign", "size", "minus zero", "leading zeros"

ASSUME FoldingAssumption ==
  /\ Base \in Nat /\ Base > 1 /\ Base % 2 = 0
  /\ Precision \in Nat /\ Scaling \in Nat /\ MaxPower \in Nat

----------------------------------------
(* Vectors of digits. *)

Longer(m, n) == IF m >= n THEN m ELSE n
ZeroDigits(n) == [i \in 1..n |-> 0]
Digit(digits, k) == IF k <= Len(digits) THEN digits[Len(digits) + 1 - k] ELSE 0
FromRight(n, f) == [i \in 1..n |-> f[n + 1 - i]]

NumberOf(digits) ==
  LET Value[n \in 0..Len(digits)] == IF n = 0 THEN 0 ELSE (Base * Value[n - 1]) + digits[n]
  IN  Value[Len(digits)]

Stripped(digits) ==
  LET zeros == CHOOSE n \in 0..(Len(digits) - 1) :
                 /\ \A i \in 1..n : digits[i] = 0
                 /\ n = Len(digits) - 1 \/ digits[n + 1] # 0
  IN  SubSeq(digits, zeros + 1, Len(digits))

IsZero(digits) == digits = <<0>>

(* The carry of a sum goes through both and, at the end, in front. *)
SumWithoutLastCarry(a, b) ==
  LET n == Longer(Len(a), Len(b))
      Carry[k \in 0..n] ==
        IF k = 0 THEN 0 ELSE (Digit(a, k) + Digit(b, k) + Carry[k - 1]) \div Base
  IN  FromRight(n, [k \in 1..n |-> (Digit(a, k) + Digit(b, k) + Carry[k - 1]) % Base])

SumOf(a, b) ==
  LET n == Longer(Len(a), Len(b))
      Carry[k \in 0..n] ==
        IF k = 0 THEN 0 ELSE (Digit(a, k) + Digit(b, k) + Carry[k - 1]) \div Base
      sum == FromRight(n, [k \in 1..n |-> (Digit(a, k) + Digit(b, k) + Carry[k - 1]) % Base])
  IN  IF Carry[n] > 0 THEN <<Carry[n]>> \o sum ELSE sum

(* The last borrow is dropped. *)
DifferenceOf(a, b) ==
  LET n == Len(a)
      Borrow[k \in 0..n] ==
        IF k = 0 THEN 0
        ELSE IF Digit(a, k) - Digit(b, k) - Borrow[k - 1] < 0 THEN 1 ELSE 0
  IN  FromRight(n, [k \in 1..n |-> (Digit(a, k) - Digit(b, k) - Borrow[k - 1]) % Base])

ProductOf(a, b) ==
  LET n == Len(a) + Len(b)
      Column(k) ==   \* the products that belong to the k-th digit
        LET Upto[i \in 0..k] == IF i = 0 THEN 0 ELSE Upto[i - 1] + (Digit(a, i) * Digit(b, k + 1 - i))
        IN  Upto[k]
      Carry[k \in 0..n] == IF k = 0 THEN 0 ELSE (Column(k) + Carry[k - 1]) \div Base
  IN  FromRight(n, [k \in 1..n |-> (Column(k) + Carry[k - 1]) % Base])

(* -1, 0 or 1; a longer vector is the larger one. *)
compare_vectors(a, b) ==
  LET differ == {i \in DOMAIN a : a[i] # b[i]}
      first == CHOOSE i \in differ : \A j \in differ : i <= j
  IN  IF Len(a) # Len(b) THEN (IF Len(a) > Len(b) THEN 1 ELSE -1)
      ELSE IF differ = {} THEN 0 ELSE IF a[first] > b[first] THEN 1 ELSE -1

(* Long division: how often the divisor is subtracted from what was left,
   with the next digit behind it, until that compares as smaller. *)
QuotientOf(a, b) ==
  LET Division(current) ==
        LET Left[k \in Nat] == IF k = 0 THEN current ELSE Stripped(DifferenceOf(Left[k - 1], b))
            count == CHOOSE k \in 0..NumberOf(current) :
                       /\ compare_vectors(Left[k], b) < 0
                       /\ \A j \in 0..(k - 1) : compare_vectors(Left[j], b) >= 0
        IN  [count |-> count, left |-> Left[count]]
      Step[i \in 0..Len(a)] ==
        IF i = 0 THEN [count |-> 0, left |-> <<0>>]
        ELSE Division(Stripped(Append(Step[i - 1].left, a[i])))
  IN  [i \in 1..Len(a) |-> Step[i].count]

----------------------------------------
(* APInt. *)

Integer(negative, digits) == [kind |-> "int", negative |-> negative, digits |-> digits]
Absolute(x) == [x EXCEPT !.negative = FALSE]
ZeroInt == Integer(FALSE, <<0>>)

(* Subtraction of natural numbers: when the second is larger it is the
   first that is subtracted, and the sign is forgotten. *)
IntDistance(x, y) ==
  IF compare_vectors(x.digits, y.digits) >= 0
    THEN Integer(FALSE, Stripped(DifferenceOf(x.digits, y.digits)))
    ELSE Integer(FALSE, Stripped(DifferenceOf(y.digits, x.digits)))

IntPlus(x, y) ==
  IF x.negative = y.negative THEN Integer(x.negative, SumOf(x.digits, y.digits))
  ELSE IF x.negative THEN IntDistance(y, Absolute(x)) ELSE IntDistance(x, Absolute(y))

IntMinus(x, y) ==
  IF x.negative # y.negative THEN Integer(x.negative, SumOf(x.digits, y.digits))
  ELSE IF x.negative THEN IntDistance(Absolute(y), Absolute(x)) ELSE IntDistance(x, y)

IntTimes(x, y) ==
  LET product == Stripped(ProductOf(x.digits, y.digits))
  IN  Integer(x.negative # y.negative /\ ~IsZero(product), product)

Endless == Integer(FALSE, <<>>)   \* several zeros can be subtracted for ever

IntOver(x, y) ==
  IF compare_vectors(x.digits, y.digits) < 0 THEN ZeroInt
  ELSE IF NumberOf(y.digits) = 0 /\ compare_vectors(Stripped(x.digits), y.digits) >= 0 THEN Endless
  ELSE LET quotient == Stripped(QuotientOf(x.digits, y.digits))
       IN  Integer(x.negative # y.negative /\ ~IsZero(quotient), quotient)

IsOdd(digits) == digits[Len(digits)] % 2 = 1

divide_by_2(digits) ==
  LET Carry[i \in 0..Len(digits)] ==
        IF i = 0 THEN 0 ELSE ((Carry[i - 1] * Base) + digits[i]) % 2
  IN  Stripped([i \in DOMAIN digits |-> ((Carry[i - 1] * Base) + digits[i]) \div 2])

IntPower(x, y) ==
  LET Halves[i \in Nat] == IF i = 0 THEN y.digits ELSE divide_by_2(Halves[i - 1])
      Squares[i \in Nat] == IF i = 0 THEN Absolute(x) ELSE IntTimes(Squares[i - 1], Squares[i - 1])
      Product[i \in Nat] ==
        IF i = 0 THEN Integer(FALSE, <<1>>)
        ELSE IF IsOdd(Halves[i - 1]) THEN IntTimes(Product[i - 1], Squares[i - 1])
        ELSE Product[i - 1]
      steps == CHOOSE n \in 0..MaxPower :
                 IsZero(Halves[n]) /\ \A m \in 0..(n - 1) : ~IsZero(Halves[m])
  IN  IF y.negative THEN ZeroInt
      ELSE IF IsZero(x.digits) THEN (IF IsZero(y.digits) THEN Integer(FALSE, <<1>>) ELSE ZeroInt)
      ELSE IF IsZero(y.digits) THEN Integer(FALSE, <<1>>)
      ELSE IF y.digits = <<1>> THEN x
      ELSE [Product[steps] EXCEPT !.negative = x.negative /\ IsOdd(y.digits)]

(* The largest and smallest values of a width: 1 doubled as often as the
   width says, less 1 where it is a largest value. *)
multiply_by_2(digits) == SumOf(digits, digits)
PowerOfTwo(n) ==
  LET Doubled[k \in 0..n] == IF k = 0 THEN <<1>> ELSE multiply_by_2(Doubled[k - 1])
  IN  Doubled[n]
subtract_one(digits) == Stripped(DifferenceOf(digits, <<1>>))

NoValue == "no value"

Exceeds(x, digits) == compare_vectors(x.digits, digits) > 0

get_max_unsigned_value(bits) == subtract_one(PowerOfTwo(bits))
get_max_signed_value(bits) == subtract_one(PowerOfTwo(bits - 1))
get_min_signed_value(bits) == PowerOfTwo(bits - 1)

to_uN(x, bits) ==
  IF x.negative \/ Exceeds(x, get_max_unsigned_value(bits)) THEN NoValue
  ELSE NumberOf(x.digits) % 2^bits

to_iN(x, bits) ==
  IF x.negative THEN (IF Exceeds(x, get_min_signed_value(bits)) THEN NoValue ELSE -NumberOf(x.digits))
  ELSE IF Exceeds(x, get_max_signed_value(bits)) THEN NoValue
  ELSE NumberOf(x.digits)

----------------------------------------
(* APFloat. *)

Float(negative, digits, point) ==
  [kind |-> "float", negative |-> negative, digits |-> digits, point |-> point]
ZeroFloat == Float(FALSE, <<0>>, 0)

(* No zeros in front; none at the end behind the point. *)
normalize(x) ==
  LET front == Stripped(x.digits)
      point == x.point - (Len(x.digits) - Len(front))
      nonzero == {n \in 1..Len(front) : n = 1 \/ front[n] # 0 \/ n <= point + 1}
      last == CHOOSE n \in nonzero : \A m \in nonzero : m <= n
  IN  IF IsZero(SubSeq(front, 1, last)) THEN ZeroFloat
      ELSE Float(x.negative, SubSeq(front, 1, last), point)

FromInt(x) ==
  LET digits == Stripped(x.digits)
  IN  IF IsZero(digits) THEN ZeroFloat ELSE Float(x.negative, digits, Len(digits) - 1)

ToFloat(x) == IF x.kind = "int" THEN FromInt(x) ELSE x

(* The digits of two floats with their points, and their ends, in line. *)
Aligned(x, y) ==
  LET point == Longer(x.point, y.point)
      a == ZeroDigits(point - x.point) \o x.digits
      b == ZeroDigits(point - y.point) \o y.digits
  IN  [a |-> a \o ZeroDigits(Longer(Len(a), Len(b)) - Len(a)),
       b |-> b \o ZeroDigits(Longer(Len(a), Len(b)) - Len(b)), point |-> point]

is_larger_than(x, y) ==
  LET larger == IF x.point # y.point THEN x.point > y.point
                ELSE compare_vectors(x.digits, y.digits) > 0
  IN  IF x.negative # y.negative THEN y.negative
      ELSE IF x.negative THEN ~larger ELSE larger

Negated(x) == [x EXCEPT !.negative = ~@]

SumOfFloats(x, y) ==
  LET aligned == Aligned(x, y)
      sum == SumOf(aligned.a, aligned.b)
  IN  normalize(Float(x.negative, sum, aligned.point + (Len(sum) - Len(aligned.a))))

DifferenceOfFloats(x, y) ==
  LET aligned == Aligned(x, y)
  IN  IF IsZero(y.digits) THEN x
      ELSE normalize(Float(x.negative, DifferenceOf(aligned.a, aligned.b), aligned.point))

(* The subtraction of floats of one sign: the larger one first, by sign
   and all, although what is subtracted are the digits. *)
FloatDistance(x, y) ==
  IF is_larger_than(x, y) \/ x = y THEN DifferenceOfFloats(x, y)
  ELSE Negated(DifferenceOfFloats(y, x))

FloatPlus(x, y) ==
  IF IsZero(x.digits) THEN y
  ELSE IF IsZero(y.digits) THEN x
  ELSE IF x.negative = y.negative THEN SumOfFloats(x, y)
  ELSE IF x.negative THEN FloatDistance(y, Negated(x))
  ELSE FloatDistance(x, Negated(y))

FloatMinus(x, y) ==
  IF IsZero(y.digits) THEN x
  ELSE IF x.negative # y.negative THEN FloatPlus(x, Negated(y))
  ELSE FloatDistance(x, y)

FloatTimes(x, y) ==
  LET product == ProductOf(x.digits, y.digits)
      behind == (Len(x.digits) - x.point - 1) + (Len(y.digits) - y.point - 1)
  IN  normalize(Float(x.negative # y.negative, product, Len(product) - 1 - behind))

FloatOver(x, y) ==
  normalize(Float(x.negative # y.negative,
                  QuotientOf(x.digits \o ZeroDigits(Precision), y.digits),
                  x.point - y.point + Len(y.digits) - 1))

(* The digits before the point. *)
to_apint(x) ==
  LET digits == SubSeq(x.digits \o ZeroDigits(Longer(0, x.point + 1 - Len(x.digits))), 1, x.point + 1)
  IN  IF x.point < 0 THEN ZeroInt ELSE Integer(x.negative /\ ~IsZero(digits), digits)

----------------------------------------
(* Folding.  Sums, differences and products of an integer with something
   put the right hand side first. *)

Operations == {"+", "-", "*", "/", "^"}
Comparisons == {"==", "!=", "<", "<=", ">", ">="}

FoldInts(operation, x, y) ==
  CASE operation = "+" -> IntPlus(y, x)
    [] operation = "-" -> IntMinus(y, x)
    [] operation = "*" -> IntTimes(y, x)
    [] operation = "/" -> IntOver(x, y)
    [] operation = "^" -> IntPower(x, y)

FoldFloats(operation, x, y) ==
  LET first == IF x.kind = "int" /\ operation # "/" THEN y ELSE ToFloat(x)
      second == IF x.kind = "int" /\ operation # "/" THEN ToFloat(x) ELSE ToFloat(y)
  IN  CASE operation = "+" -> FloatPlus(first, second)
        [] operation = "-" -> FloatMinus(first, second)
        [] operation = "*" -> FloatTimes(first, second)
        [] operation = "/" -> FloatOver(first, second)

(* By the sign of the difference of the two as floats. *)
compare_apfloats(operation, x, y) ==
  LET difference == FloatMinus(ToFloat(x), ToFloat(y))
      is_zero == IsZero(difference.digits)
      is_less == ~is_zero /\ difference.negative
  IN  CASE operation = "==" -> is_zero
        [] operation = "!=" -> ~is_zero
        [] operation = "<" -> is_less
        [] operation = "<=" -> is_less \/ is_zero
        [] operation = ">" -> ~is_zero /\ ~is_less
        [] operation = ">=" -> is_zero \/ ~is_less

(* create_literal: the sign is the minus in front, also that of a zero; an
   integer keeps the zeros in front of it. *)
FloatLiteral(literal) ==
  LET digits == Stripped(literal.digits)
  IN  IF IsZero(digits) THEN ZeroFloat
      ELSE Float(FALSE, digits, literal.point - (Len(literal.digits) - Len(digits)))

Positive == {Integer(FALSE, digits) : digits \in IntLiterals}
              \union {FloatLiteral(literal) : literal \in FloatLiterals}

Literals ==
  Positive \union {Negated(x) : x \in {y \in Positive : "minus zero" \in Misfolded \/ NumberOf(y.digits) # 0}}

----------------------------------------
(* What the literals stand for, as multiples of Base^-Scaling. *)

WithSign(x, n) == IF x.negative THEN -n ELSE n
Worth(x) ==
  IF x.kind = "int" THEN WithSign(x, NumberOf(x.digits) * Base^Scaling)
  ELSE WithSign(x, NumberOf(x.digits) * Base^(Scaling + x.point + 1 - Len(x.digits)))
Number(x) == WithSign(x, NumberOf(x.digits))
Size(x) == Worth(Absolute(x))

(* Where floats are subtracted, and so compared, wrongly: two negative
   ones, and two that is_larger_than puts into the wrong order. *)
Missubtracted(x, y) ==
  /\ x.negative = y.negative
  /\ \/ "sign" \notin Misfolded /\ x.negative /\ Size(x) # Size(y)
     \/ /\ "size" \notin Misfolded
        /\ is_larger_than(Absolute(x), Absolute(y)) # (Size(x) > Size(y))

(* Where the zeros in front of an integer stay, or make the shorter digits
   of two, or of a literal and the limit of its type, the smaller ones. *)
HasZeros(digits) == Stripped(digits) # digits
ZerosMatter(operation, x, y) ==
  \/ operation \in {"+", "-"} /\ (operation = "+") = (x.negative = y.negative)
       /\ HasZeros(SumOf(x.digits, y.digits))
  \/ operation \in {"+", "-"} /\ (operation = "+") # (x.negative = y.negative)
       /\ (compare_vectors(x.digits, y.digits) >= 0) # (Size(x) >= Size(y))
  \/ operation = "/" /\ HasZeros(y.digits)
  \/ operation = "^" /\ HasZeros(x.digits) /\ y.digits = <<1>>
  \/ operation = "^" /\ IsZero(x.digits) /\ HasZeros(y.digits) /\ Size(y) = 0
IsMisread(x, type, bits) ==
  LET limit == IF type = "u" THEN get_max_unsigned_value(bits)
               ELSE IF x.negative THEN get_min_signed_value(bits) ELSE get_max_signed_value(bits)
  IN  "leading zeros" \notin Misfolded /\ x.kind = "int" /\ HasZeros(x.digits)
        /\ Len(x.digits) > Len(limit)

(* Where a sum or difference is wrong: integers whose result is negative
   or that have different signs, and a float that is subtracted from an
   integer. *)
IsMisfolded(operation, x, y) ==
  LET xf == ToFloat(x)
      yf == ToFloat(y)
      ints == x.kind = "int" /\ y.kind = "int"
  IN  \/ "leading zeros" \notin Misfolded /\ ints /\ ZerosMatter(operation, x, y)
      \/ /\ "sign" \notin Misfolded
         /\ \/ operation = "+" /\ ints /\ x.negative # y.negative /\ Worth(x) + Worth(y) < 0
            \/ operation = "-" /\ ints /\ (x.negative # y.negative \/ Worth(x) < Worth(y))
            \/ operation = "-" /\ x.kind = "int" /\ ~ints /\ Size(x) + Size(y) # 0
      \/ operation = "+" /\ ~ints /\ ~IsZero(xf.digits) /\ ~IsZero(yf.digits) /\
           (\/ xf.negative /\ ~yf.negative /\ Missubtracted(yf, Negated(xf))
            \/ ~xf.negative /\ yf.negative /\ Missubtracted(xf, Negated(yf)))
      \/ operation \in {"-"} \union Comparisons /\ ~(ints /\ operation = "-")
           /\ ~IsZero(yf.digits) /\ Missubtracted(xf, yf)
----------------------------------------
VARIABLES
  expression,   \* an operation with its operands, or a literal and its type
  folded        \* what the compiler makes of it

folding == <<expression, folded>>

NothingFolded == [kind |-> "none"]
Typed(type, bits) == [type |-> type, bits |-> bits]

FoldingInit ==
  /\ \E x \in Literals :
       \/ \E y \in Literals, operation \in Operations \union Comparisons :
            /\ ~IsMisfolded(operation, x, y)
            /\ operation = "/" => ~IsZero(IF x.kind = "int" THEN y.digits ELSE ToFloat(y).digits)
            /\ operation = "^" => y.kind = "int" /\ Size(y) <= MaxPower * Base^Scaling
            /\ expression = [operation |-> operation, lhs |-> x, rhs |-> y]
       \/ \E type \in {"u", "i"}, bits \in LiteralBits :
            /\ ~IsMisread(x, type, bits)
            /\ expression = [operation |-> "literal", lhs |-> x, rhs |-> Typed(type, bits)]
  /\ folded = NothingFolded

fold_literals ==
  /\ folded = NothingFolded
  /\ expression.operation \in Operations
  /\ \/ /\ expression.lhs.kind = "int" /\ expression.rhs.kind = "int"
        /\ folded' = FoldInts(expression.operation, expression.lhs, expression.rhs)
     \/ /\ expression.lhs.kind = "float" \/ expression.rhs.kind = "float"
        /\ expression.operation # "^"
        /\ folded' = FoldFloats(expression.operation, expression.lhs, expression.rhs)
  /\ UNCHANGED expression

fold_comparison ==
  /\ folded = NothingFolded
  /\ expression.operation \in Comparisons
  /\ folded' = [kind |-> "bool",
                value |-> compare_apfloats(expression.operation, expression.lhs, expression.rhs)]
  /\ UNCHANGED expression

(* A float that is cast to an integer type loses what is behind the point. *)
generate_literal ==
  /\ folded = NothingFolded
  /\ expression.operation = "literal"
  /\ LET x == IF expression.lhs.kind = "int" THEN expression.lhs ELSE to_apint(expression.lhs)
     IN  folded' = [kind |-> "constant",
                    value |-> IF expression.rhs.type = "u" THEN to_uN(x, expression.rhs.bits)
                              ELSE to_iN(x, expression.rhs.bits)]
  /\ UNCHANGED expression

FoldingNext == fold_literals \/ fold_comparison \/ generate_literal

FoldingSpec == FoldingInit /\ [][FoldingNext]_folding

----------------------------------------
(* A computed number is in normal form, which the comparisons of digit
   vectors rely on: no zeros in front, and no negative zero. *)
NumbersAreNormal ==
  folded.kind \in {"int", "float"} =>
    /\ folded.digits # <<>> /\ \A i \in DOMAIN folded.digits : folded.digits[i] \in 0..(Base - 1)
    /\ Stripped(folded.digits) = folded.digits
    /\ IsZero(folded.digits) /\ expression.operation \in {"*", "/", "^"} => ~folded.negative

(* The compiler computes what the program would: sums, differences and
   products are exact, a quotient of integers is cut off towards zero, one
   of floats has at least Precision right digits; comparisons compare the
   numbers, however they are written; and a literal becomes a constant of
   a type exactly when the type has its value. *)
Sign(n) == IF n < 0 THEN -1 ELSE IF n = 0 THEN 0 ELSE 1

FoldedAsComputed ==
  LET x == expression.lhs
      y == expression.rhs
      operation == expression.operation
      whole == IF x.kind = "int" THEN Number(x)
               ELSE WithSign(x, Size(x) \div Base^Scaling)
      lowest == IF y.type = "u" THEN 0 ELSE -(2^(y.bits - 1))
      highest == IF y.type = "u" THEN 2^y.bits - 1 ELSE 2^(y.bits - 1) - 1
      Compared ==
        CASE operation = "==" -> Worth(x) = Worth(y)
          [] operation = "!=" -> Worth(x) # Worth(y)
          [] operation = "<" -> Worth(x) < Worth(y)
          [] operation = "<=" -> Worth(x) <= Worth(y)
          [] operation = ">" -> Worth(x) > Worth(y)
          [] operation = ">=" -> Worth(x) >= Worth(y)
      Computed ==
        CASE operation = "+" -> Worth(folded) = Worth(x) + Worth(y)
          [] operation = "-" -> Worth(folded) = Worth(x) - Worth(y)
          [] operation = "*" -> Worth(folded) * Base^Scaling = Worth(x) * Worth(y)
          [] operation = "^" -> Number(folded) = 
               IF Number(y) = 0 THEN 1 ELSE IF y.negative THEN 0 ELSE Number(x)^Number(y)
          [] operation = "/" /\ folded.kind = "int" ->
               Number(folded) = Sign(Worth(x)) * Sign(Worth(y)) * (Size(x) \div Size(y))
          [] operation = "/" /\ folded.kind = "float" ->
               LET xf == ToFloat(x)
                   yf == ToFloat(y)
                   places == Len(xf.digits) - xf.point - Len(yf.digits) + yf.point + Precision
                   rest == (Size(x) * Base^Scaling) - (Size(folded) * Size(y))
               IN  /\ rest >= 0 /\ rest < Size(y) * Base^(Scaling - places)
                   /\ Sign(Worth(folded)) \in {0, Sign(Worth(x)) * Sign(Worth(y))}
  IN  CASE folded.kind = "none" -> TRUE
        [] folded.kind = "bool" -> folded.value = Compared
        [] folded.kind = "constant" ->
             folded.value = IF whole \in lowest..highest THEN whole ELSE NoValue
        [] OTHER -> Computed
=============================================================================
