----------------------------- MODULE Arithmetic -----------------------------
(***************************************************************************)
(* The integer functions that src/generator/module/generator_arithmetic.cpp *)
(* emits into the runtime of every program, for scalars and for vectors,   *)
(* under each mode of --arithmetic.                                        *)
(*                                                                         *)
(* A behaviour is one call.  A function with no loop is a single step; the *)
(* loop of the power function takes a step per call that it makes.  Every  *)
(* other function has the same frame: an error test, computed without a    *)
(* branch, decides between what it computed and a substitute, and in two   *)
(* modes between two blocks.  What differs is written per lane: whether it *)
(* is an error, what to return then, what to return otherwise, and whether *)
(* an instruction that is executed in any case is undefined for it.        *)
(*                                                                         *)
(* An undefined division either stops the program (the processor's trap)   *)
(* or, where the optimizer moved it behind the test, is never executed.    *)
(***************************************************************************)
EXTENDS Integers, FiniteSets

CONSTANTS
  Half,        (* 2^(w-1) for integers of w bits                           *)
  Lanes,       (* the number of lanes of a vector                          *)
  OtherLanes,  (* bound: the values considered in lanes but the first      *)
  Forms        (* the functions whose calls are considered                 *)

Functions ==
  [op : {"add", "sub", "mul", "div", "mod", "pow"}, signed : BOOLEAN,
   shape : {"small", "wide"}]
    \cup [op : {"add", "sub", "mul", "div"}, signed : BOOLEAN, shape : {"vector"}]

ASSUME ArithmeticAssumption ==
  /\ Half \in Nat /\ Half > 2
  /\ Lanes \in Nat \ {0}
  /\ OtherLanes \subseteq Int
  /\ Forms \subseteq Functions

VARIABLES
  overflow_mode,  (* chosen when the program is compiled                   *)
  fn,             (* the function that is called                           *)
  lhs, rhs,       (* its arguments, a value per lane                       *)
  at,             (* where the call is                                     *)
  returned,       (* what it returned, per lane                            *)
  printed,        (* whether it printed a message                          *)
  base_mut, exp_mut, result   (* the locals of the power function          *)

call == <<overflow_mode, fn, lhs, rhs>>
locals == <<base_mut, exp_mut, result>>
arithmetic_vars == <<call, at, returned, printed, locals>>

----------------------------------------
(* Integers of w bits. *)

MinOf(signed) == IF signed THEN -Half ELSE 0
MaxOf(signed) == IF signed THEN Half - 1 ELSE 2 * Half - 1
Values(signed) == MinOf(signed) .. MaxOf(signed)

(* What an instruction leaves of a result. *)
Wrapped(signed, x) ==
  IF signed THEN ((x + Half) % (2 * Half)) - Half ELSE x % (2 * Half)

(* Division and remainder of the machine, which round to zero. *)
Abs(x) == IF x < 0 THEN -x ELSE x
Quotient(x, y) ==
  IF (x < 0) = (y < 0) THEN Abs(x) \div Abs(y) ELSE -(Abs(x) \div Abs(y))
Remainder(x, y) == x - y * Quotient(x, y)

(* One lane of a function: the error test, the substitute, the result. *)
Tested(error, instead, plain) ==
  [error |-> error, instead |-> instead, plain |-> plain, undefined |-> FALSE]
Plain(x) == Tested(FALSE, x, x)

----------------------------------------
(* The functions, lane by lane. *)

int_safe_add(l, r) ==
  LET add == Wrapped(TRUE, l + r)
      pos_overflow == l >= 0 /\ r >= 0 /\ add < 0
      neg_overflow == l < 0 /\ r < 0 /\ add >= 0
  IN Tested(pos_overflow \/ neg_overflow,
            IF neg_overflow THEN MinOf(TRUE) ELSE MaxOf(TRUE), add)

int_safe_sub(l, r) ==
  LET sub == Wrapped(TRUE, l - r)
      pos_overflow == l >= 0 /\ r < 0 /\ sub < 0
      neg_overflow == l < 0 /\ r >= 0 /\ sub >= 0
  IN Tested(pos_overflow \/ neg_overflow,
            IF neg_overflow THEN MinOf(TRUE) ELSE MaxOf(TRUE), sub)

(* A mistake: products below the range are not looked for. *)
ProductUnderflows(l, r) ==
  Tested(l * r > MaxOf(TRUE), MaxOf(TRUE), l * r)

(* Up to 32 bits: the product is computed in 64, and fits if no test fired. *)
int_safe_mul_small(l, r) ==
  LET product == l * r
  IN Tested(product > MaxOf(TRUE) \/ product < MinOf(TRUE),
            IF product > MaxOf(TRUE) THEN MaxOf(TRUE) ELSE MinOf(TRUE),
            product)

(* 64 bits: the simple factors apart, the product is divided again. *)
int_safe_mul(l, r) ==
  LET product == Wrapped(TRUE, l * r)
  IN CASE l = 0 \/ r = 0 -> Plain(0)
       [] l # 0 /\ r # 0 /\ (l \in {1, -1} \/ r \in {1, -1}) ->
            Plain(IF {l, r} = {-1, MinOf(TRUE)} THEN MaxOf(TRUE) ELSE product)
       [] OTHER ->
            Tested(Quotient(product, l) # r,
                   IF (l < 0) = (r < 0) THEN MaxOf(TRUE) ELSE MinOf(TRUE),
                   product)

int_safe_div(l, r) ==
  LET error == r = 0 \/ (l = MinOf(TRUE) /\ r = -1)
  IN [error |-> error, instead |-> l, undefined |-> error,
      plain |-> IF error THEN l ELSE Quotient(l, r)]

(* The one function for both kinds of integer; only 0 is tested for. *)
int_safe_mod(signed, l, r) ==
  [error |-> FALSE, instead |-> 0,
   undefined |-> signed /\ l = MinOf(TRUE) /\ r = -1,
   plain |-> IF r = 0 THEN 0 ELSE Remainder(l, r)]

uint_safe_add(l, r) ==
  Tested(r > MaxOf(FALSE) - l, MaxOf(FALSE), Wrapped(FALSE, l + r))

uint_safe_sub(l, r) == Tested(~(l >= r), 0, Wrapped(FALSE, l - r))

uint_safe_mul(l, r) ==
  LET safe_lhs == IF l = 0 THEN 1 ELSE l
  IN Tested(l # 0 /\ r # 0 /\ r > MaxOf(FALSE) \div safe_lhs,
            MaxOf(FALSE), Wrapped(FALSE, l * r))

uint_safe_div(l, r) ==
  [error |-> r = 0, instead |-> MaxOf(FALSE), undefined |-> r = 0,
   plain |-> IF r = 0 THEN MaxOf(FALSE) ELSE l \div r]

(* The vectors: in each lane the test of the scalars, with three exceptions. *)
int_vector_safe_add(l, r) == int_safe_add(l, r)

int_vector_safe_sub(l, r) == int_safe_sub(l, r)

int_vector_safe_mul(l, r) ==
  LET product == Wrapped(TRUE, l * r)
      should_be_pos == (l < 0) = (r < 0)
      wrong_sign == should_be_pos # ~(product < 0)
  IN Tested(wrong_sign, IF should_be_pos THEN MaxOf(TRUE) ELSE MinOf(TRUE), product)

int_vector_safe_div(l, r) == int_safe_div(l, r)

(* A mistake: an unchanged sum is taken for one that wrapped. *)
AddUnchanged(l, r) ==
  LET add == Wrapped(FALSE, l + r) IN Tested(add <= l, MaxOf(FALSE), add)

(* A sum that wrapped is below both of its operands. *)
uint_vector_safe_add(l, r) ==
  LET add == Wrapped(FALSE, l + r) IN Tested(add < l, MaxOf(FALSE), add)

uint_vector_safe_sub(l, r) == uint_safe_sub(l, r)

uint_vector_safe_mul(l, r) ==
  LET product == Wrapped(FALSE, l * r)
  IN [error |-> r # 0 /\ product \div r # l, instead |-> MaxOf(FALSE),
      undefined |-> r = 0, plain |-> product]

uint_vector_safe_div(l, r) == uint_safe_div(l, r)

----------------------------------------
(* Which of them a call of f runs in each lane. *)

VectorLane(f, l, r) ==
  CASE f.op = "add" /\ f.signed  -> int_vector_safe_add(l, r)
    [] f.op = "sub" /\ f.signed  -> int_vector_safe_sub(l, r)
    [] f.op = "mul" /\ f.signed  -> int_vector_safe_mul(l, r)
    [] f.op = "div" /\ f.signed  -> int_vector_safe_div(l, r)
    [] f.op = "add" /\ ~f.signed -> uint_vector_safe_add(l, r)
    [] f.op = "sub" /\ ~f.signed -> uint_vector_safe_sub(l, r)
    [] f.op = "mul" /\ ~f.signed -> uint_vector_safe_mul(l, r)
    [] OTHER                     -> uint_vector_safe_div(l, r)

ScalarProduct(f, l, r) ==
  CASE f.signed /\ f.shape = "small" -> int_safe_mul_small(l, r)
    [] f.signed /\ f.shape = "wide"  -> int_safe_mul(l, r)
    [] OTHER                         -> uint_safe_mul(l, r)

ScalarLane(f, l, r) ==
  CASE f.op = "add" /\ f.signed  -> int_safe_add(l, r)
    [] f.op = "sub" /\ f.signed  -> int_safe_sub(l, r)
    [] f.op = "div" /\ f.signed  -> int_safe_div(l, r)
    [] f.op = "add" /\ ~f.signed -> uint_safe_add(l, r)
    [] f.op = "sub" /\ ~f.signed -> uint_safe_sub(l, r)
    [] f.op = "div" /\ ~f.signed -> uint_safe_div(l, r)
    [] f.op = "mul"              -> ScalarProduct(f, l, r)
    [] OTHER                     -> int_safe_mod(f.signed, l, r)

Lane(f, l, r) ==
  IF f.shape = "vector" THEN VectorLane(f, l, r) ELSE ScalarLane(f, l, r)

(* The frame around the test. *)
Selected(lane) == IF lane.error THEN lane.instead ELSE lane.plain
Reports(error) == error /\ overflow_mode # "SILENT"
Stops(error) == error /\ overflow_mode = "CRASH"

----------------------------------------
(* Calls. *)

LanesOf(f) == IF f.shape = "vector" THEN 1 .. Lanes ELSE {1}

Arguments(f) ==
  {a \in [LanesOf(f) -> Values(f.signed)] : \A i \in LanesOf(f) \ {1} : a[i] \in OtherLanes}

(* Without checks only the power functions are emitted. *)
Emitted(mode) == {f \in Forms : mode = "UNSAFE" => f.op = "pow"}

ArithmeticInit ==
  /\ overflow_mode \in {"PRINT", "SILENT", "CRASH", "UNSAFE"}
  /\ fn \in Emitted(overflow_mode)
  /\ lhs \in Arguments(fn) /\ rhs \in Arguments(fn)
  /\ at = "entry" /\ returned = lhs /\ printed = FALSE
  /\ base_mut = 0 /\ exp_mut = 0 /\ result = 0

Return(values) == returned' = values /\ at' = "returned"

(* A function without a loop: the test of every lane, then the frame. *)
Compute ==
  /\ at = "entry" /\ fn.op # "pow"
  /\ LET lane == [i \in LanesOf(fn) |-> Lane(fn, lhs[i], rhs[i])]
         any_error == \E i \in LanesOf(fn) : lane[i].error
     IN /\ printed' = Reports(any_error)
        /\ IF Stops(any_error) THEN at' = "aborted" /\ UNCHANGED returned
           ELSE Return([i \in LanesOf(fn) |-> Selected(lane[i])])
  /\ UNCHANGED <<call, locals>>

(* A division that is executed ahead of its test. *)
Trap ==
  /\ at = "entry" /\ fn.op # "pow"
  /\ \E i \in LanesOf(fn) : Lane(fn, lhs[i], rhs[i]).undefined
  /\ at' = "trapped"
  /\ UNCHANGED <<call, locals, returned, printed>>

(* The power function.  Its products are calls of the function above, or
   bare multiplications where nothing is checked. *)
Enter ==
  /\ at = "entry" /\ fn.op = "pow"
  /\ base_mut' = lhs[1] /\ exp_mut' = rhs[1] /\ result' = 1
  /\ at' = "loop"
  /\ UNCHANGED <<call, returned, printed>>

Multiplied(x, y) ==
  IF overflow_mode = "UNSAFE" THEN Plain(Wrapped(fn.signed, x * y))
  ELSE ScalarProduct(fn, x, y)

Multiply(x, y, next) ==
  LET error == Multiplied(x, y).error
  IN /\ printed' = (printed \/ Reports(error))
     /\ at' = IF Stops(error) THEN "aborted" ELSE next

LoopEven ==
  /\ at = "loop" /\ exp_mut > 0 /\ exp_mut % 2 # 1
  /\ at' = "square"
  /\ UNCHANGED <<call, returned, printed, locals>>

LoopUneven ==
  /\ at = "loop" /\ exp_mut > 0 /\ exp_mut % 2 = 1
  /\ Multiply(result, base_mut, "square")
  /\ result' = Selected(Multiplied(result, base_mut))
  /\ UNCHANGED <<call, returned, base_mut, exp_mut>>

(* A mistake: the base is squared once more than it is used. *)
SquareAlways ==
  /\ at = "square"
  /\ Multiply(base_mut, base_mut, "loop")
  /\ base_mut' = Selected(Multiplied(base_mut, base_mut))
  /\ exp_mut' = exp_mut \div 2
  /\ UNCHANGED <<call, returned, result>>

(* The last square would not be used, and could overflow. *)
Square ==
  /\ at = "square" /\ exp_mut # 1
  /\ Multiply(base_mut, base_mut, "loop")
  /\ base_mut' = Selected(Multiplied(base_mut, base_mut))
  /\ exp_mut' = exp_mut \div 2
  /\ UNCHANGED <<call, returned, result>>

PowerReturns ==
  /\ \/ at = "loop" /\ ~(exp_mut > 0)
     \/ at = "square" /\ exp_mut = 1
  /\ Return([i \in {1} |-> result])
  /\ UNCHANGED <<call, printed, locals>>

Ended == at \in {"returned", "aborted", "trapped"} /\ UNCHANGED arithmetic_vars

ArithmeticNext ==
  \/ Compute \/ Trap
  \/ Enter \/ LoopEven \/ LoopUneven \/ Square \/ PowerReturns
  \/ Ended

ArithmeticSpec == ArithmeticInit /\ [][ArithmeticNext]_arithmetic_vars

----------------------------------------
(* What --arithmetic documents. *)

(* Every variable has its type, and what is returned or kept by the power
   function fits its integers. *)
ArithmeticTypeOK ==
  /\ overflow_mode \in {"PRINT", "SILENT", "CRASH", "UNSAFE"}
  /\ fn \in Emitted(overflow_mode)
  /\ {lhs, rhs, returned} \subseteq [LanesOf(fn) -> Values(fn.signed)]
  /\ at \in {"entry", "loop", "square", "returned", "aborted", "trapped"}
  /\ printed \in BOOLEAN
  /\ {base_mut, exp_mut, result} \subseteq Values(fn.signed)

Clamped(signed, x) ==
  IF x > MaxOf(signed) THEN MaxOf(signed)
  ELSE IF x < MinOf(signed) THEN MinOf(signed) ELSE x

(* The call that ended returned the exact result, clamped, or stopped, and
   it reported or stopped if the exact result of some lane does not fit,
   and only then. *)
Saturates(exact) ==
  LET overflow == \E i \in LanesOf(fn) : exact[i] \notin Values(fn.signed)
  IN /\ at = "returned" =>
          returned = [i \in LanesOf(fn) |-> Clamped(fn.signed, exact[i])]
     /\ at = "aborted" <=> Stops(overflow)
     /\ printed = Reports(overflow)

(* Additions and subtractions saturate, report and stop as documented, on
   scalars and in every lane of a vector, whose tests differ. *)
SumsAreClamped ==
  at # "entry" =>
    /\ fn.op = "add" => Saturates([i \in LanesOf(fn) |-> lhs[i] + rhs[i]])
    /\ fn.op = "sub" => Saturates([i \in LanesOf(fn) |-> lhs[i] - rhs[i]])

(* -1 times the smallest integer of 64 bits is clamped without a report. *)
Unreported ==
  fn.op = "mul" /\ fn.signed /\ fn.shape = "wide" /\ {lhs[1], rhs[1]} = {-1, -Half}

(* Products that are returned, or for which the program was stopped, are
   clamped and reported as documented, by whichever of the four ways to
   find out that a product does not fit. *)
ProductsAreClamped ==
  at \in {"returned", "aborted"} /\ fn.op = "mul" /\ ~Unreported =>
    Saturates([i \in LanesOf(fn) |-> lhs[i] * rhs[i]])

(* "The value is clamped to the minimum value (underflow) or the maximum
   value (overflow)", with a message or a crash if that was asked for. *)
ResultsAreClamped == SumsAreClamped /\ ProductsAreClamped

(* The exact power, kept within twice the range: far enough to know that
   it does not fit, and on which side. *)
Power(b, e) ==
  LET Kept(x) == IF x > 2 * Half THEN 2 * Half ELSE IF x < -2 * Half THEN -2 * Half ELSE x
      power[n \in 0 .. e] == IF n = 0 THEN 1 ELSE Kept(b * power[n - 1])
  IN power[e]

(* Powers with an exponent that is not negative are clamped and reported
   too: no square on the way is reported unless the power itself does not
   fit, and none that saturates leads to a wrong result. *)
PowersAreClamped ==
  /\ at \in {"returned", "aborted"} /\ overflow_mode # "UNSAFE"
  /\ fn.op = "pow" /\ rhs[1] >= 0
  => Saturates([i \in {1} |-> Power(lhs[1], rhs[1])])
=============================================================================
