---------------------------- MODULE Conversions -----------------------------
(***************************************************************************)
(* Numbers on their way from one type to another, and to text and back:    *)
(* the casts (generate_type_cast and generator_typecast.cpp), the text of  *)
(* an integer and of a float, parse_* and read_*, the absolute value, min  *)
(* and max, and the durations of Core time.                                *)
(*                                                                         *)
(* A behaviour is one call.  The text of an integer is written a digit per *)
(* step into a buffer whose length was computed before, and parsed again   *)
(* once it is complete.  Widths, the radix, the decimal places and the     *)
(* ratio of the time units are parameters, so that every boundary that the *)
(* code has is met with small numbers.  A character is a digit or one of   *)
(* the signs below.                                                        *)
(***************************************************************************)
EXTENDS Integers, Sequences

CONSTANTS
  Bits,        (* the model's bits for the widths 8, 16, 32 and 64         *)
  Radix,       (* 10                                                       *)
  MaxText,     (* bound: the characters of a text that is parsed           *)
  Places,      (* 6: the digits that "%.6f" and "%.6e" print               *)
  Tiny, Huge,  (* 4, 6: below 10^-4 and above 10^6 a float has an exponent *)
  MaxExponent, (* bound: the exponents of floats                           *)
  Scale,       (* 1000: microseconds to a millisecond                      *)
  NaN,         (* not a number                                             *)
  Jobs,        (* the kinds of calls                                       *)
  Loose        (* the calls known to go wrong that are made all the same   *)

Kinds == {"cast", "to_str", "parse", "read", "float", "abs", "min", "max",
          "fmin", "fmax", "sleep_time", "duration"}
Widths == {8, 16, 32, 64}

ASSUME ConversionsAssumption ==
  /\ Bits \in [Widths -> Nat \ {0, 1}]
  /\ \A v, w \in Widths : v < w => Bits[v] < Bits[w]
  /\ Radix > 1 /\ Scale > 1 /\ MaxText \in Nat
  /\ Places >= Tiny /\ Tiny \in Nat /\ Huge \in Nat /\ MaxExponent < Radix * Radix
  /\ Jobs \subseteq Kinds
  /\ Loose \subseteq {"widened", "no code", "unread", "NaN", "exponent", "long time"}

VARIABLES
  job,       (* what is called                                             *)
  from, to,  (* the types of a number and of the answer                    *)
  x, y,      (* its operands                                               *)
  text,      (* its text, or the one it writes                             *)
  rest, len, (* the locals of the loop that writes digits                  *)
  state,     (* where the call is                                          *)
  answer     (* what it answers                                            *)

conversion == <<job, from, to, x, y, text, rest, len, state, answer>>

Types == [width : Widths, signed : BOOLEAN]
Least(t) == IF t.signed THEN -(2 ^ (Bits[t.width] - 1)) ELSE 0
Greatest(t) == 2 ^ (IF t.signed THEN Bits[t.width] - 1 ELSE Bits[t.width]) - 1
Numbers(t) == Least(t) .. Greatest(t)

(* The low bits of z, as a number of type t: a truncation, or a bit pattern
   taken for another type. *)
LowBits(t, z) == ((z - Least(t)) % (2 ^ Bits[t.width])) + Least(t)

Fault(what) == <<"fault", what>>
Answer(z) == <<"value", z>>

----------------------------------------
(* Casts. *)

iN_to_uN_ext(z) == IF z < 0 THEN 0 ELSE z
uN_to_uN_trunc(t, z) == LowBits(t, IF z > Greatest(t) THEN Greatest(t) ELSE z)
uN_to_iN_trunc(t, z) == LowBits(t, IF z > Greatest(t) THEN Greatest(t) ELSE z)
iN_to_uN_trunc(t, z) ==
  LET clamped == IF z < 0 THEN 0 ELSE z
  IN LowBits(t, IF clamped > Greatest(t) THEN Greatest(t) ELSE clamped)
iN_to_iN_trunc(t, z) ==
  LET clamped == IF z < Least(t) THEN Least(t) ELSE z
  IN LowBits(t, IF z > Greatest(t) THEN Greatest(t) ELSE clamped)
uN_to_iN_same(t, z) == IF z > Greatest(t) THEN Greatest(t) ELSE z
iN_to_uN_same(z) == IF z < 0 THEN 0 ELSE z

(* Unsigned numbers are sign-extended into wider signed types. *)
sign_extended(s, z) == LowBits([s EXCEPT !.signed = TRUE], z)

Narrowed(s, t, z) ==
  CASE s.signed /\ t.signed -> iN_to_iN_trunc(t, z)
    [] s.signed /\ ~t.signed -> iN_to_uN_trunc(t, z)
    [] ~s.signed /\ t.signed -> uN_to_iN_trunc(t, z)
    [] OTHER -> uN_to_uN_trunc(t, z)

Widened(s, t, z) ==
  CASE s.signed /\ ~t.signed -> iN_to_uN_ext(z)
    [] ~s.signed /\ t.signed -> sign_extended(s, z)
    [] OTHER -> z

(* The branch for i8 to u8 tests for i8 a second time. *)
NoCode(s, t) == s.width = 8 /\ t.width = 8 /\ s.signed /\ ~t.signed

generate_type_cast(s, t, z) ==
  CASE s = t -> Answer(z)
    [] s # t /\ NoCode(s, t) -> Fault("no code")
    [] s.width < t.width -> Answer(Widened(s, t, z))
    [] s.width > t.width -> Answer(Narrowed(s, t, z))
    [] OTHER -> Answer(IF s.signed THEN iN_to_uN_same(z) ELSE uN_to_iN_same(t, z))

Cast ==
  /\ job = "cast" /\ state = "called"
  /\ answer' = generate_type_cast(from, to, x)
  /\ state' = "done"
  /\ UNCHANGED <<job, from, to, x, y, text, rest, len>>

----------------------------------------
(* The text of an integer. *)

Minus == -1
Dot == -2
Exponent == -3
Plus == -4
Other == -5      (* any other character                                    *)
Garbage == -6    (* a byte that nobody wrote                               *)

count_digits[n \in Nat] == IF n < Radix THEN 1 ELSE 1 + count_digits[n \div Radix]

RECURSIVE Digits(_)
Digits(n) ==
  IF n < Radix THEN <<n>> ELSE Append(Digits(n \div Radix), n % Radix)

Decimal(z) == IF z < 0 THEN <<Minus>> \o Digits(-z) ELSE Digits(z)

(* Of the unsigned numbers 0, and of the signed ones the least, has a text
   of its own: the least number of each. *)
HasTextOfItsOwn == x = Least(from)

(* A mistake: no room for the sign. *)
MakeBufferOfDigits ==
  /\ job = "to_str" /\ state = "called" /\ ~HasTextOfItsOwn
  /\ rest' = (IF x < 0 THEN -x ELSE x)
  /\ len' = count_digits[rest']
  /\ text' = [i \in 1 .. len' |-> Garbage]
  /\ state' = "digits"
  /\ UNCHANGED <<job, from, to, x, y, answer>>

ShortText ==
  /\ job = "to_str" /\ state = "called" /\ HasTextOfItsOwn
  /\ text' = Decimal(x)
  /\ state' = "written"
  /\ UNCHANGED <<job, from, to, x, y, rest, len, answer>>

(* For the others a buffer is made, and the digits, one for a signed 0 too,
   are written from its end. *)
MakeBuffer ==
  /\ job = "to_str" /\ state = "called" /\ ~HasTextOfItsOwn
  /\ rest' = (IF x < 0 THEN -x ELSE x)
  /\ len' = count_digits[rest'] + (IF x < 0 THEN 1 ELSE 0)
  /\ text' = [i \in 1 .. len' |-> Garbage]
  /\ state' = "digits"
  /\ UNCHANGED <<job, from, to, x, y, answer>>

(* In front of the buffer is outside of the string. *)
Write(character, next) ==
  IF len = 0 THEN state' = "outside" /\ UNCHANGED <<text, len>>
  ELSE /\ text' = [text EXCEPT ![len] = character]
       /\ len' = len - 1
       /\ state' = next

WriteDigit ==
  /\ state = "digits"
  /\ rest' = rest \div Radix
  /\ Write(rest % Radix, IF rest' > 0 THEN "digits" ELSE "sign")
  /\ UNCHANGED <<job, from, to, x, y, answer>>

WriteSign ==
  /\ state = "sign"
  /\ IF x < 0 THEN Write(Minus, "written")
     ELSE state' = "written" /\ UNCHANGED <<text, len>>
  /\ UNCHANGED <<job, from, to, x, y, rest, answer>>

----------------------------------------
(* From text to integers. *)

(* strtoll and strtoull: an optional sign and digits, as far as they go;
   the last character read, the value, and whether it was out of range. *)
Signed(s) == s # <<>> /\ s[1] = Minus
DigitsEnd(s) ==
  LET first == IF Signed(s) THEN 2 ELSE 1
  IN CHOOSE n \in first - 1 .. Len(s) :
       /\ \A i \in first .. n : s[i] \in 0 .. Radix - 1
       /\ n = Len(s) \/ s[n + 1] \notin 0 .. Radix - 1
Magnitude(s, first, last) ==
  LET value[n \in first - 1 .. last] ==
        IF n < first THEN 0 ELSE (value[n - 1] * Radix) + s[n]
  IN value[last]
Converted(s, t) ==
  LET first == IF Signed(s) THEN 2 ELSE 1
      size == Magnitude(s, first, DigitsEnd(s))
      exact == IF Signed(s) THEN -size ELSE size
  IN [stops |-> IF DigitsEnd(s) < first THEN 0 ELSE DigitsEnd(s),
      range |-> IF t.signed THEN exact \notin Numbers(t) ELSE size > Greatest(t),
      value |-> CASE t.signed /\ exact < Least(t) -> Least(t)
                  [] t.signed /\ exact > Greatest(t) -> Greatest(t)
                  [] ~t.signed /\ size > Greatest(t) -> Greatest(t)
                  [] OTHER -> LowBits(t, exact)]
strtoll(s) == Converted(s, [width |-> 64, signed |-> TRUE])
strtoull(s) == Converted(s, [width |-> 64, signed |-> FALSE])

(* What the 64 bits are when they are compared as signed. *)
AsSigned(z) == LowBits([width |-> 64, signed |-> TRUE], z)

parse_int(s, t) ==
  LET c == strtoll(s)
  IN CASE c.stops < Len(s) -> Fault("InvalidCharacter")
       [] c.stops = Len(s) /\ c.range -> Fault("OutOfBounds")
       [] c.stops = Len(s) /\ ~c.range /\ t.width < 64 /\ c.value < Least(t) -> Fault("OutOfBounds")
       [] c.stops = Len(s) /\ ~c.range /\ t.width < 64 /\ c.value > Greatest(t) -> Fault("OutOfBounds")
       [] OTHER -> Answer(LowBits(t, c.value))

parse_uint(s, t) ==
  LET c == strtoull(s)
  IN CASE c.stops < Len(s) -> Fault("InvalidCharacter")
       [] c.stops = Len(s) /\ c.range -> Fault("OutOfBounds")
       [] c.stops = Len(s) /\ ~c.range /\ t.width < 64 /\ AsSigned(c.value) < 0 -> Fault("OutOfBounds")
       [] c.stops = Len(s) /\ ~c.range /\ t.width < 64 /\ AsSigned(c.value) > Greatest(t) -> Fault("OutOfBounds")
       [] OTHER -> Answer(LowBits(t, c.value))

(* The line that was read; errno is not looked at, nor the range. *)
read_int(s, t) ==
  IF strtoll(s).stops < Len(s) THEN Fault("ParseInt")
  ELSE Answer(LowBits(t, strtoll(s).value))

read_uint(s, t) ==
  CASE s # <<>> /\ s[1] = Minus -> Fault("NegativeUint")
    [] ~Signed(s) /\ strtoull(s).stops < Len(s) -> Fault("ParseInt")
    [] OTHER -> Answer(LowBits(t, strtoull(s).value))

Parse ==
  /\ \/ job = "parse" /\ state = "called"
     \/ job = "to_str" /\ state = "written"
  /\ answer' = IF to.signed THEN parse_int(text, to) ELSE parse_uint(text, to)
  /\ state' = "done"
  /\ UNCHANGED <<job, from, to, x, y, text, rest, len>>

Read ==
  /\ job = "read" /\ state = "called"
  /\ answer' = IF to.signed THEN read_int(text, to) ELSE read_uint(text, to)
  /\ state' = "done"
  /\ UNCHANGED <<job, from, to, x, y, text, rest, len>>

----------------------------------------
(* The text of a float, x times the radix to the power of y. *)

Zeros(n) == [i \in 1 .. n |-> 0]
HasExponent ==
  x = 0 \/ y < -Tiny \/ y > Huge \/ (y = Huge /\ x > 1)
Fixed ==
  IF y >= 0 THEN <<x>> \o Zeros(y) \o <<Dot>> \o Zeros(Places)
  ELSE <<0, Dot>> \o [Zeros(Places) EXCEPT ![-y] = x]
Scientific ==
  <<x, Dot>> \o Zeros(Places) \o <<Exponent, IF y < 0 THEN Minus ELSE Plus>>
    \o (LET size == IF y < 0 THEN -y ELSE y IN <<size \div Radix, size % Radix>>)

(* The loop that looks for the last character that is not 0. *)
RECURSIVE LastKept(_, _)
LastKept(s, last) ==
  IF last > 1 /\ s[last] = 0 THEN LastKept(s, last - 1) ELSE last
Trimmed(s) ==
  LET last == LastKept(s, Len(s))
  IN SubSeq(s, 1, IF s[last] = Dot THEN last - 1 ELSE last)

FloatText ==
  /\ job = "float" /\ state = "called"
  /\ text' = Trimmed(IF HasExponent THEN Scientific ELSE Fixed)
  /\ state' = "done"
  /\ UNCHANGED <<job, from, to, x, y, rest, len, answer>>

----------------------------------------
(* Core math and Core time. *)

(* labs or abs of the extended number, cut to its width. *)
abs_iN(t, z) == IF z = Least(t) THEN Greatest(t) ELSE LowBits(t, IF z < 0 THEN -z ELSE z)

(* Comparisons that are false if one side is not a number. *)
Ordered(u, v) == u # NaN /\ v # NaN
fmin(u, v) ==
  CASE Ordered(v, v) /\ v # v -> u
    [] ~(Ordered(v, v) /\ v # v) /\ Ordered(u, v) /\ u < v -> u
    [] OTHER -> v
fmax(u, v) ==
  CASE Ordered(v, v) /\ v # v -> u
    [] ~(Ordered(v, v) /\ v # v) /\ Ordered(u, v) /\ u > v -> u
    [] OTHER -> v

Calculated ==
  CASE job = "abs" -> abs_iN(from, x)
    [] job = "min" -> IF x < y THEN x ELSE y
    [] job = "max" -> IF x > y THEN x ELSE y
    [] job = "fmin" -> fmin(x, y)
    [] job = "fmax" -> fmax(x, y)

Calculate ==
  /\ job \in {"abs", "min", "max", "fmin", "fmax"} /\ state = "called"
  /\ answer' = Answer(Calculated)
  /\ state' = "done"
  /\ UNCHANGED <<job, from, to, x, y, text, rest, len>>

(* The nanoseconds of an amount x of the unit y; an unknown unit has none. *)
U64 == [width |-> 64, signed |-> FALSE]
from_unit(amount, unit) == IF unit \in 0 .. 3 THEN LowBits(U64, amount * Scale ^ unit) ELSE 0

(* What nanosleep is given. *)
sleep_duration(nanoseconds) ==
  [tv_sec |-> nanoseconds \div (Scale ^ 3), tv_nsec |-> nanoseconds % (Scale ^ 3)]

SleepTime ==
  /\ job = "sleep_time" /\ state = "called"
  /\ answer' = Answer(sleep_duration(from_unit(x, y)))
  /\ state' = "done"
  /\ UNCHANGED <<job, from, to, x, y, text, rest, len>>

Duration ==
  /\ job = "duration" /\ state = "called"
  /\ answer' = Answer(IF y >= x THEN y - x ELSE x - y)
  /\ state' = "done"
  /\ UNCHANGED <<job, from, to, x, y, text, rest, len>>

----------------------------------------
(* Calls. *)

(* The calls that go wrong, by what is wrong with them. *)
Widens(s, t, z) == s.width < t.width /\ ~s.signed /\ t.signed /\ z > Greatest([s EXCEPT !.signed = TRUE])
Exact(s) == LET size == Magnitude(s, IF Signed(s) THEN 2 ELSE 1, Len(s))
            IN IF Signed(s) THEN -size ELSE size
WellFormed(s) == DigitsEnd(s) = Len(s) /\ ~(s = <<Minus>>)
Unread ==
  /\ WellFormed(text)
  /\ Exact(text) \notin Numbers(to)
  /\ \/ job = "read" /\ (to.signed \/ ~Signed(text))
     \/ job = "parse" /\ ~to.signed /\ Signed(text) /\ (to.width = 64 \/ AsSigned(strtoull(text).value) >= 0)
TrailingZero == job = "float" /\ HasExponent /\ y % Radix = 0

Allowed ==
  /\ Widens(from, to, x) /\ job = "cast" => "widened" \in Loose
  /\ job = "cast" /\ NoCode(from, to) => "no code" \in Loose
  /\ Unread => "unread" \in Loose
  /\ job \in {"fmin", "fmax"} /\ y = NaN /\ x # NaN => "NaN" \in Loose
  /\ TrailingZero => "exponent" \in Loose
  /\ job = "sleep_time" /\ y \in 0 .. 3 /\ x * Scale ^ y > Greatest(U64) => "long time" \in Loose

Texts == UNION {[1 .. n -> (0 .. Radix - 1) \cup {Minus, Other}] : n \in 0 .. MaxText}

(* parse_* and read_* exist for these types. *)
Parsed == {t \in Types : t.width \in {32, 64} \/ t = [width |-> 8, signed |-> FALSE]}

Unused == CHOOSE t \in Types : t = U64

ConversionInit ==
  /\ job \in Jobs
  /\ state = "called" /\ rest = 0 /\ len = 0 /\ answer = <<>>
  /\ \/ job = "cast" /\ from \in Types /\ to \in Types /\ x \in Numbers(from) /\ y = 0 /\ text = <<>>
     \/ job = "to_str" /\ from \in Parsed /\ to = from /\ x \in Numbers(from) /\ y = 0 /\ text = <<>>
     \/ job \in {"parse", "read"} /\ to \in Parsed /\ from = Unused /\ x = 0 /\ y = 0 /\ text \in Texts
     \/ /\ job = "float" /\ from = Unused /\ to = Unused /\ text = <<>>
        /\ x \in 0 .. Radix - 1 /\ y \in -MaxExponent .. MaxExponent /\ (x = 0 => y = 0)
     \/ /\ job = "abs" /\ from \in {t \in Types : t.signed} /\ to = from
        /\ x \in Numbers(from) /\ y = 0 /\ text = <<>>
     \/ /\ job \in {"min", "max"} /\ from \in Types /\ to = from
        /\ x \in Numbers(from) /\ y \in Numbers(from) /\ text = <<>>
     \/ /\ job \in {"fmin", "fmax"} /\ from = Unused /\ to = Unused
        /\ x \in {-1, 0, 1, NaN} /\ y \in {-1, 0, 1, NaN} /\ text = <<>>
     \/ job = "sleep_time" /\ from = U64 /\ to = U64 /\ x \in Numbers(U64) /\ y \in 0 .. 4 /\ text = <<>>
     \/ job = "duration" /\ from = U64 /\ to = U64 /\ x \in Numbers(U64) /\ y \in Numbers(U64) /\ text = <<>>
  /\ Allowed

Answered == state \in {"done", "outside"} /\ UNCHANGED conversion

ConversionNext ==
  \/ Cast \/ ShortText \/ MakeBuffer \/ WriteDigit \/ WriteSign \/ Parse \/ Read
  \/ FloatText \/ Calculate \/ SleepTime \/ Duration \/ Answered

----------------------------------------
(* What the calls answer. *)

Within(t, z) == IF z > Greatest(t) THEN Greatest(t) ELSE IF z < Least(t) THEN Least(t) ELSE z

(* A cast keeps the number, or takes the nearest one that its type has, and
   the absolute value, the smaller, the larger, the time between two stamps
   and the time to sleep are the exact ones; where one of two floats is not
   a number, the other one is taken.  nanosleep is given less than a second
   of nanoseconds. *)
CalculationsAreExact ==
  state = "done" =>
    /\ job = "cast" => answer = Answer(Within(to, x))
    /\ job = "abs" => answer = Answer(Within(from, IF x < 0 THEN -x ELSE x))
    /\ job = "min" => answer[2] \in {x, y} /\ answer[2] <= x /\ answer[2] <= y
    /\ job = "max" => answer[2] \in {x, y} /\ answer[2] >= x /\ answer[2] >= y
    /\ job \in {"fmin", "fmax"} =>
         /\ answer[2] \in {x, y}
         /\ answer[2] = NaN => {x, y} = {NaN}
         /\ NaN \notin {x, y} /\ job = "fmin" => answer[2] <= x /\ answer[2] <= y
         /\ NaN \notin {x, y} /\ job = "fmax" => answer[2] >= x /\ answer[2] >= y
    /\ job = "duration" => answer[2] \in {x - y, y - x} /\ answer[2] >= 0
    /\ job = "sleep_time" =>
         /\ answer[2].tv_nsec < Scale ^ 3
         /\ y \in 0 .. 3 => (answer[2].tv_sec * Scale ^ 3) + answer[2].tv_nsec = x * Scale ^ y

(* The value that a float's text denotes is x times the radix to the y, all
   of it scaled by the same power. *)
Denotes(s) ==
  LET point == {i \in 1 .. Len(s) : s[i] = Dot}
      e == {i \in 1 .. Len(s) : s[i] = Exponent}
      last == IF e = {} THEN Len(s) ELSE (CHOOSE i \in e : TRUE) - 1
      whole == IF point = {} THEN last ELSE (CHOOSE i \in point : TRUE) - 1
      digits == SelectSeq(SubSeq(s, 1, last), LAMBDA c : c # Dot)
      places == IF point = {} THEN 0 ELSE last - whole - 1
      power == IF e = {} THEN 0
               ELSE LET n == Magnitude(s, last + 3, Len(s)) IN IF s[last + 2] = Minus THEN -n ELSE n
  IN /\ e # {} => Len(s) > last + 2
     /\ Magnitude(digits, 1, Len(digits)) * Radix ^ (power - places + 2 * MaxExponent + Places)
          = x * Radix ^ (y + 2 * MaxExponent + Places)

(* The text of an integer is its decimal, written to the last byte and not
   beyond; it parses to the same integer.  A text that is parsed or read
   gives the number it denotes or the error that says why not: a character
   that does not belong to a number, or a number that its type lacks.  The
   text of a float denotes the float. *)
TextsAreNumbers ==
  /\ state # "outside"
  /\ state = "written" => text = Decimal(x)
  /\ state = "done" /\ job = "to_str" => answer = Answer(x)
  /\ state = "done" /\ job = "float" => Denotes(text)
  /\ state = "done" /\ job \in {"parse", "read"} =>
       IF ~WellFormed(text) THEN answer[1] = "fault" /\ answer[2] # "OutOfBounds"
       ELSE answer = CASE job = "read" /\ ~to.signed /\ Signed(text) -> Fault("NegativeUint")
                       [] job = "parse" /\ Exact(text) \notin Numbers(to) -> Fault("OutOfBounds")
                       [] OTHER -> Answer(Exact(text))

(* A number is the same number, or the nearest, in its new type and form. *)
NumbersAreKept == CalculationsAreExact /\ TextsAreNumbers
=============================================================================
