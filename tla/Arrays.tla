------------------------------- MODULE Arrays -------------------------------
(***************************************************************************)
(* Arrays of a compiled program: the runtime functions that                *)
(* src/generator/module/generator_array.cpp emits, and the statements and  *)
(* expressions of src/generator that call them.                            *)
(*                                                                         *)
(* An array is its lengths, one per dimension, and its elements in a row;  *)
(* the first dimension varies fastest.  Indices and lengths do not travel  *)
(* as arguments.  They are stored in a scratch array of the function that  *)
(* is compiled, `arr::idx::N`, one for all the uses of N numbers, and the  *)
(* runtime function reads it: whatever is evaluated between the store and  *)
(* the call, and uses N numbers as well, replaces them.                    *)
(*                                                                         *)
(* A statement evaluates its values, each a literal or an element of some  *)
(* array, and ends by storing them or by making an array of them.          *)
(***************************************************************************)
EXTENDS Integers, Sequences, FiniteSets, SequencesExt

CONSTANTS
  Vars,       (* the variables whose type is an array                      *)
  Shapes,     (* bound: the lengths that arrays are made with              *)
  Ranges,     (* bound: the slices, a range or an index per dimension      *)
  Elements,   (* the values of elements                                    *)
  Junk,       (* what malloc leaves in an element                          *)
  MaxIndex,   (* bound: indices and ends of ranges                         *)
  MaxValues,  (* bound: the values of a grouped or an inline form          *)
  Modes,      (* the array modes that are considered                       *)
  Kinds,      (* the kinds of elements that are considered                 *)
  Careless    (* what programs do that the compiler does not check for     *)

ASSUME ArraysAssumption ==
  /\ Junk \notin Elements
  /\ MaxIndex \in Nat /\ MaxValues \in Nat
  /\ Shapes \subseteq Seq(0 .. MaxIndex) \ {<< >>}
  /\ Modes \subseteq {"PRINT", "SILENT", "CRASH", "UNSAFE"}
  /\ Kinds \subseteq {"small", "large", "cloned"}
  /\ Careless \subseteq {"read while initializing", "access an empty array",
                         "slice backwards", "slice in three dimensions"}

VARIABLES
  oob_mode,   (* chosen when the program is compiled                       *)
  kind,       (* of the elements: copied, of 128 bytes or more, or cloned  *)
  arr,        (* the array of a variable                                   *)
  idx,        (* the scratch array for N numbers, within a statement       *)
  at,         (* "idle", in a statement, or how the program ended          *)
  stmt        (* the statement, and the values it evaluated                *)

vars == <<oob_mode, kind, arr, idx, at, stmt>>

Unused == [n \in {} |-> << >>]
Empty == [lens |-> <<0>>, elems |-> << >>]
NoStatement == [form |-> "none", lens |-> << >>, wanted |-> 0, values |-> << >>]
(* Bound: an index is at most one behind the end of its dimension. *)
IndicesFor(lens) == {is \in [DOMAIN lens -> 0 .. MaxIndex] : \A i \in DOMAIN lens : is[i] <= lens[i]}

----------------------------------------
(* The runtime functions. *)

get_arr_len(lens) ==
  LET product[i \in 0 .. Len(lens)] == IF i = 0 THEN 1 ELSE lens[i] * product[i - 1]
  IN product[Len(lens)]

create_arr(lens) == [lens |-> lens, elems |-> [i \in 1 .. get_arr_len(lens) |-> Junk]]

(* The exponential fill: what is filled is copied behind itself, until the
   rest is shorter. *)
RECURSIVE Doubled(_, _)
Doubled(elems, filled) ==
  LET remaining == Len(elems) - filled
      copied == IF filled <= remaining THEN filled ELSE remaining
  IN IF filled >= Len(elems) THEN elems
     ELSE Doubled([i \in DOMAIN elems |->
                     IF i \in filled + 1 .. filled + copied THEN elems[i - filled]
                     ELSE elems[i]],
                  filled + copied)

(* An element of 128 bytes or more is only copied to the first place. *)
fill_arr(a, value) ==
  IF a.elems = << >> THEN a
  ELSE CASE kind = "cloned" -> [a EXCEPT !.elems = [i \in DOMAIN @ |-> value]]
         [] kind = "large"  -> [a EXCEPT !.elems[1] = value]
         [] kind = "small"  -> [a EXCEPT !.elems = Doubled([@ EXCEPT ![1] = value], 1)]

(* The dimensions whose index is too large. *)
OutOfBounds(lens, is) == {i \in DOMAIN lens : is[i] >= lens[i]}

Stride(lens, i) == get_arr_len(SubSeq(lens, 1, i - 1))

Offset(lens, is) ==
  LET offset[i \in 0 .. Len(lens)] ==
        IF i = 0 THEN 0 ELSE offset[i - 1] + is[i] * Stride(lens, i)
  IN offset[Len(lens)]

(* A mistake: an index that is too large becomes the first. *)
InRangeOrFirst(lens, is) == [i \in DOMAIN is |-> IF is[i] >= lens[i] THEN 0 ELSE is[i]]

(* Clamped to the end; an array without elements has no last one. *)
InRange(lens, is) == [i \in DOMAIN is |-> IF is[i] >= lens[i] THEN lens[i] - 1 ELSE is[i]]

(* What access_arr leaves in the scratch array. *)
Accessed(lens, is) == IF oob_mode = "UNSAFE" THEN is ELSE InRange(lens, is)

(* How it returns.  The address is used at once, wherever it is. *)
access_arr(lens, is) ==
  CASE oob_mode = "CRASH" /\ OutOfBounds(lens, is) # {} -> "aborted"
    [] Offset(lens, Accessed(lens, is)) \notin 0 .. get_arr_len(lens) - 1 -> "undefined"
    [] OTHER -> "returned"

----------------------------------------
(* Slices.  An index is a range with an end of its own kind, and so is a
   range that is open at its end: the two largest numbers of 64 bits. *)

Single == -1
UntilEnd == -2
RangesOf(n) == [1 .. n -> [from : 0 .. MaxIndex, to : {Single, UntilEnd} \cup 0 .. MaxIndex]]
AllRanges == {r \in UNION {RangesOf(Len(s)) : s \in Shapes} : \E i \in DOMAIN r : r[i].to # Single}
ASSUME RangesAssumption == Ranges \subseteq AllRanges

(* Checked whatever the mode is. *)
SliceAborts(lens, r) ==
  \E i \in DOMAIN lens :
    IF r[i].to = Single THEN r[i].from >= lens[i] ELSE r[i].to > lens[i]

(* The ends of open ranges are stored. *)
Closed(lens, r) ==
  [i \in DOMAIN r |-> IF r[i].to = UntilEnd THEN [r[i] EXCEPT !.to = lens[i]] ELSE r[i]]

(* The end of a slice in one dimension is not too large any more. *)
SliceFrom(r) == IF r.from > r.to /\ oob_mode # "UNSAFE" THEN r.to - 1 ELSE r.from

(* A mistake: the last element is left out. *)
SliceWithoutEnd(a, r) ==
  IF r.from = r.to THEN create_arr(<<0>>)
  ELSE [lens |-> <<r.to - SliceFrom(r)>>, elems |-> SubSeq(a.elems, SliceFrom(r) + 1, r.to - 1)]

get_arr_slice_1d(a, r) ==
  IF r.from = r.to THEN create_arr(<<0>>)
  ELSE [lens |-> <<r.to - SliceFrom(r)>>, elems |-> SubSeq(a.elems, SliceFrom(r) + 1, r.to)]

Ranged(r) == SelectSeq([i \in DOMAIN r |-> i], LAMBDA i : r[i].to # Single)
Width(r, i) == r[i].to - r[i].from

(* The indices that chunk number c begins at.  Of the dimensions that are
   counted, all ranges but one in the first dimension, the last varies
   fastest. *)
CurrentIndices(r, c) ==
  LET counted == SelectSeq(Ranged(r), LAMBDA i : i > 1 \/ r[1].to = Single)
      Later(i) == SelectSeq(counted, LAMBDA j : j > i)
      period(i) == get_arr_len([k \in DOMAIN Later(i) |-> Width(r, Later(i)[k])])
  IN [i \in DOMAIN r |->
        IF i \in ToSet(counted) /\ (i > 1 \/ r[1].to = Single)
        THEN r[i].from + ((c \div period(i)) % Width(r, i))
        ELSE r[i].from]

(* A mistake: what lies in a row is taken for the slice. *)
CopiedInARow(a, r) ==
  LET lens == [k \in DOMAIN Ranged(r) |-> Width(r, Ranged(r)[k])]
      from == Offset(a.lens, [i \in DOMAIN r |-> r[i].from])
  IN [lens |-> lens, elems |-> SubSeq(a.elems, from + 1, from + get_arr_len(lens))]

(* In more dimensions: a chunk is what lies in a row, a range of the first
   dimension or an element. *)
CopiedByChunks(a, r) ==
  LET lens == [k \in DOMAIN Ranged(r) |-> Width(r, Ranged(r)[k])]
      chunk == IF r[1].to = Single THEN 1 ELSE Width(r, 1)
      from(c) == Offset(a.lens, CurrentIndices(r, c))
  IN [lens |-> lens,
      elems |-> [n \in 1 .. get_arr_len(lens) |->
                   a.elems[from((n - 1) \div chunk) + ((n - 1) % chunk) + 1]]]

get_arr_slice(a, r) ==
  IF Len(a.lens) = 1 THEN get_arr_slice_1d(a, r[1]) ELSE CopiedByChunks(a, r)

(* How it returns.  In one dimension a range that runs backwards is cut to
   one element, unless it ends at 0; in more, its width is not checked. *)
SliceReturns(a, r) ==
  LET backwards == \E i \in DOMAIN r : r[i].to >= 0 /\ r[i].from > r[i].to
  IN CASE SliceAborts(a.lens, r) -> "aborted"
       [] ~backwards -> "returned"
       [] Len(a.lens) > 1 \/ oob_mode = "UNSAFE" -> "undefined"
       [] oob_mode = "CRASH" \/ r[1].to = 0 -> "aborted"
       [] OTHER -> "returned"

----------------------------------------
(* Statements begin with their values, or with the lengths of an array. *)

Init ==
  /\ oob_mode \in Modes /\ kind \in Kinds
  /\ arr = [x \in Vars |-> Empty]
  /\ idx = Unused
  /\ at = "idle" /\ stmt = NoStatement

Stored(n, numbers) == [m \in DOMAIN idx \cup {n} |-> IF m = n THEN numbers ELSE idx[m]]

BeginInitializer(form, lens) ==
  LET wanted == IF form = "fill" THEN 1 ELSE get_arr_len(lens)
  IN /\ at = "idle" /\ wanted <= MaxValues
     /\ at' = "expression"
     /\ stmt' = [form |-> form, lens |-> lens, wanted |-> wanted, values |-> << >>]
     /\ idx' = Stored(Len(lens), lens)
     /\ UNCHANGED <<oob_mode, kind, arr>>

BeginAssignment(wanted) ==
  /\ at = "idle"
  /\ at' = "expression"
  /\ stmt' = [form |-> "assign", lens |-> << >>, wanted |-> wanted, values |-> << >>]
  /\ UNCHANGED <<oob_mode, kind, arr, idx>>

Evaluating == at = "expression" /\ Len(stmt.values) < stmt.wanted
Evaluated == at = "expression" /\ Len(stmt.values) = stmt.wanted

EvaluateLiteral(value) ==
  /\ Evaluating
  /\ stmt' = [stmt EXCEPT !.values = Append(@, value)]
  /\ UNCHANGED <<oob_mode, kind, arr, idx, at>>

(* What the compiler does not check. *)
MayAccess(lens, is) ==
  /\ get_arr_len(lens) > 0 \/ "access an empty array" \in Careless
  /\ stmt.form = "assign" \/ Len(is) # Len(stmt.lens) \/ "read while initializing" \in Careless

(* An element that is read, or the next of a grouped access. *)
generate_array_access(x, is) ==
  /\ Evaluating /\ MayAccess(arr[x].lens, is)
  /\ LET end == access_arr(arr[x].lens, is)
         place == Offset(arr[x].lens, Accessed(arr[x].lens, is)) + 1
     IN IF end = "returned"
        THEN /\ stmt' = [stmt EXCEPT !.values = Append(@, arr[x].elems[place])]
             /\ UNCHANGED at
        ELSE at' = end /\ UNCHANGED stmt
  /\ idx' = Stored(Len(is), Accessed(arr[x].lens, is))
  /\ UNCHANGED <<oob_mode, kind, arr>>

(* Every use begins with a store: what a statement leaves is not read. *)
Done == at' = "idle" /\ stmt' = NoStatement /\ idx' = Unused

(* The lengths are those of the scratch array when the values are known. *)
generate_array_initializer(x) ==
  /\ Evaluated /\ stmt.form = "fill"
  /\ arr' = [arr EXCEPT ![x] = fill_arr(create_arr(idx[Len(stmt.lens)]), stmt.values[1])]
  /\ Done /\ UNCHANGED <<oob_mode, kind>>

(* A place for each value is not checked for. *)
generate_inline_array_initializer(x) ==
  /\ Evaluated /\ stmt.form = "inline"
  /\ LET made == create_arr(idx[Len(stmt.lens)])
     IN IF stmt.wanted > Len(made.elems)
        THEN at' = "undefined" /\ UNCHANGED <<arr, idx, stmt>>
        ELSE /\ arr' = [arr EXCEPT ![x] =
                   [made EXCEPT !.elems = [i \in DOMAIN @ |->
                      IF i <= stmt.wanted THEN stmt.values[i] ELSE @[i]]]]
             /\ Done
  /\ UNCHANGED <<oob_mode, kind>>

(* The indices are evaluated and stored behind the values.  A grouped
   assignment stores one after the other. *)
generate_array_assignment(x, is) ==
  /\ Evaluated /\ stmt.form = "assign" /\ stmt.values # << >>
  /\ MayAccess(arr[x].lens, is)
  /\ LET end == access_arr(arr[x].lens, is)
         place == Offset(arr[x].lens, Accessed(arr[x].lens, is)) + 1
     IN IF end # "returned" THEN at' = end /\ UNCHANGED <<arr, idx, stmt>>
        ELSE /\ arr' = [arr EXCEPT ![x].elems[place] = Head(stmt.values)]
             /\ IF stmt.wanted = 1 THEN Done
                ELSE /\ stmt' = [stmt EXCEPT !.values = Tail(@), !.wanted = @ - 1]
                     /\ idx' = Stored(Len(is), Accessed(arr[x].lens, is))
                     /\ UNCHANGED at
  /\ UNCHANGED <<oob_mode, kind>>

MaySlice(r) ==
  /\ (\E i \in DOMAIN r : r[i].to >= 0 /\ r[i].from > r[i].to) /\ Len(r) > 1
       => "slice backwards" \in Careless
  /\ Cardinality({i \in DOMAIN r \ {1} : r[i].to # Single}) > 1
       => "slice in three dimensions" \in Careless

(* A slice that is stored in a variable; the ranges are stored and closed
   in the scratch array, with nothing in between. *)
StoreSlice(x, y, r) ==
  /\ at = "idle" /\ Len(r) = Len(arr[y].lens) /\ MaySlice(Closed(arr[y].lens, r))
  /\ LET end == SliceReturns(arr[y], Closed(arr[y].lens, r))
     IN IF end # "returned" THEN at' = end /\ UNCHANGED arr
        ELSE /\ arr' = [arr EXCEPT ![x] = get_arr_slice(arr[y], Closed(arr[y].lens, r))]
             /\ UNCHANGED at
  /\ UNCHANGED <<oob_mode, kind, idx, stmt>>

Next ==
  \/ \E form \in {"fill", "inline"}, lens \in Shapes : BeginInitializer(form, lens)
  \/ \E wanted \in 1 .. MaxValues : BeginAssignment(wanted)
  \/ \E value \in Elements : EvaluateLiteral(value)
  \/ \E x \in Vars : \E is \in IndicesFor(arr[x].lens) : generate_array_access(x, is)
  \/ \E x \in Vars : generate_array_initializer(x)
  \/ \E x \in Vars : generate_inline_array_initializer(x)
  \/ \E x \in Vars : \E is \in IndicesFor(arr[x].lens) : generate_array_assignment(x, is)
  \/ \E x, y \in Vars, r \in Ranges : StoreSlice(x, y, r)

Spec == Init /\ [][Next]_vars

----------------------------------------
(* What programs rely on. *)

(* Every variable has its type: an array has as many elements as its
   lengths say. *)
TypeOK ==
  /\ oob_mode \in Modes /\ kind \in Kinds
  /\ \A x \in Vars :
       /\ arr[x].lens \in Seq(Nat) \ {<< >>}
       /\ arr[x].elems \in Seq(Elements \cup {Junk})
       /\ Len(arr[x].elems) = get_arr_len(arr[x].lens)
  /\ at \in {"idle", "expression", "aborted", "undefined"}
  /\ stmt.wanted \in 0 .. MaxValues /\ Len(stmt.values) <= stmt.wanted

(* Unless indices are not checked, no call reaches behind an array, and
   what an array was not given is never one of its elements: every element
   was filled, stored or copied. *)
NoUndefinedElements ==
  oob_mode # "UNSAFE" =>
    /\ at # "undefined"
    /\ \A x \in Vars : Junk \notin ToSet(arr[x].elems)

(* An array as a table: a value for each index that is in bounds. *)
IndicesOf(lens) == {is \in IndicesFor(lens) : OutOfBounds(lens, is) = {}}
RECURSIVE Place(_, _)
Place(lens, is) ==
  IF lens = << >> THEN 0 ELSE is[1] + lens[1] * Place(Tail(lens), Tail(is))
Table(a) == [is \in IndicesOf(a.lens) |-> a.elems[Place(a.lens, is) + 1]]
Nearest(lens, is) == [i \in DOMAIN is |-> IF is[i] < lens[i] THEN is[i] ELSE lens[i] - 1]

(* Arrays are tables, of the lengths they were declared with: reading
   yields the element at the index that was asked for or the nearest one,
   storing changes that element of that array and nothing else, and what
   an expression did on the way does not change which; and no element that
   was never written is read or copied into a variable. *)
ArraysAreTables ==
  /\ [](TypeOK /\ NoUndefinedElements)
  /\ [][at = "expression" =>
         /\ Len(stmt'.values) > Len(stmt.values) =>
              \A x \in Vars : \A is \in IndicesFor(arr[x].lens) :
                generate_array_access(x, is) =>
                  Last(stmt'.values) = Table(arr[x])[Nearest(arr[x].lens, is)]
         /\ stmt.form = "assign" /\ arr' # arr =>
              \A x \in Vars : \A is \in IndicesFor(arr[x].lens) :
                generate_array_assignment(x, is) =>
                  Table(arr'[x]) =
                    [Table(arr[x]) EXCEPT ![Nearest(arr[x].lens, is)] = Head(stmt.values)]
         /\ \A x \in Vars : generate_array_initializer(x) =>
              Table(arr'[x]) = [is \in IndicesOf(stmt.lens) |-> stmt.values[1]]
         /\ \A x \in Vars : generate_inline_array_initializer(x) /\ at' = "idle" =>
              arr'[x] = [lens |-> stmt.lens, elems |-> stmt.values]
    ]_vars

(* The indices of the source that an element of a slice comes from. *)
Origin(r, is) ==
  [i \in DOMAIN r |->
     IF r[i].to = Single THEN r[i].from
     ELSE r[i].from + is[Cardinality({j \in 1 .. i : r[j].to # Single})]]

(* A slice has a dimension for each range, as long as the range, and its
   elements are at the places they had in the source. *)
SlicesKeepPositions ==
  [][at = "idle" /\ at' = "idle" => \A x, y \in Vars, r \in Ranges : Len(r) = Len(arr[y].lens) =>
       LET closed == Closed(arr[y].lens, r)
           forwards == \A i \in DOMAIN r : closed[i].to # Single => closed[i].from <= closed[i].to
       IN StoreSlice(x, y, r) /\ forwards =>
            /\ Len(arr'[x].lens) = Cardinality({i \in DOMAIN r : r[i].to # Single})
            /\ \A i \in DOMAIN r : r[i].to # Single =>
                 closed[i].to - closed[i].from =
                   arr'[x].lens[Cardinality({j \in 1 .. i : r[j].to # Single})]
            /\ \A is \in IndicesOf(arr'[x].lens) :
                 Table(arr'[x])[is] = Table(arr[y])[Origin(closed, is)]]_vars
=============================================================================
