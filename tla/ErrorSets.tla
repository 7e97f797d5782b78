------------------------------ MODULE ErrorSets ------------------------------
(***************************************************************************)
(* Error sets, and an error on its way from its throw to the branch that   *)
(* handles it: the definitions of src/src/parser/error_node.cpp, what the  *)
(* parser accepts (create_error, create_throw, create_catch and the        *)
(* branches of a switch in parser_statement.cpp), and the code that is     *)
(* generated for literals, casts, switches, unwraps and for the functions  *)
(* that turn an error into a string (generator_error.cpp).                 *)
(*                                                                         *)
(* An error is the id of its set, the number of its value and a message;   *)
(* the values of a set are numbered after those of its parent.  The id is  *)
(* a hash of the set's file and name, which is taken to be its name.  Who  *)
(* owns the message and which frame holds the error is in Calls.           *)
(***************************************************************************)
EXTENDS Integers, Sequences, FiniteSets

CONSTANTS
  Families,       \* programs, by their error sets: name -> definition
  Bodies,         \* the lines of a function, by the anonymous errors on them
  MaxThrows,      \* a bound on the throws
  ErrorsCareless  \* what programs do although it is known to go wrong: "redefined",
                  \* "two on a line", "misplaced else"

AnyError == "anyerror"
Anonymous == "error.1"   \* the set of the function's own errors
Else == "else"
Merge == "no branch"     \* where a switch goes without one
Unknown == "unknown"     \* no name: the program ends
NoMessage == ""
NoPair == <<>>

(* The error sets of a program that can be compiled: a parent is one of
   them, which get_parent_node asserts, and no set is its own ancestor,
   which get_value_count would not return from; names are identifiers. *)
IsFamily(family) ==
  /\ IsFiniteSet(DOMAIN family) /\ {AnyError, Else, Merge} \cap DOMAIN family = {}
  /\ \A s \in DOMAIN family :
       /\ family[s].parent \in DOMAIN family \union {AnyError}
       /\ family[s].values \in Seq(STRING \ {Else})
       /\ DOMAIN family[s].messages = DOMAIN family[s].values
  /\ \E rank \in [DOMAIN family -> 1..Cardinality(DOMAIN family)] :
       \A s \in DOMAIN family : family[s].parent # AnyError => rank[family[s].parent] < rank[s]

ASSUME ErrorsAssumption ==
  /\ MaxThrows \in Nat
  /\ \A family \in Families : IsFamily(family) /\ Anonymous \notin DOMAIN family
  /\ \A lines \in Bodies : lines \in Seq(Seq(STRING \ {Else}))

VARIABLES
  sets,    \* the error sets: the parent, the values, their default messages
  progress,   \* "running", "raised", "caught", "printed", "aborted", "not generated"
  err,     \* the error that was thrown last
  static,  \* the type of the variable that holds it: a set, or a set of sets
  ran,     \* the branches of the last switch and the one that ran
  printed,
  throws,
  named,   \* what the program called the error: not in the code
  body     \* the function that throws anonymous errors, by its lines

errors == <<sets, progress, err, static, ran, printed, throws, named, body>>

NoError == [type_id |-> "0", value_id |-> 0, message |-> NoMessage]
NoName == [set |-> "none", value |-> "none", message |-> NoMessage]
Unheld == [is |-> "nothing"]
OfSet(s) == [is |-> "set", set |-> s]
OfVariant(ss) == [is |-> "variant", sets |-> ss]
OfAnyError == [is |-> AnyError]
NotSwitched == [on |-> "nothing"]

----------------------------------------
(* ErrorNode. *)

HasParent(s) == sets[s].parent # AnyError

value_count ==
  LET Count[s \in DOMAIN sets] ==
        Len(sets[s].values) + IF HasParent(s) THEN Count[sets[s].parent] ELSE 0
  IN  Count
get_value_count(s) == value_count[s]

AncestorsIn(family) ==
  LET Above[s \in DOMAIN family] ==
        IF family[s].parent = AnyError THEN {}
        ELSE {family[s].parent} \union Above[family[s].parent]
  IN  Above
Ancestors == AncestorsIn(sets)
is_parent_of(s, other) == s \in Ancestors[other]

First(values, v) == CHOOSE i \in DOMAIN values : values[i] = v /\ \A j \in 1..(i - 1) : values[j] # v

(* A mistake: the values of the parent are not counted. *)
OwnNumber(s, i) == i - 1
NumberOf(s, i) == get_value_count(s) - Len(sets[s].values) + i - 1

get_id_msg_pair_of_value(s, v) ==
  LET Pair[t \in DOMAIN sets] ==
        LET own == sets[t].values
        IN  IF \E i \in DOMAIN own : own[i] = v
              THEN <<NumberOf(t, First(own, v)), sets[t].messages[First(own, v)]>>
              ELSE IF HasParent(t) THEN Pair[sets[t].parent] ELSE NoPair
  IN  Pair[s]

ValueNames(s) ==
  UNION {{sets[t].values[i] : i \in DOMAIN sets[t].values} : t \in {s} \union Ancestors[s]}

(* create_error asks for nothing but a name that is not taken yet. *)
create_error(parent, values, messages) == [parent |-> parent, values |-> values, messages |-> messages]

Redefines(family) ==
  \E s \in DOMAIN family : family[s].parent # AnyError /\
    \E i \in DOMAIN family[s].values :
      \E t \in AncestorsIn(family)[s] : \E j \in DOMAIN family[t].values : family[t].values[j] = family[s].values[i]

(* The set of a function's anonymous errors: the first one on every line,
   each once. *)
AnonymousValues(lines) ==
  LET Seen[n \in 0..Len(lines)] ==
        IF n = 0 THEN <<>>
        ELSE IF lines[n] = <<>> \/ \E i \in DOMAIN Seen[n - 1] : Seen[n - 1][i] = Head(lines[n])
          THEN Seen[n - 1]
          ELSE Append(Seen[n - 1], Head(lines[n]))
  IN  Seen[Len(lines)]

AnonymousSet(lines) ==
  LET values == AnonymousValues(lines)
  IN  IF values = <<>> THEN <<>>
      ELSE [s \in {Anonymous} |-> create_error(AnyError, values, [i \in DOMAIN values |-> NoMessage])]

Merged(f, g) == [s \in DOMAIN f \union DOMAIN g |-> IF s \in DOMAIN f THEN f[s] ELSE g[s]]

----------------------------------------
(* Throwing. *)

WrittenIn(lines) == UNION {{lines[n][i] : i \in DOMAIN lines[n]} : n \in DOMAIN lines}

ErrorsInit ==
  /\ \E family \in Families, lines \in Bodies :
       /\ "redefined" \in ErrorsCareless \/ ~Redefines(family)
       /\ "two on a line" \in ErrorsCareless \/ \A n \in DOMAIN lines : Len(lines[n]) <= 1
       /\ sets = Merged(family, AnonymousSet(lines))
       /\ body = lines
  /\ progress = "running"
  /\ err = NoError /\ named = NoName
  /\ static = Unheld /\ ran = NotSwitched
  /\ printed = NoName
  /\ throws = 0

(* The message a reader of the program expects: that of the throw, or the
   one the value was defined with first. *)
MessageOf(s, v) ==
  LET definer == CHOOSE t \in {s} \union Ancestors[s] : \E i \in DOMAIN sets[t].values : sets[t].values[i] = v
  IN  sets[definer].messages[First(sets[definer].values, v)]

Raise ==
  /\ progress \in {"running", "caught"} /\ throws < MaxThrows
  /\ progress' = "raised"
  /\ throws' = throws + 1
  /\ static' = Unheld /\ ran' = NotSwitched
  /\ UNCHANGED <<sets, body, printed>>

Given(message, default) == IF message = NoMessage THEN default ELSE message

(* create_throw and the literal: the sets a function declares are not
   looked at. *)
ThrowLiteral(s, v, message) ==
  /\ Raise
  /\ LET pair == get_id_msg_pair_of_value(s, v)
     IN  /\ pair # NoPair
         /\ err' = [type_id |-> s, value_id |-> pair[1], message |-> Given(message, pair[2])]
  /\ named' = [set |-> s, value |-> v, message |-> Given(message, MessageOf(s, v))]

(* Whether the set of the function has an anonymous error is found out
   when it is generated. *)
ThrowAnonymous(v, message) ==
  /\ Anonymous \in DOMAIN sets
  /\ IF get_id_msg_pair_of_value(Anonymous, v) # NoPair THEN ThrowLiteral(Anonymous, v, message)
     ELSE progress = "running" /\ progress' = "not generated"
            /\ UNCHANGED <<sets, body, err, static, ran, printed, throws, named>>

(* An error that was caught is thrown on: only its message is cloned. *)
ThrowVariable == Raise /\ progress = "caught" /\ UNCHANGED <<err, named>>

----------------------------------------
(* Catching.  Besides its sets every function has anyerror. *)

create_catch(declared) ==
  /\ progress = "raised"
  /\ progress' = "caught"
  /\ static' = IF declared = {} THEN OfAnyError ELSE OfVariant(declared)
  /\ UNCHANGED <<sets, body, err, ran, printed, throws, named>>

Labels(branches) == {branches[i] : i \in DOMAIN branches}

(* create_variant_switch_branches: no type twice and one else at the most,
   which counts as a branch for one type. *)
AcceptsBranches(branches, declared) ==
  /\ Labels(branches) \subseteq declared \union {AnyError, Else}
  /\ Cardinality(Labels(branches)) = Len(branches)
  /\ Len(branches) = Cardinality(declared) + 1

BranchLists(declared) ==
  LET n == Cardinality(declared) + 1
  IN  {b \in [1..n -> declared \union {AnyError, Else}] : AcceptsBranches(b, declared)}

ElseInFront(branches) == \E i \in 1..(Len(branches) - 1) : branches[i] = Else
IsMisplaced(branches) == Else \in Labels(branches) /\ (ElseInFront(branches) \/ AnyError \in Labels(branches))

(* A mistake: a branch stands for the descendants of its set, too. *)
MatchesDescendants(label) == label \in DOMAIN sets /\ (err.type_id = label \/ is_parent_of(label, err.type_id))
Matches(label) == err.type_id = label

(* generate_variant_switch_statement ends at an else, and then looks for
   the blocks of the branches behind it. *)
BranchesTaken(branches) ==
  LET matching == {l \in Labels(branches) \ {AnyError, Else} : Matches(l)}
      defaults == Labels(branches) \intersect {AnyError, Else}
  IN  IF ElseInFront(branches) THEN Labels(branches) \union {Merge}
      ELSE IF matching # {} THEN matching
      ELSE IF defaults # {} THEN defaults ELSE {Merge}

SwitchOnSet(branches) ==
  /\ progress = "caught" /\ static.is = "variant"
  /\ AcceptsBranches(branches, static.sets)
  /\ "misplaced else" \in ErrorsCareless \/ ~IsMisplaced(branches)
  /\ IF ~ElseInFront(branches) /\ {AnyError, Else} \subseteq Labels(branches)
       THEN progress' = "not generated" /\ UNCHANGED <<static, ran>>
       ELSE \E label \in BranchesTaken(branches) :
              /\ static' = IF label = AnyError THEN OfAnyError
                           ELSE IF label \in static.sets THEN OfSet(label) ELSE static
              /\ ran' = [on |-> "sets", branches |-> Labels(branches), taken |-> label]
              /\ UNCHANGED progress
  /\ UNCHANGED <<sets, body, err, printed, throws, named>>

(* generate_variant_unwrap: another set ends the program. *)
generate_variant_unwrap(s) ==
  /\ progress = "caught" /\ static.is = "variant" /\ s \in static.sets
  /\ IF Matches(s) THEN static' = OfSet(s) /\ UNCHANGED progress
                   ELSE progress' = "aborted" /\ UNCHANGED static
  /\ ran' = NotSwitched
  /\ UNCHANGED <<sets, body, err, printed, throws, named>>

(* An error becomes one of a set that extends its own: the number of its
   value stays, and so does its name, as the new set has it, too. *)
generate_type_cast(to) ==
  /\ progress = "caught" /\ static.is = "set"
  /\ is_parent_of(static.set, to)
  /\ err' = [err EXCEPT !.type_id = to]
  /\ named' = [named EXCEPT !.set = to]
  /\ static' = OfSet(to)
  /\ ran' = NotSwitched
  /\ UNCHANGED <<sets, body, progress, printed, throws>>

(* create_error_switch_branches: the values of a set, some to a branch, no
   value twice, and an else exactly when values are left. *)
AcceptsValues(s, branches) ==
  LET values == UNION (branches \ {{Else}})
  IN  ({Else} \in branches) = (Cardinality(values) # get_value_count(s))

ValueBranches(s) ==
  LET Single(values) == {{v} : v \in values}
  IN  {bs \union e : bs \in UNION {{Single(values), {values} \ {{}}} : values \in SUBSET ValueNames(s)},
                     e \in {{}, {{Else}}}}

(* generate_switch_statement and the switch expression look at the value
   only. *)
ValuesTaken(s, branches) ==
  LET matching == {b \in branches \ {{Else}} :
                     \E v \in b : get_id_msg_pair_of_value(s, v)[1] = err.value_id}
  IN  IF matching # {} THEN matching
      ELSE IF {Else} \in branches THEN {{Else}} ELSE {{Merge}}

SwitchOnValue(branches) ==
  /\ progress = "caught" /\ static.is = "set"
  /\ AcceptsValues(static.set, branches)
  /\ \E b \in ValuesTaken(static.set, branches) :
       ran' = [on |-> "values", branches |-> branches, taken |-> b]
  /\ UNCHANGED <<sets, body, progress, err, static, printed, throws, named>>

----------------------------------------
(* Printing. *)

get_err_type_str(id) == IF id \in DOMAIN sets THEN id ELSE Unknown

(* A mistake: the first value of a set is taken for its parent's. *)
InParentInclusive(s, n) == HasParent(s) /\ n <= get_value_count(sets[s].parent)
InParent(s, n) == HasParent(s) /\ n < get_value_count(sets[s].parent)

get_err_val_str(id, n) ==
  LET Name[s \in DOMAIN sets] ==
        IF InParent(s, n) THEN Name[sets[s].parent]
        ELSE LET own == n - IF HasParent(s) THEN get_value_count(sets[s].parent) ELSE 0
             IN  IF own + 1 \in DOMAIN sets[s].values THEN sets[s].values[own + 1] ELSE Unknown
  IN  IF id \in DOMAIN sets THEN Name[id] ELSE Unknown

get_err_str(e) ==
  [set |-> get_err_type_str(e.type_id), value |-> get_err_val_str(e.type_id, e.value_id),
   message |-> e.message]

(* A program prints what it caught, or main what nobody did. *)
Report ==
  /\ progress \in {"raised", "caught"}
  /\ printed' = get_err_str(err)
  /\ progress' = "printed"
  /\ ran' = NotSwitched
  /\ UNCHANGED <<sets, body, err, static, throws, named>>

ErrorsNext ==
  \/ \E s \in DOMAIN sets : \E v \in ValueNames(s), message \in {NoMessage, "given"} :
       s # Anonymous /\ ThrowLiteral(s, v, message)
  \/ \E v \in WrittenIn(body), message \in {NoMessage, "given"} : ThrowAnonymous(v, message)
  \/ ThrowVariable
  \/ \E declared \in SUBSET (DOMAIN sets \ {Anonymous}) : create_catch(declared)
  \/ /\ static.is = "variant"
     /\ \E branches \in BranchLists(static.sets) : SwitchOnSet(branches)
  \/ /\ static.is = "variant"
     /\ \E s \in static.sets : generate_variant_unwrap(s)
  \/ \E s \in DOMAIN sets : generate_type_cast(s)
  \/ /\ static.is = "set"
     /\ \E branches \in ValueBranches(static.set) : SwitchOnValue(branches)
  \/ Report

ErrorsSpec == ErrorsInit /\ [][ErrorsNext]_errors

----------------------------------------
(* The branch that runs is that of the set, or the value, that was named,
   and the one for all others only when no branch names it. *)
RightBranchRuns ==
  /\ ran.on = "sets" =>
       /\ ran.taken \in ran.branches
       /\ named.set \in ran.branches => ran.taken = named.set
       /\ named.set \notin ran.branches => ran.taken \in {AnyError, Else}
  /\ ran.on = "values" =>
       IF \E b \in ran.branches : named.value \in b THEN named.value \in ran.taken
       ELSE ran.taken = {Else}

(* An error keeps the name it was given where it was thrown: through casts
   to sets that extend its own, when it is thrown on and caught again, the
   branch that names it runs, a variable of a set holds an error of that
   set, and what is printed in the end is the set, the value and the
   message that the program named.  Every program that is parsed is
   generated. *)
ErrorsKeepTheirName ==
  /\ progress # "not generated"
  /\ static.is = "set" => err.type_id = static.set
  /\ RightBranchRuns
  /\ progress = "printed" => printed = named
=============================================================================
