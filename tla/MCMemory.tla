------------------------------ MODULE MCMemory ------------------------------
(* The models of how generated code keeps memory straight share nothing
   but the rules they are about, and are checked in one run: the
   statements that assign, or the body of one function with all its ways
   out, or functions that call each other, or a value and its clone. *)
EXTENDS Assignment, Control, Calls, Ownership

CONSTANTS list1, list2, array1, array2

(* Up to the names of the variables: a list, an array, two lists, both. *)
ListsAndArrays == {<<list1>>, <<array1>>, <<list1, list2>>, <<list1, array1>>}

----------------------------------------
(* Function bodies of three levels, with a statement of every kind at the
   ends of the inner bodies. *)

CONSTANTS
  Renamed,      \* whether an outer body may declare a name of an inner one again
  CarelessBody  \* what programs may contain although it is known to go wrong

S(kind, name, body) == [kind |-> kind, var |-> name, body |-> body]
Simple(kind, name) == S(kind, name, <<>>)
Nothing(kind) == Simple(kind, NoVariable)

Ends(inside, name) ==
  {Simple("use", name), Simple("assign", "a"), Simple("return", name), Nothing("return"), Nothing("throw")}
    \union (IF inside \intersect Breakable = {} THEN {} ELSE {Nothing("break")})
    \union (IF inside \intersect Loops = {} THEN {} ELSE {Nothing("continue")})

(* The variables the scoped statements declare, or read. *)
Heads(level) ==
  {<<k, NoVariable>> : k \in {"if", "switch", "while", "do_while", "for"}}
    \union {<<"catch", <<"x", "y">>[level]>>, <<"enh_for", "a">>}
    \union (IF "definition" \in CarelessBody THEN {<<"for", <<"i", "j">>[level]>>} ELSE {})
    \union (IF "iterable" \in CarelessBody THEN {<<"enh_for", NoVariable>>} ELSE {})

Innermost(inside) == {<<Simple("declare", "d"), end>> : end \in Ends(inside, "d")}

Middle(inside) ==
  UNION {{<<Simple("declare", "b"), S(h[1], h[2], body)>> \o after \o <<end>> :
            body \in Innermost(inside \union {h[1]}),
            after \in {<<>>, <<Simple("declare", "c")>>},
            end \in Ends(inside, "b")} : h \in Heads(2)}

Bodies ==
  UNION {{<<Simple("declare", "a")>> \o before \o <<S(h[1], h[2], body)>> \o after \o <<end>> :
            body \in Middle({h[1]}),
            before \in {<<>>} \union IF h[1] \in {"if", "catch"} THEN {<<S("if", NoVariable, <<Simple("use", "a")>>)>>} ELSE {},
            after \in {<<Simple("declare", "e")>>}
                        \union IF Renamed THEN {<<Simple("declare", "b")>>} ELSE {},
            end \in {Simple("use", "a"), Simple("return", "a")}} : h \in Heads(1)}

IsCareful(body) == Carelessness(body) \subseteq CarelessBody

----------------------------------------
(* Arguments of calls, up to the order of the parameters: values that are
   passed along, swapped, passed for good and made for the call. *)

Arguments(first, second, changed) ==
  [args |-> [p \in Params |-> IF p = "first" THEN first ELSE second],
   mutable |-> [p \in Params |-> p \in changed]]

Lists ==
  {Arguments("local", "temporary", {"first"}),
   Arguments("local", "local", {}),
   Arguments("temporary", "temporary", {}),
   Arguments("local", "first", {"first", "second"}),
   Arguments("second", "first", {"first"}),
   Arguments("first", "temporary", {"first"}),
   Arguments("temporary", "local", {"second"}),
   Arguments("local", "local", {"first"}),
   Arguments("temporary", "temporary", {"first"})}

----------------------------------------
(* Types of every kind, and of the kinds inside each other. *)

CONSTANT OwnershipCareless   \* types that are known to go wrong

Unnamed(kind, of) == [kind |-> kind, of |-> of, name |-> <<kind, of>>]
Defined(kind, of, name) == [kind |-> kind, of |-> of, name |-> <<name>>]

MemoryTypes ==
  "i32" :> Unnamed("scalar", <<>>) @@ "str" :> Unnamed("str", <<>>) @@ "opaque" :> Unnamed("opaque", <<>>)
  @@ "Error" :> Defined("error_set", <<>>, "Error") @@ "anyError" :> Unnamed("err_variant", <<"Error">>)
  @@ "str[2]" :> Unnamed("static", <<"str">>) @@ "i32[2]" :> Unnamed("static", <<"i32">>)
  @@ "i32[]" :> Unnamed("dynamic", <<"i32">>) @@ "str[]" :> Unnamed("dynamic", <<"str">>)
  @@ "str[][]" :> Unnamed("dynamic", <<"str[]">>) @@ "Pair[]" :> Unnamed("dynamic", <<"Pair">>)
  @@ "str[2][]" :> Unnamed("dynamic", <<"str[2]">>) @@ "Pair[2]" :> Unnamed("static", <<"Pair">>)
  @@ "str?" :> Unnamed("optional", <<"str">>) @@ "Pair[2]?" :> Unnamed("optional", <<"Pair[2]">>)
  @@ "Node?" :> Unnamed("optional", <<"Node">>) @@ "Node" :> Defined("data", <<"str", "Node?">>, "Node")
  @@ "Pair" :> Defined("data", <<"i32", "str">>, "Pair")
  @@ "tuple" :> Unnamed("tuple", <<"i32", "str", "opaque", "Pair">>)
  @@ "Choice" :> Defined("variant", <<"i32", "str", "str[]", "tuple">>, "Choice")
  @@ "Choice?" :> Unnamed("optional", <<"Choice">>)
  @@ "PairChoice" :> Defined("variant", <<"i32", "Pair">>, "PairChoice")
  @@ "Object" :> Defined("object", <<"Pair", "Node">>, "Object")
  @@ "Shape" :> Defined("interface", <<"Object">>, "Shape")
  @@ "Func" :> Defined("func", <<"Pair">>, "Func")
  @@ "Rich" :> Defined("data", <<"str[2]", "str[][]", "Node?", "Error", "Shape", "tuple">>, "Rich")
  @@ "fn" :> Unnamed("fn", <<"i32", "str", "Pair", "str?">>) @@ "fn2" :> Unnamed("fn", <<"str[2]">>)
  @@ (IF "namesakes" \in OwnershipCareless THEN "other.Pair" :> Defined("data", <<"str">>, "Pair") ELSE <<>>)

(* A variant of data values, and a callable whose function has a
   persistent variable of a static array type, go wrong. *)
MemoryHeld ==
  LET Has(t, kind, Part(_)) == KindOf(t) = kind /\ \E n \in DOMAIN Of(t) : Part(Of(t)[n])
      IsStatic(t) == KindOf(t) = "static"
  IN  {t \in DOMAIN MemoryTypes :
         /\ is_freeable(t)
         /\ Has(t, "variant", is_dima_managed) => "variant data" \in OwnershipCareless
         /\ Has(t, "fn", IsStatic) => "static persistent" \in OwnershipCareless}

----------------------------------------
VARIABLE part   \* which of them this behaviour is about

memory == <<vars, control, calls, ownership, part>>

(* What the others look like meanwhile: a program that assigns nothing
   (its initial state is the only one), a function that has returned, a
   thread that has ended and a value that is gone. *)
NoFunction ==
  /\ program = <<>> /\ place = Outside /\ phase = "start" /\ slots = <<>>
  /\ borrows = {} /\ misused = FALSE /\ lost = FALSE /\ returned = NoAlloca

NoThread ==
  /\ frames = [a \in Addresses |-> DefaultFrame]
  /\ activations = <<>> /\ outcome = "ended"
  /\ live = {} /\ leaked = {} /\ raised = "none" /\ misfreed = FALSE /\ steps = 0
  /\ thread_stack = [stack_ptr |-> 0, callable |-> FALSE]

NoValue ==
  /\ held = "i32" /\ meaning = "none" /\ blocks = EmptyMemory
  /\ original = Unset /\ clone = Unset /\ alive = {}

MemoryInit ==
  \/ part = "assignments" /\ Init /\ NoFunction /\ NoThread /\ NoValue
  \/ part = "control" /\ Init /\ ControlInit /\ IsCareful(program) /\ NoThread /\ NoValue
  \/ part = "calls" /\ Init /\ NoFunction /\ CallsInit /\ NoValue
  \/ part = "values" /\ Init /\ NoFunction /\ NoThread /\ OwnershipInit

MemoryNext ==
  /\ \/ part = "assignments" /\ Next /\ UNCHANGED <<control, calls, ownership>>
     \/ part = "control" /\ ControlNext /\ UNCHANGED <<vars, calls, ownership>>
     \/ part = "calls" /\ CallsNext /\ UNCHANGED <<vars, control, ownership>>
     \/ part = "values" /\ OwnershipNext /\ UNCHANGED <<vars, control, calls>>
  /\ UNCHANGED part

MemorySpec == MemoryInit /\ [][MemoryNext]_memory

----------------------------------------
(* A value and its clone are told apart by everything but what they share
   by intent, see ClonesStandAlone. *)
ValuesAreCloned == part = "values" => ClonesStandAlone
=============================================================================
