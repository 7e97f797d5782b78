------------------------------- MODULE Control -------------------------------
(***************************************************************************)
(* What the code that src/src/generator/generator_statement.cpp generates  *)
(* for the body of a function does with the values its variables own.      *)
(*                                                                         *)
(* A program is the body of one function: a sequence of statements, where  *)
(* a scoped statement carries a body of its own.  Each variable owns a     *)
(* value that must be freed (a str or a data value, say) and lives in an   *)
(* alloca of its own.  The module keeps, per alloca, whether its value is  *)
(* alive, and the statement the program has come to; every condition may   *)
(* go either way.  The scopes are those of src/src/parser/scope.cpp: a     *)
(* scope is named by the path of the statement whose body it is, and the   *)
(* definition scope of a for loop by that path with a 0 after it.          *)
(***************************************************************************)
EXTENDS Naturals, Sequences, FiniteSets

CONSTANTS
  Programs,   \* bodies of functions
  Nesting     \* how deep their scoped statements are nested at most

ASSUME ControlAssumption == Nesting \in Nat

Branches == {"if", "switch", "catch"}
Loops == {"while", "do_while", "for", "enh_for"}
Scoped == Branches \union Loops
Breakable == Loops \union {"switch"}
Terminators == {"return", "throw", "break", "continue"}
Kinds == Scoped \union Terminators \union {"declare", "use", "assign"}

NoVariable == "no variable"
Whole == 1000   \* UINT32_MAX, the segment that stands for a whole scope

----------------------------------------
(* The scopes of a program. *)

DropLast(path) == SubSeq(path, 1, Len(path) - 1)
LastOf(path) == path[Len(path)]

IsDefinition(scope) == scope # <<>> /\ LastOf(scope) = 0

(* The statement a scope other than the function's belongs to. *)
Owner(scope) == IF IsDefinition(scope) THEN DropLast(scope) ELSE scope

(* The statements of the body at a path. *)
BodyAt(program, path) ==
  LET Body[n \in 0..Len(path)] ==
        IF n = 0 THEN program ELSE Body[n - 1][path[n]].body
  IN  Body[Len(path)]

StatementAt(program, path) == BodyAt(program, DropLast(path))[LastOf(path)]

Parent(program, scope) ==
  IF ~IsDefinition(scope) /\ StatementAt(program, scope).kind \in {"for", "enh_for"}
    THEN Append(scope, 0)
    ELSE DropLast(Owner(scope))

(* create_body counts the scoped statements of a body: the segment of what
   follows the n-th of them is n. *)
Segment(program, path) ==
  Cardinality({i \in 1..(LastOf(path) - 1) :
                 BodyAt(program, DropLast(path))[i].kind \in Scoped})

ParentSegment(program, scope) == Segment(program, Owner(scope))

(* The variables that are declared in a scope, with their segments.  The
   initializer of a for loop and the error of a catch get the segment of
   the statement in the scope around it. *)
Declared(program, scope) ==
  IF IsDefinition(scope)
    THEN LET loop == StatementAt(program, Owner(scope))
         IN  IF loop.kind = "for" /\ loop.var # NoVariable
               THEN {[name |-> loop.var, segment |-> ParentSegment(program, scope)]}
               ELSE {}
    ELSE LET body == BodyAt(program, scope)
         IN  {[name |-> body[i].var, segment |-> Segment(program, Append(scope, i))] :
                 i \in {j \in DOMAIN body : body[j].kind = "declare"}}
               \union
             (IF scope # <<>> /\ StatementAt(program, scope).kind = "catch"
                THEN {[name |-> StatementAt(program, scope).var,
                       segment |-> ParentSegment(program, scope)]}
                ELSE {})

Names(program, scope) == {v.name : v \in Declared(program, scope)}

(* A mistake: the variables of the last segment are left out. *)
VariablesBefore(program, scope, segment) ==
  {v.name : v \in {w \in Declared(program, scope) :
                     /\ w.segment < segment
                     /\ scope = <<>> \/ w.name \notin Names(program, Parent(program, scope))}}

(* The own variables of a scope up to a segment: those whose names the
   parent does not have, wherever in the parent they are declared. *)
get_unique_variables(program, scope, segment) ==
  {v.name : v \in {w \in Declared(program, scope) :
                     /\ w.segment <= segment
                     /\ scope = <<>> \/ w.name \notin Names(program, Parent(program, scope))}}

(* All paths of statements, those of one level behind those of the one
   around it. *)
Paths(program) ==
  LET Below(path) == {Append(path, i) : i \in DOMAIN BodyAt(program, path)}
      Level[n \in 0..Nesting] ==
        IF n = 0 THEN Below(<<>>)
        ELSE UNION {Below(p) : p \in {q \in Level[n - 1] : StatementAt(program, q).kind \in Scoped}}
  IN  UNION {Level[n] : n \in 0..Nesting}

(* The scopes of bodies, and all of them. *)
Bodied(program) == {<<>>} \union {p \in Paths(program) : StatementAt(program, p).kind \in Scoped}

Scopes(program) ==
  Bodied(program)
    \union {Append(p, 0) : p \in {q \in Paths(program) : StatementAt(program, q).kind \in {"for", "enh_for"}}}

(* A scope is another one or around it. *)
Prefix(short, long) ==
  Len(short) <= Len(long) /\ SubSeq(long, 1, Len(short)) = short

IsAround(outer, inner) ==
  /\ Prefix(Owner(outer), Owner(inner))
  /\ Owner(outer) = Owner(inner) /\ IsDefinition(inner) => IsDefinition(outer)

Allocas(program) ==
  UNION {{[scope |-> s, name |-> n] : n \in Names(program, s)} : s \in Scopes(program)}

(* A mistake: a returned variable is freed like any other. *)
NeverReturned(program, scope, name) == FALSE

(* create_return: a variable that some return statement of its scope, or
   of one inside it, returns, is marked as returned in that scope. *)
IsReturned(program, scope, name) ==
  \E p \in Paths(program) :
    /\ Prefix(Owner(scope), p)
    /\ StatementAt(program, p).kind = "return"
    /\ StatementAt(program, p).var = name

(* What generate_end_of_scope frees. *)
Freed(program, scope, segment) ==
  {[scope |-> scope, name |-> n] :
     n \in {m \in get_unique_variables(program, scope, segment) :
              ~IsReturned(program, scope, m)}}

----------------------------------------
(* Leaving scopes early, from a scope up to another around it: the code
   follows parent_scope, frees the first as a whole, and each further one
   up to the segment of the statement that it comes out of. *)

ScopesUpTo(program, scope, outermost) ==
  {s \in Scopes(program) : IsAround(s, scope) /\ IsAround(outermost, s)}

LeftStatement(scope, around) ==
  IF IsDefinition(around) THEN Owner(around) ELSE SubSeq(scope, 1, Len(around) + 1)

SegmentOf(program, scope, around) ==
  IF around = scope THEN Whole ELSE Segment(program, LeftStatement(scope, around))

FreedIn(program, scope, scopes) ==
  UNION {Freed(program, s, SegmentOf(program, scope, s)) : s \in scopes}

(* The statement a break or continue is about, from its own path. *)
Around(program, path, kinds) ==
  LET n == CHOOSE n \in 1..(Len(path) - 1) :
             /\ StatementAt(program, SubSeq(path, 1, n)).kind \in kinds
             /\ \A m \in (n + 1)..(Len(path) - 1) :
                  StatementAt(program, SubSeq(path, 1, m)).kind \notin kinds
  IN  SubSeq(path, 1, n)

IsInside(program, path, kinds) ==
  \E n \in 1..(Len(path) - 1) : StatementAt(program, SubSeq(path, 1, n)).kind \in kinds

(* last_loop_scopes.back() inside the body of a loop, and
   last_break_scopes.back() inside the body of a loop or a switch: for a
   switch it is the scope around it. *)
LoopScope(program, loop) ==
  IF StatementAt(program, loop).kind = "for" THEN Append(loop, 0) ELSE loop

BreakScope(program, target) ==
  IF StatementAt(program, target).kind = "switch"
    THEN DropLast(target) ELSE LoopScope(program, target)

(* A mistake: a break never cleans up the body of its loop. *)
FreedInsideBreak(program, path) ==
  LET outermost == BreakScope(program, Around(program, path, Breakable))
  IN  FreedIn(program, DropLast(path), ScopesUpTo(program, DropLast(path), outermost) \ {outermost})

(* The scope a break goes to is cleaned up if it is that of a loop. *)
FreedByBreak(program, path) ==
  LET outermost == BreakScope(program, Around(program, path, Breakable))
      scopes == ScopesUpTo(program, DropLast(path), outermost)
      also == /\ IsInside(program, path, Loops)
              /\ outermost = LoopScope(program, Around(program, path, Loops))
  IN  FreedIn(program, DropLast(path), IF also THEN scopes ELSE scopes \ {outermost})

FreedByContinue(program, path) ==
  LET outermost == LoopScope(program, Around(program, path, Loops))
  IN  FreedIn(program, DropLast(path), ScopesUpTo(program, DropLast(path), outermost))

FreedByReturn(program, path) ==
  FreedIn(program, DropLast(path), ScopesUpTo(program, DropLast(path), <<>>))

----------------------------------------
(* What the parser takes for a body. *)

(* The allocas of the names that a statement sees: what was declared before
   it in the scopes around it. *)
DeclaredBefore(program, scope, index) ==
  {BodyAt(program, scope)[i].var :
     i \in {j \in 1..(index - 1) : BodyAt(program, scope)[j].kind = "declare"}}
    \union
  (IF scope # <<>> /\ StatementAt(program, scope).kind = "catch"
     THEN {StatementAt(program, scope).var} ELSE {})

(* The variable of a for loop's definition, which the condition reads and
   the looparound changes. *)
Definition(program, loop) ==
  {[scope |-> Append(loop, 0), name |-> n] :
     n \in IF StatementAt(program, loop).kind = "for"
             THEN Names(program, Append(loop, 0)) ELSE {}}

Visible(program, path) ==
  UNION {{[scope |-> SubSeq(path, 1, n), name |-> x] :
            x \in DeclaredBefore(program, SubSeq(path, 1, n), path[n + 1])}
           \union (IF n > 0 THEN Definition(program, SubSeq(path, 1, n)) ELSE {})
         : n \in 0..(Len(path) - 1)}

(* A body that is accepted: statements nested as deep as the bound says,
   fewer in a row than would have the segment that stands for a scope,
   names that are new where they are declared and known where they are
   used, breaks and continues inside what they leave.  "A break is always
   at the end of the scope" (generator_statement.cpp:54), as is every
   terminator: LLVM refuses a block that goes on behind one. *)
IsProgram(body) ==
  LET paths == Paths(body)
      Kind(p) == StatementAt(body, p).kind
      Var(p) == StatementAt(body, p).var
      Sees(p, name) == \E a \in Visible(body, p) : a.name = name
  IN  /\ \A s \in Bodied(body) :
           LET b == BodyAt(body, s) IN b \in Seq({b[i] : i \in DOMAIN b}) /\ Len(b) < Whole
      /\ \A p \in paths :
           /\ Kind(p) \in Kinds
           /\ Kind(p) \in Scoped => Len(p) <= Nesting
           /\ Kind(p) \in Terminators => LastOf(p) = Len(BodyAt(body, DropLast(p)))
           /\ Kind(p) = "break" => IsInside(body, p, Breakable)
           /\ Kind(p) = "continue" => IsInside(body, p, Loops)
           /\ Kind(p) \in {"declare", "catch"} => Var(p) # NoVariable /\ ~Sees(p, Var(p))
           /\ Kind(p) \in {"use", "assign"} => Sees(p, Var(p))
           /\ Kind(p) \in {"return", "enh_for"} /\ Var(p) # NoVariable => Sees(p, Var(p))
           /\ Kind(p) = "throw" => Var(p) = NoVariable

ASSUME ProgramsAssumption == \A body \in Programs : IsProgram(body)

DeclaringScopes(body, name) == {s \in Scopes(body) : name \in Names(body, s)}

(* Programs that are generated wrongly, by what they contain. *)
Carelessness(body) ==
  LET Kind(p) == StatementAt(body, p).kind
      Var(p) == StatementAt(body, p).var
      paths == Paths(body)
  IN  {k \in {"break", "definition", "iterable", "changed", "shadow", "caught", "returned"} :
         CASE k = "break" ->       \* a switch in a loop's body is left with a break
                \E p \in paths :
                  /\ Kind(p) = "break"
                  /\ Kind(Around(body, p, Breakable)) = "switch"
                  /\ \E loop \in paths :
                       /\ Kind(loop) \in Loops \ {"for"}
                       /\ loop = DropLast(Around(body, p, Breakable))
           [] k = "definition" ->  \* a for loop's variable owns a value
                \E p \in paths : Kind(p) = "for" /\ Var(p) # NoVariable
           [] k = "iterable" ->    \* a loop over a value that no variable owns
                \E p \in paths : Kind(p) = "enh_for" /\ Var(p) = NoVariable
           [] k = "changed" ->     \* a loop's body assigns to what is iterated
                \E p, q \in paths :
                  /\ Kind(p) = "enh_for" /\ Kind(q) = "assign"
                  /\ Prefix(p, q) /\ Var(p) = Var(q)
           [] k = "shadow" ->      \* a name is declared in a scope and, later, around it
                \E name \in {Var(p) : p \in {q \in paths : Kind(q) = "declare"}} :
                  \E s, t \in DeclaringScopes(body, name) : s # t /\ Prefix(s, t)
           [] k = "caught" ->      \* a catch behind other scoped statements is left
                                   \* from a statement inside it
                \E p, q \in paths :
                  /\ Kind(p) = "catch" /\ Segment(body, p) > 0
                  /\ Kind(q) \in Terminators /\ Prefix(p, q) /\ Len(q) > Len(p) + 1
           [] k = "returned" ->    \* a variable is returned on one of several ways out
                                   \* of its scope
                \E p \in paths :
                  /\ Kind(p) = "return" /\ Var(p) # NoVariable
                  /\ \/ DropLast(p) \notin DeclaringScopes(body, Var(p))
                     \/ \E q \in paths :
                          /\ Prefix(DropLast(p), q) /\ q # p
                          /\ Kind(q) \in Terminators
                          /\ Kind(q) = "break" => Len(Around(body, q, Breakable)) < Len(p)
                          /\ Kind(q) = "continue" => Len(Around(body, q, Loops)) < Len(p)}

----------------------------------------
VARIABLES
  program,   \* the body of the function
  place,        \* the path of the statement that is executed next
  phase,     \* "start", or "test" at the condition of a loop that has begun
  slots,     \* what each alloca holds: "unset", "alive" or "stale"
  borrows,   \* the enhanced for loops whose iterable is still the value they
             \* took the address of its elements from
  misused,   \* a freed value was read or freed again
  lost,      \* a value was overwritten before it was freed
  returned   \* the alloca whose value was returned, or NoAlloca

control == <<program, place, phase, slots, borrows, misused, lost, returned>>

Outside == <<0>>   \* the position of a function that has returned
NoAlloca == [scope |-> Outside, name |-> NoVariable]

Running == place # Outside
Here == StatementAt(program, place)
AtEnd == LastOf(place) > Len(BodyAt(program, DropLast(place)))
At(kinds) == Running /\ ~AtEnd /\ Here.kind \in kinds
Past(path) == [path EXCEPT ![Len(path)] = @ + 1]
FirstOf(path) == Append(path, 1)
Goto(path, when) == place' = path /\ phase' = when

(* The alloca a name means at a path: that of the innermost scope that
   declares it. *)
Alloca(path, name) ==
  LET declaring == {s \in ScopesUpTo(program, DropLast(path), <<>>) : name \in Names(program, s)}
  IN  [scope |-> CHOOSE s \in declaring : \A t \in declaring : IsAround(t, s), name |-> name]

Write(alloca) ==
  /\ slots' = [slots EXCEPT ![alloca] = "alive"]
  /\ lost' = (lost \/ slots[alloca] = "alive")

(* Frees what some allocas hold and reads what others hold after that. *)
FreeAndRead(allocas, read) ==
  /\ slots' = [a \in DOMAIN slots |->
                 IF a \in allocas /\ slots[a] = "alive" THEN "stale" ELSE slots[a]]
  /\ misused' = \/ misused
                \/ \E a \in allocas : slots[a] = "stale"
                \/ \E a \in read : a \in allocas \/ slots[a] = "stale"

ControlInit ==
  /\ program \in Programs
  /\ place = <<1>>
  /\ phase = "start"
  /\ slots = [a \in Allocas(program) |-> "unset"]
  /\ borrows = {}
  /\ misused = FALSE
  /\ lost = FALSE
  /\ returned = NoAlloca

(* A declaration stores its value without a look at what the alloca holds. *)
generate_declaration ==
  /\ At({"declare"})
  /\ Write(Alloca(place, Here.var))
  /\ Goto(Past(place), "start")
  /\ UNCHANGED <<program, borrows, misused, returned>>

(* A simple statement that reads a variable. *)
Use ==
  /\ At({"use"})
  /\ FreeAndRead({}, {Alloca(place, Here.var)})
  /\ Goto(Past(place), "start")
  /\ UNCHANGED <<program, borrows, lost, returned>>

(* An assignment frees the old value of its variable. *)
Assign ==
  /\ At({"assign"})
  /\ misused' = (misused \/ slots[Alloca(place, Here.var)] = "stale")
  /\ slots' = [slots EXCEPT ![Alloca(place, Here.var)] = "alive"]
  /\ borrows' = {loop \in borrows :
                   Alloca(loop, StatementAt(program, loop).var) # Alloca(place, Here.var)}
  /\ Goto(Past(place), "start")
  /\ UNCHANGED <<program, lost, returned>>

(* An if without an else, a switch with one branch, and the catch of a
   call, whose error becomes a variable of its scope. *)
EnterBranch ==
  /\ At(Branches)
  /\ IF Here.kind = "catch"
       THEN Write([scope |-> place, name |-> Here.var])
       ELSE UNCHANGED <<slots, lost>>
  /\ Goto(FirstOf(place), "start")
  /\ UNCHANGED <<program, borrows, misused, returned>>

SkipBranch ==
  /\ At(Branches)
  /\ Goto(Past(place), "start")
  /\ UNCHANGED <<program, slots, borrows, misused, lost, returned>>

(* The initializer of a for loop is generated before the blocks of the
   loop are created and again in front of the branch to its condition. *)
generate_for_loop ==
  /\ At({"for"}) /\ phase = "start"
  /\ slots' = [a \in DOMAIN slots |-> IF a \in Definition(program, place) THEN "alive" ELSE slots[a]]
  /\ lost' = (lost \/ Definition(program, place) # {})
  /\ Goto(place, "test")
  /\ UNCHANGED <<program, borrows, misused, returned>>

(* The iterable is evaluated once; nothing frees it if it has no variable. *)
generate_enh_for_loop ==
  /\ At({"enh_for"}) /\ phase = "start"
  /\ IF Here.var = NoVariable
       THEN misused' = misused /\ slots' = slots /\ lost' = TRUE
       ELSE FreeAndRead({}, {Alloca(place, Here.var)}) /\ lost' = lost
  /\ borrows' = borrows \union {place}
  /\ Goto(place, "test")
  /\ UNCHANGED <<program, returned>>

(* The body of a do while loop comes before its first test. *)
generate_do_while_loop ==
  /\ At({"do_while"}) /\ phase = "start"
  /\ Goto(FirstOf(place), "start")
  /\ UNCHANGED <<program, slots, borrows, misused, lost, returned>>

AtTest == At(Loops) /\ (phase = "test" \/ Here.kind = "while")

EnterLoop ==
  /\ AtTest
  /\ slots' = slots
  /\ misused' = \/ misused
                \/ \E a \in Definition(program, place) : slots[a] = "stale"
                \/ (Here.kind = "enh_for" /\ place \notin borrows)
  /\ Goto(FirstOf(place), "start")
  /\ UNCHANGED <<program, borrows, lost, returned>>

LeaveLoop ==
  /\ AtTest
  /\ FreeAndRead({}, Definition(program, place))
  /\ borrows' = borrows \ {place}
  /\ Goto(Past(place), "start")
  /\ UNCHANGED <<program, lost, returned>>

(* Where the end of a loop's body, and a continue, lead. *)
LookAround(loop, freed) ==
  /\ FreeAndRead(freed, Definition(program, loop))
  /\ Goto(loop, "test")

EndBody ==
  /\ Running /\ AtEnd /\ Len(place) > 1
  /\ LET owner == DropLast(place)
         freed == Freed(program, owner, Whole)
     IN  IF StatementAt(program, owner).kind \in Loops
           THEN LookAround(owner, freed)
           ELSE FreeAndRead(freed, {}) /\ Goto(Past(owner), "start")
  /\ UNCHANGED <<program, borrows, lost, returned>>

Break ==
  /\ At({"break"})
  /\ FreeAndRead(FreedByBreak(program, place), {})
  /\ borrows' = {loop \in borrows : ~Prefix(Around(program, place, Breakable), loop)}
  /\ Goto(Past(Around(program, place, Breakable)), "start")
  /\ UNCHANGED <<program, lost, returned>>

Continue ==
  /\ At({"continue"})
  /\ LET loop == Around(program, place, Loops)
     IN  /\ LookAround(loop, FreedByContinue(program, place))
         /\ borrows' = {other \in borrows : other = loop \/ ~Prefix(loop, other)}
  /\ UNCHANGED <<program, lost, returned>>

(* A return stores the value before the scopes are cleaned up; a throw
   cleans up in the same way. *)
generate_return_statement ==
  /\ At({"return", "throw"})
  /\ returned' = IF Here.var # NoVariable THEN Alloca(place, Here.var) ELSE NoAlloca
  /\ FreeAndRead(FreedByReturn(program, place), {})
  /\ borrows' = {}
  /\ Goto(Outside, "start")
  /\ UNCHANGED <<program, lost>>

(* A function whose body ends without a return statement gets one. *)
EndFunction ==
  /\ Running /\ AtEnd /\ Len(place) = 1
  /\ FreeAndRead(Freed(program, <<>>, Whole), {})
  /\ Goto(Outside, "start")
  /\ UNCHANGED <<program, borrows, lost, returned>>

ControlNext ==
  \/ generate_declaration \/ Use \/ Assign
  \/ EnterBranch \/ SkipBranch
  \/ generate_for_loop \/ generate_enh_for_loop \/ generate_do_while_loop
  \/ EnterLoop \/ LeaveLoop
  \/ EndBody \/ Break \/ Continue
  \/ generate_return_statement \/ EndFunction

ControlSpec == ControlInit /\ [][ControlNext]_control

----------------------------------------
(* The control stays inside the function's body, and an alloca is unset,
   alive or stale. *)
ControlTypeOK ==
  /\ Running => /\ DropLast(place) \in Bodied(program)
                /\ LastOf(place) \in 1..(Len(BodyAt(program, DropLast(place))) + 1)
  /\ phase \in {"start", "test"}
  /\ slots \in [Allocas(program) -> {"unset", "alive", "stale"}]
  /\ borrows \subseteq Paths(program)
  /\ misused \in BOOLEAN /\ lost \in BOOLEAN
  /\ returned \in Allocas(program) \union {NoAlloca}

(* The allocas that are in scope where the control is: what the statement
   sees, and behind the definition of a for loop that as well. *)
InScope(path, when) ==
  Visible(program, path) \union (IF when = "test" THEN Definition(program, path) ELSE {})

(* Wherever the control is, on whatever way it came there, exactly the
   variables that are in scope own a live value: generate_end_of_scope and
   the statements that leave several scopes at once free all that is left
   behind and nothing else. *)
ScopesOwnTheirValues ==
  Running => {a \in DOMAIN slots : slots[a] = "alive"} = InScope(place, phase)

(* Nothing reads or frees a value that was freed before, and what a
   function returns is alive when it has returned. *)
NoValueIsMisused ==
  /\ ~misused
  /\ returned # NoAlloca => slots[returned] = "alive"

(* No value is overwritten unfreed, and a function that has returned has
   left no value behind but the one it returned. *)
NoValueIsLost ==
  /\ ~lost
  /\ ~Running => \A a \in DOMAIN slots : slots[a] = "alive" => a = returned

(* On every way through a function's body, a value is alive just as long
   as its scope, and is freed once, after its last use, unless it is the
   one that is returned. *)
ValuesEndOnce == ControlTypeOK /\ ScopesOwnTheirValues /\ NoValueIsMisused /\ NoValueIsLost
=============================================================================
