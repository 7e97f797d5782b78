----------------------------- MODULE Assignment -----------------------------
(***************************************************************************)
(* The code flintc generates for assignments: one statement of a program   *)
(* that assigns to variables of two kinds,                                 *)
(*                                                                         *)
(*   data     values of `data IntList: IntList? next;`, which live in DIMA *)
(*            and are counted,                                             *)
(*   buffers  arrays, which live in malloc'ed memory and are not counted.  *)
(*                                                                         *)
(* Assigning copies: the old value of the variable is released or freed,   *)
(* then flint.clone copies the value of the right hand side, unless that   *)
(* side is a producer (an initializer, a call), whose value is stored as   *)
(* it is.  A group assignment (x, y) = (e, f) evaluates all of its right   *)
(* hand side, retains what DIMA manages, assigns from left to right and    *)
(* releases again.                                                         *)
(***************************************************************************)
EXTENDS Naturals, Sequences, FiniteSets

CONSTANTS DataVars,     \* variables that hold DIMA-managed values
          BufferVars,   \* variables that hold arrays
          Slots,        \* DIMA's slots, where data values live
          Buffers,      \* malloc'ed memory, where arrays live
          None,         \* the optional without a value, the null pointer
          TargetLists,  \* bound: the left hand sides of the program
          MaxData,      \* bound: a list is extended below this many values
          Overlapping   \* the forms of statement that may read what they free

VARIABLES cell,     \* what a piece of memory holds, with its arc and `next`
          var,      \* the memory a variable points to
          stmt,     \* the targets and the evaluated sources of the statement
          at,       \* what the statement does next, "idle" between statements
          at_target, \* the target it is at
          pointer   \* what it frees or copies next, and where a copy goes

vars == <<cell, var, stmt, at, at_target, pointer>>

Vars == DataVars \cup BufferVars

Cells == Slots \cup Buffers

ASSUME AssignmentAssumption ==
    /\ DataVars \cap BufferVars = {}
    /\ Slots \cap Buffers = {}
    /\ None \notin Slots \cup Buffers
    /\ \E f \in [Vars -> Cells] : \A x \in Vars : /\ f[x] \in (IF x \in DataVars THEN Slots ELSE Buffers)
                                               /\ \A y \in Vars : f[x] = f[y] => x = y
    /\ \A targets \in TargetLists : targets \in Seq(Vars) /\ targets # << >>
    /\ Overlapping \subseteq {"single", "group"}

Cell == [live : BOOLEAN, arc : Nat, next : Cells \cup {None}]

FreeCell == [live |-> FALSE, arc |-> 0, next |-> None]
NewCell == [live |-> TRUE, arc |-> 1, next |-> None]

Live(c) == cell[c].live

(* Where the values of a variable live, and some unused place among them;
   they are all alike.  A bound: nothing is allocated when all are in use. *)
Memory(x) == IF x \in DataVars THEN Slots ELSE Buffers

HasFresh(x) == \E c \in Memory(x) : ~Live(c)
Fresh(x) == CHOOSE c \in Memory(x) : ~Live(c)

NoStatement == [targets |-> << >>, sources |-> << >>, producer |-> << >>, wanted |-> << >>]
Nowhere == [from |-> None, into |-> None]

Init ==
    /\ var = CHOOSE f \in [Vars -> Cells] :
                /\ \A x \in Vars : f[x] \in Memory(x)
                /\ \A x, y \in Vars : f[x] = f[y] => x = y
    /\ cell = [c \in Cells |-> IF \E x \in Vars : var[x] = c THEN NewCell ELSE FreeCell]
    /\ stmt = NoStatement
    /\ at = "idle"
    /\ at_target = 1
    /\ pointer = Nowhere

(* The values of the list that starts at c. *)
Chain(c) ==
    LET reached[n \in 0 .. Cardinality(Cells)] ==
            IF n = 0 THEN {c}
            ELSE reached[n - 1] \cup ({cell[d].next : d \in reached[n - 1]} \ {None})
    IN  reached[Cardinality(Cells)]

Length(c) == Cardinality(Chain(c))

IsGroup == Len(stmt.targets) > 1
Form == IF IsGroup THEN "group" ELSE "single"
Target == stmt.targets[at_target]
Source == stmt.sources[at_target]

----------------------------------------
(***************************************************************************)
(* The right hand side.                                                    *)
(***************************************************************************)

(* x = ..., or (x, y) = ... *)
Begin ==
    /\ at = "idle"
    /\ \E targets \in TargetLists : stmt' = [NoStatement EXCEPT !.targets = targets]
    /\ at' = "evaluate"
    /\ at_target' = 1
    /\ UNCHANGED <<cell, var, pointer>>

(* list.next = IntList(none), on a list without a next. *)
Extend(x) ==
    /\ at = "idle"
    /\ cell[var[x]].next = None
    /\ HasFresh(x)
    /\ Cardinality({c \in Slots : Live(c)}) < MaxData
    /\ cell' = [cell EXCEPT ![Fresh(x)] = NewCell, ![var[x]].next = Fresh(x)]
    /\ UNCHANGED <<var, stmt, at, at_target, pointer>>

(* What the statement will have freed when it reads variable y for target
   at_target: a single assignment frees its own target first, and so does a
   group what it does not retain. *)
ReadsWhatItFrees(y) ==
    /\ ~IsGroup \/ y \in BufferVars
    /\ \E k \in 1 .. at_target : stmt.targets[k] = y

Evaluated(c, producer, length) ==
    /\ stmt' = [stmt EXCEPT !.sources = Append(@, c), !.producer = Append(@, producer),
                            !.wanted = Append(@, length)]
    /\ IF at_target < Len(stmt.targets)
       THEN at_target' = at_target + 1 /\ at' = "evaluate"
       ELSE at_target' = 1 /\ at' = IF IsGroup THEN "retain" ELSE "free"
    /\ UNCHANGED <<var, pointer>>

(* ... = y, ... = y.next! *)
EvaluateVariable(y) ==
    /\ at = "evaluate"
    /\ Memory(y) = Memory(Target)
    /\ ReadsWhatItFrees(y) => Form \in Overlapping
    /\ \E c \in {var[y], cell[var[y]].next} \ {None} : Evaluated(c, FALSE, Length(c))
    /\ UNCHANGED cell

(* ... = IntList(none), or the array a call returns *)
EvaluateProducer ==
    /\ at = "evaluate"
    /\ HasFresh(Target)
    /\ cell' = [cell EXCEPT ![Fresh(Target)] = NewCell]
    /\ Evaluated(Fresh(Target), TRUE, 1)

----------------------------------------
(***************************************************************************)
(* The assignments themselves.                                             *)
(***************************************************************************)
IsData(j) == stmt.targets[j] \in DataVars

(* The group assignment without its first loop. *)
RetainNothing ==
    /\ at = "retain"
    /\ at' = "free"
    /\ UNCHANGED <<cell, var, stmt, at_target, pointer>>

(* A group retains the values DIMA manages, and only those. *)
RetainSources ==
    /\ at = "retain"
    /\ cell' = [c \in Cells |->
                  [cell[c] EXCEPT !.arc = @ + Cardinality({j \in DOMAIN stmt.sources :
                                                 IsData(j) /\ stmt.sources[j] = c})]]
    /\ at' = "free"
    /\ UNCHANGED <<var, stmt, at_target, pointer>>

(* dima.release on a value: it and its field, when nothing refers to it. *)
Release(c) ==
    LET last == cell[c].arc = 1
        released == IF last THEN FreeCell ELSE [cell[c] EXCEPT !.arc = @ - 1]
    IN  /\ cell' = [cell EXCEPT ![c] = released]
        /\ pointer' = [Nowhere EXCEPT !.from = IF last THEN cell[c].next ELSE None]

(* What the target holds is released, or freed when it is a buffer. *)
FreeTarget ==
    /\ at = "free"
    /\ \/ IsData(at_target) /\ Release(var[Target])
       \/ /\ ~IsData(at_target)
          /\ cell' = [cell EXCEPT ![var[Target]] = FreeCell]
          /\ UNCHANGED pointer
    /\ at' = "freeing"
    /\ UNCHANGED <<var, stmt, at_target>>

(* Releases go on with the field of a value that was given back. *)
ReleaseField ==
    /\ at \in {"freeing", "releasing"}
    /\ pointer.from # None
    /\ Release(pointer.from)
    /\ UNCHANGED <<var, stmt, at, at_target>>

(* Behind a target: the next one, or the releases at the end of a group. *)
NextTarget ==
    IF at_target < Len(stmt.targets) THEN at_target' = at_target + 1 /\ at' = "free" /\ UNCHANGED stmt
    ELSE /\ at_target' = 1
         /\ at' = IF IsGroup THEN "release" ELSE "idle"
         /\ stmt' = IF IsGroup THEN stmt ELSE NoStatement

(* The value of a producer is stored. *)
Store ==
    /\ at = "freeing"
    /\ pointer.from = None
    /\ stmt.producer[at_target]
    /\ var' = [var EXCEPT ![Target] = Source]
    /\ NextTarget
    /\ UNCHANGED <<cell, pointer>>

BeginClone ==
    /\ at = "freeing"
    /\ pointer.from = None
    /\ ~stmt.producer[at_target]
    /\ at' = "clone"
    /\ pointer' = [Nowhere EXCEPT !.from = Source]
    /\ UNCHANGED <<cell, var, stmt, at_target>>

(* A clone that forgets the field. *)
CloneShallow ==
    /\ at = "clone"
    /\ HasFresh(Target)
    /\ Live(pointer.from)
    /\ var' = [var EXCEPT ![Target] = Fresh(Target)]
    /\ cell' = [cell EXCEPT ![Fresh(Target)] = NewCell]
    /\ pointer' = Nowhere
    /\ NextTarget

(* flint.clone: one value, then the value in its field. *)
Clone ==
    LET source == pointer.from
        copy == Fresh(Target)
    IN  /\ at = "clone"
        /\ HasFresh(Target)
        /\ Live(source)
        /\ IF pointer.into = None
           THEN /\ var' = [var EXCEPT ![Target] = copy]
                /\ cell' = [cell EXCEPT ![copy] = NewCell]
           ELSE /\ cell' = [cell EXCEPT ![copy] = NewCell, ![pointer.into].next = copy]
                /\ UNCHANGED var
        /\ IF cell[source].next # None
           THEN pointer' = [from |-> cell[source].next, into |-> copy] /\ UNCHANGED <<stmt, at, at_target>>
           ELSE pointer' = Nowhere /\ NextTarget

(* The group assignment without its last loop. *)
ReleaseNothing ==
    /\ at = "release"
    /\ at' = "releasing"
    /\ UNCHANGED <<cell, var, stmt, at_target, pointer>>

(* A group releases what it retained. *)
ReleaseSource ==
    /\ at = "release"
    /\ IF IsData(at_target) THEN Release(Source) ELSE UNCHANGED <<cell, pointer>>
    /\ at' = "releasing"
    /\ UNCHANGED <<var, stmt, at_target>>

EndRelease ==
    /\ at = "releasing"
    /\ pointer.from = None
    /\ IF at_target < Len(stmt.targets)
       THEN at_target' = at_target + 1 /\ at' = "release" /\ UNCHANGED stmt
       ELSE at_target' = 1 /\ at' = "idle" /\ stmt' = NoStatement
    /\ UNCHANGED <<cell, var, pointer>>

Next ==
    \/ Begin
    \/ \E x \in DataVars : Extend(x)
    \/ \E y \in Vars : EvaluateVariable(y)
    \/ EvaluateProducer
    \/ RetainSources
    \/ FreeTarget
    \/ ReleaseField
    \/ Store
    \/ BeginClone
    \/ Clone
    \/ ReleaseSource
    \/ EndRelease

Spec == Init /\ [][Next]_vars

----------------------------------------
(***************************************************************************)
(* Correctness.                                                            *)
(***************************************************************************)

(* The type invariant: while a statement runs, at_target is one of its targets. *)
TypeOK ==
    /\ cell \in [Cells -> Cell]
    /\ var \in [Vars -> Cells]
    /\ stmt.targets \in Seq(Vars) /\ stmt.sources \in Seq(Cells)
    /\ at \in {"idle", "evaluate", "retain", "free", "freeing", "clone", "release", "releasing"}
    /\ at_target \in IF at = "idle" THEN {1} ELSE DOMAIN stmt.targets
    /\ pointer \in [from : Cells \cup {None}, into : Cells \cup {None}]

(* "prevent potential use-after-free bugs" (generator_statement.cpp:2153):
   the memory a statement copies from or releases was not given back by an
   earlier step of the same statement. *)
NoUseAfterFree ==
    /\ at = "clone" => Live(pointer.from)
    /\ at = "free" => Live(var[Target])
    /\ at = "release" /\ IsData(at_target) => Live(Source)
    /\ at \in {"freeing", "releasing"} /\ pointer.from # None => Live(pointer.from)

(* Values are not shared and nothing leaks: between statements every piece
   of memory in use has exactly one owner, a variable or a field, and a
   count of one. *)
OwnersOf(c) == {x \in Vars : var[x] = c} \cup {d \in Cells : cell[d].next = c}

EveryValueHasOneOwner ==
    at = "idle" => \A c \in Cells : IF Live(c) THEN Cardinality(OwnersOf(c)) = 1 /\ cell[c].arc = 1
                                    ELSE OwnersOf(c) = {}

(* Assignments use nothing they freed and leave every value one owner. *)
AssignmentsAreSafe == TypeOK /\ NoUseAfterFree /\ EveryValueHasOneOwner

(* A statement assigns the values its right hand side had when it began,
   all of each value, also when a target is among the sources: a group can
   swap two variables. *)
AssignsWhatWasRead ==
    [][at # "idle" /\ at' = "idle" =>
        \A x \in Vars : \A j \in DOMAIN stmt.targets :
            stmt.targets[j] = x => Length(var[x])' = stmt.wanted[j]]_vars
=============================================================================
