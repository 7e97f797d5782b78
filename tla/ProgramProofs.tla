---------------------------- MODULE ProgramProofs ----------------------------
(***************************************************************************)
(* What is proved of the code flintc generates for the bodies of functions: *)
(* assignments (Assignment) and scopes (Control).                          *)
(*                                                                         *)
(* Assignments use nothing they freed and leak nothing.  The invariant     *)
(* counts: whoever is responsible for a value, a variable, a field, a      *)
(* source that is to be stored or the release that is under way, holds     *)
(* it; no value has two holders; and the arc of a value is 1 if it is held *)
(* plus the number of times the group has retained it.  What a step does   *)
(* is then one of a few moves: a holder takes a free cell, gives its cell  *)
(* up, or hands it to another.                                             *)
(*                                                                         *)
(* Assignments copy whole values.  The length of a list and its last value *)
(* are followed through every step, as functions of where it starts; a     *)
(* step that appends changes them for the lists with that last value, one  *)
(* that gives a value back for this one alone.  That they are what Length  *)
(* computes is the last lemma, by the growth of sets in DataTheorems.      *)
(*                                                                         *)
(* Values end with their scopes, for every program, nested to any depth,   *)
(* that does none of what Carelessness lists.  The invariant says that     *)
(* control is before, between or behind the statements of a body it can    *)
(* be at, and that what is alive is what is visible there.  The proof is   *)
(* about programs rather than steps: what is visible behind a statement,   *)
(* inside it and around it, and that what the end of a body, a break, a    *)
(* continue or a return frees is exactly the difference.  A scope frees by *)
(* segments, which count the scopes in front of a statement; the lemmas    *)
(* show that the segment separates what is declared in front of the        *)
(* statement that leaves from what is declared behind it.                  *)
(***************************************************************************)
EXTENDS Assignment, Control, DataTheorems, FiniteSetTheorems, TLAPS

----------------------------------------
(* Holders of cells, in general: every cell that counts has one, or is
   retained. *)

Positions == Nat

(* Who may hold a cell: a variable, a field, a producer's value that is to
   be stored, and the release that is under way. *)
Holders == ({"var"} \X Vars) \cup ({"next"} \X Cells) \cup ({"source"} \X Positions)
             \cup {<<"release", 1>>}

(* The target has been freed and not been assigned to. *)
Dangles(x) ==
  /\ at = "freeing" \/ (at = "clone" /\ pointer.into = None)
  /\ x = Target

Evaluating == at \in {"evaluate", "retain"}
Assigning == at \in {"free", "freeing", "clone"}

(* Sources that are still to be assigned. *)
IsDue(j) == j \in DOMAIN stmt.sources /\ (Evaluating \/ (Assigning /\ j >= at_target))

held ==
  [h \in Holders |->
     CASE h[1] = "var" -> IF Dangles(h[2]) THEN None ELSE var[h[2]]
       [] h[1] = "next" -> cell[h[2]].next
       [] h[1] = "source" -> IF IsDue(h[2]) /\ stmt.producer[h[2]] THEN stmt.sources[h[2]] ELSE None
       [] OTHER -> IF at \in {"freeing", "releasing"} THEN pointer.from ELSE None]

(* The sources of a group that were retained and not yet released. *)
IsRetained(j) ==
  /\ j \in DOMAIN stmt.sources /\ IsData(j) /\ IsGroup
  /\ Assigning \/ (at = "release" /\ j >= at_target) \/ (at = "releasing" /\ j > at_target)

retained == [c \in Cells |-> {j \in DOMAIN stmt.sources : IsRetained(j) /\ stmt.sources[j] = c}]
arcs == [c \in Cells |-> cell[c].arc]

IsCounted(arc, h, r) ==
  /\ arc \in [Cells -> Nat]
  /\ h \in [Holders -> Cells \cup {None}]
  /\ \A c \in Cells : IsFiniteSet(r[c])
  /\ \A o, p \in Holders : h[o] # None /\ h[o] = h[p] => o = p
  /\ \A c \in Cells : arc[c] = (IF \E o \in Holders : h[o] = c THEN 1 ELSE 0) + Cardinality(r[c])

(* Cells are in use as long as they count, and unused ones are all alike;
   only slots have a field. *)
AreCells(ce) ==
  /\ ce \in [Cells -> Cell]
  /\ \A c \in Cells : /\ ce[c].live <=> ce[c].arc > 0
                      /\ ~ce[c].live => ce[c] = FreeCell
                      /\ ce[c].next \in (IF c \in Slots THEN Slots \cup {None} ELSE {None})

CellsAreSound ==
  /\ AreCells(cell)
  /\ var \in [Vars -> Cells]
  /\ \A x \in Vars : var[x] \in Memory(x)

PointerIsSound ==
  /\ pointer \in [from : Cells \cup {None}, into : Cells \cup {None}]
  /\ at \in {"idle", "evaluate", "retain", "free", "release"} => pointer = Nowhere
  /\ at \in {"freeing", "releasing"} => pointer.into = None /\ pointer.from \in Slots \cup {None}
  /\ at = "clone" =>
       /\ pointer.from \in Memory(Target) /\ Live(pointer.from) /\ ~stmt.producer[at_target]
       /\ pointer.into # None =>
            /\ IsData(at_target) /\ pointer.into \in Slots
            /\ Live(pointer.into) /\ cell[pointer.into].next = None

StatementIsSound ==
  /\ DOMAIN stmt = {"targets", "sources", "producer", "wanted"}
  /\ at \in {"idle", "evaluate", "retain", "free", "freeing", "clone", "release", "releasing"}
  /\ at = "idle" => stmt = NoStatement /\ at_target = 1
  /\ at # "idle" => stmt.targets \in TargetLists /\ at_target \in DOMAIN stmt.targets
  /\ at = "evaluate" => Len(stmt.sources) = at_target - 1
  /\ at \notin {"idle", "evaluate"} => Len(stmt.sources) = Len(stmt.targets)
  /\ at = "retain" => at_target = 1
  /\ at \in {"retain", "release", "releasing"} => IsGroup
  /\ stmt.sources \in Seq(Cells) /\ stmt.producer \in Seq(BOOLEAN)
  /\ Len(stmt.producer) = Len(stmt.sources)
  /\ \A j \in DOMAIN stmt.sources : stmt.sources[j] \in Memory(stmt.targets[j])

(* What is read is still there when it is copied. *)
Behind(y, j) == y \in Vars /\ \A k \in 1 .. j : stmt.targets[k] # y
SourcesAreThere ==
  /\ at = "evaluate" \/ at = "retain" => \A j \in DOMAIN stmt.sources : Live(stmt.sources[j])
  /\ \A j \in DOMAIN stmt.sources :
       IsDue(j) /\ ~stmt.producer[j] /\ ~IsData(j) =>
         \E y \in Vars : Behind(y, j) /\ stmt.sources[j] = var[y]
  /\ ~IsGroup /\ at \in {"free", "freeing"} /\ ~stmt.producer[1] =>
       \E y \in Vars : Behind(y, 1) /\ stmt.sources[1] \in {var[y], cell[var[y]].next}

AssignmentInvariant ==
  CellsAreSound /\ PointerIsSound /\ StatementIsSound /\ SourcesAreThere
    /\ IsCounted(arcs, held, retained)

HeldBy(h, c) == IF \E o \in Holders : h[o] = c THEN 1 ELSE 0

(* Nobody holds a cell whose count is 0. *)
LEMMA NobodyHolds ==
  ASSUME NEW arc, NEW h, NEW r, IsCounted(arc, h, r), NEW c \in Cells, arc[c] = 0
  PROVE  /\ \A o \in Holders : h[o] # c
         /\ Cardinality(r[c]) = 0 /\ r[c] = {}
<1>1. IsFiniteSet(r[c]) /\ arc[c] = HeldBy(h, c) + Cardinality(r[c])
  BY DEF IsCounted, HeldBy
<1>2. Cardinality(r[c]) \in Nat /\ HeldBy(h, c) \in {0, 1}
  BY <1>1, FS_CardinalityType DEF HeldBy
<1>3. HeldBy(h, c) = 0 /\ Cardinality(r[c]) = 0
  BY <1>1, <1>2
<1>4. r[c] = {}
  BY <1>1, <1>3, FS_EmptySet
<1>5. QED BY <1>3, <1>4 DEF HeldBy

(* A cell that is held or retained counts. *)
LEMMA HeldCounts ==
  ASSUME NEW arc, NEW h, NEW r, IsCounted(arc, h, r), NEW c \in Cells,
         (\E o \in Holders : h[o] = c) \/ r[c] # {}
  PROVE  arc[c] \in Nat /\ arc[c] > 0
<1>1. arc[c] \in Nat
  BY DEF IsCounted
<1>2. arc[c] # 0
  BY NobodyHolds
<1>3. QED BY <1>1, <1>2

(* A holder takes a cell nobody held. *)
LEMMA TakeCell ==
  ASSUME NEW arc, NEW h, NEW r, IsCounted(arc, h, r),
         NEW c \in Cells, arc[c] = 0, NEW o \in Holders, h[o] = None
  PROVE  IsCounted([arc EXCEPT ![c] = 1], [h EXCEPT ![o] = c], r)
<1> DEFINE a == [arc EXCEPT ![c] = 1]
           g == [h EXCEPT ![o] = c]
<1>1. /\ arc \in [Cells -> Nat] /\ h \in [Holders -> Cells \cup {None}]
      /\ \A d \in Cells : IsFiniteSet(r[d]) /\ arc[d] = HeldBy(h, d) + Cardinality(r[d])
      /\ \A p, q \in Holders : h[p] # None /\ h[p] = h[q] => p = q
      /\ None \notin Cells
  BY AssignmentAssumption DEF IsCounted, HeldBy, Cells
<1>2. (\A p \in Holders : h[p] # c) /\ Cardinality(r[c]) = 0
  BY NobodyHolds
<1>3. a \in [Cells -> Nat] /\ g \in [Holders -> Cells \cup {None}]
  BY <1>1
<1>4. \A p, q \in Holders : g[p] # None /\ g[p] = g[q] => p = q
  BY <1>1, <1>2
<1>5. ASSUME NEW d \in Cells
      PROVE  a[d] = HeldBy(g, d) + Cardinality(r[d])
  <2>1. CASE d = c
    <3>1. HeldBy(g, c) = 1 /\ a[c] = 1
      BY <1>1 DEF HeldBy
    <3>2. QED BY <1>2, <2>1, <3>1
  <2>2. CASE d # c
    <3>1. a[d] = arc[d]
      BY <1>1, <2>2
    <3>2. (\E p \in Holders : g[p] = d) <=> (\E p \in Holders : h[p] = d)
      <4>1. \A p \in Holders : g[p] = d <=> h[p] = d
        BY <1>1, <2>2
      <4>2. QED BY <4>1
    <3>3. HeldBy(g, d) = HeldBy(h, d)
      BY <3>2 DEF HeldBy
    <3>4. QED BY <1>1, <3>1, <3>3
  <2>3. QED BY <2>1, <2>2
<1> HIDE DEF a, g
<1>6. IsCounted(a, g, r)
  BY <1>1, <1>3, <1>4, <1>5 DEF IsCounted, HeldBy
<1>7. QED BY <1>6 DEF a, g

(* A cell, or none, goes from one holder to another. *)
LEMMA MoveCell ==
  ASSUME NEW arc, NEW h, NEW r, IsCounted(arc, h, r),
         NEW o \in Holders, NEW p \in Holders, o # p, h[p] = None
  PROVE  IsCounted(arc, [h EXCEPT ![o] = None, ![p] = h[o]], r)
<1> DEFINE g == [h EXCEPT ![o] = None, ![p] = h[o]]
<1>1. /\ arc \in [Cells -> Nat] /\ h \in [Holders -> Cells \cup {None}]
      /\ \A d \in Cells : IsFiniteSet(r[d]) /\ arc[d] = HeldBy(h, d) + Cardinality(r[d])
      /\ \A q, s \in Holders : h[q] # None /\ h[q] = h[s] => q = s
      /\ None \notin Cells
  BY AssignmentAssumption DEF IsCounted, HeldBy, Cells
<1>2. g \in [Holders -> Cells \cup {None}]
  BY <1>1
<1>3. \A q \in Holders : g[q] = IF q = p THEN h[o] ELSE IF q = o THEN None ELSE h[q]
  BY <1>1
<1> HIDE DEF g
<1>4. \A q, s \in Holders : g[q] # None /\ g[q] = g[s] => q = s
  BY <1>1, <1>3
<1>5. ASSUME NEW d \in Cells
      PROVE  HeldBy(g, d) = HeldBy(h, d)
  <2>1. ASSUME NEW q \in Holders, h[q] = d
        PROVE  \E s \in Holders : g[s] = d
    BY <1>1, <1>3, <2>1
  <2>2. ASSUME NEW q \in Holders, g[q] = d
        PROVE  \E s \in Holders : h[s] = d
    BY <1>1, <1>3, <2>2
  <2>3. QED BY <2>1, <2>2 DEF HeldBy
<1>6. \A d \in Cells : arc[d] = HeldBy(g, d) + Cardinality(r[d])
  BY <1>1, <1>5
<1>7. IsCounted(arc, g, r)
  BY <1>1, <1>2, <1>4, <1>6 DEF IsCounted, HeldBy
<1>8. QED BY <1>7 DEF g

(* A holder gives its cell up. *)
LEMMA DropCell ==
  ASSUME NEW arc, NEW h, NEW r, IsCounted(arc, h, r),
         NEW o \in Holders, NEW c \in Cells, h[o] = c
  PROVE  /\ IsCounted([arc EXCEPT ![c] = arc[c] - 1], [h EXCEPT ![o] = None], r)
         /\ arc[c] = 1 <=> r[c] = {}
<1> DEFINE a == [arc EXCEPT ![c] = arc[c] - 1]
           g == [h EXCEPT ![o] = None]
<1>1. /\ arc \in [Cells -> Nat] /\ h \in [Holders -> Cells \cup {None}]
      /\ \A d \in Cells : IsFiniteSet(r[d]) /\ arc[d] = HeldBy(h, d) + Cardinality(r[d])
      /\ \A q, s \in Holders : h[q] # None /\ h[q] = h[s] => q = s
      /\ None \notin Cells
  BY AssignmentAssumption DEF IsCounted, HeldBy, Cells
<1>2. arc[c] = 1 + Cardinality(r[c]) /\ Cardinality(r[c]) \in Nat
  <2>1. HeldBy(h, c) = 1
    BY DEF HeldBy
  <2>2. QED BY <1>1, <2>1, FS_CardinalityType
<1>3. arc[c] = 1 <=> r[c] = {}
  BY <1>1, <1>2, FS_EmptySet
<1>4. a \in [Cells -> Nat] /\ g \in [Holders -> Cells \cup {None}]
  BY <1>1, <1>2
<1>5. \A q, s \in Holders : g[q] # None /\ g[q] = g[s] => q = s
  BY <1>1
<1>6. ASSUME NEW d \in Cells
      PROVE  a[d] = HeldBy(g, d) + Cardinality(r[d])
  <2>1. CASE d = c
    <3>1. \A q \in Holders : g[q] # c
      BY <1>1
    <3>2. HeldBy(g, c) = 0
      BY <3>1 DEF HeldBy
    <3>3. a[c] = Cardinality(r[c])
      BY <1>1, <1>2
    <3>4. QED BY <1>2, <2>1, <3>2, <3>3
  <2>2. CASE d # c
    <3>1. a[d] = arc[d]
      BY <1>1, <2>2
    <3>2. \A q \in Holders : g[q] = d <=> h[q] = d
      BY <1>1, <2>2
    <3> HIDE DEF g
    <3>3. HeldBy(g, d) = HeldBy(h, d)
      BY <3>2 DEF HeldBy
    <3>4. QED BY <1>1, <3>1, <3>3
  <2>3. QED BY <2>1, <2>2
<1> HIDE DEF a, g
<1>7. IsCounted(a, g, r)
  BY <1>1, <1>4, <1>5, <1>6 DEF IsCounted, HeldBy
<1>8. QED BY <1>3, <1>7 DEF a, g

(* A retained cell is let go of. *)
LEMMA DropRetained ==
  ASSUME NEW arc, NEW h, NEW r, IsCounted(arc, h, r),
         NEW c \in Cells, NEW j \in r[c], r = [d \in Cells |-> r[d]]
  PROVE  /\ IsCounted([arc EXCEPT ![c] = arc[c] - 1], h, [r EXCEPT ![c] = r[c] \ {j}])
         /\ arc[c] = 1 => \A o \in Holders : h[o] # c
<1> DEFINE a == [arc EXCEPT ![c] = arc[c] - 1]
           s == [r EXCEPT ![c] = r[c] \ {j}]
<1>1. /\ arc \in [Cells -> Nat] /\ h \in [Holders -> Cells \cup {None}]
      /\ \A d \in Cells : IsFiniteSet(r[d]) /\ arc[d] = HeldBy(h, d) + Cardinality(r[d])
      /\ \A p, q \in Holders : h[p] # None /\ h[p] = h[q] => p = q
  BY DEF IsCounted, HeldBy
<1>2. /\ IsFiniteSet(r[c] \ {j}) /\ Cardinality(r[c] \ {j}) = Cardinality(r[c]) - 1
      /\ Cardinality(r[c]) \in Nat /\ Cardinality(r[c] \ {j}) \in Nat
  <2>1. IsFiniteSet(r[c])
    BY <1>1
  <2>2. IsFiniteSet(r[c] \ {j}) /\ Cardinality(r[c] \ {j}) = Cardinality(r[c]) - 1
    BY <2>1, FS_RemoveElement
  <2>3. QED BY <2>1, <2>2, FS_CardinalityType
<1>3. HeldBy(h, c) \in {0, 1}
  BY DEF HeldBy
<1>4. arc[c] - 1 = HeldBy(h, c) + Cardinality(r[c] \ {j}) /\ arc[c] - 1 \in Nat
  BY <1>1, <1>2, <1>3
<1>5. \A d \in Cells : s[d] = IF d = c THEN r[c] \ {j} ELSE r[d]
  OBVIOUS
<1>6. \A d \in Cells : a[d] = IF d = c THEN arc[c] - 1 ELSE arc[d]
  BY <1>1
<1>7. a \in [Cells -> Nat]
  BY <1>1, <1>4
<1>8. \A d \in Cells : IsFiniteSet(s[d]) /\ a[d] = HeldBy(h, d) + Cardinality(s[d])
  BY <1>1, <1>2, <1>4, <1>5, <1>6
<1>9. arc[c] = 1 => \A o \in Holders : h[o] # c
  BY <1>2, <1>3, <1>4 DEF HeldBy
<1> HIDE DEF a, s
<1>10. IsCounted(a, h, s)
  BY <1>1, <1>7, <1>8 DEF IsCounted, HeldBy
<1>11. QED BY <1>9, <1>10 DEF a, s

(* Cells are retained when none is. *)
LEMMA RetainCells ==
  ASSUME NEW arc, NEW h, NEW r, IsCounted(arc, h, r), \A c \in Cells : r[c] = {},
         NEW s, \A c \in Cells : IsFiniteSet(s[c])
  PROVE  IsCounted([c \in Cells |-> arc[c] + Cardinality(s[c])], h, s)
<1> DEFINE a == [c \in Cells |-> arc[c] + Cardinality(s[c])]
<1>1. /\ arc \in [Cells -> Nat] /\ h \in [Holders -> Cells \cup {None}]
      /\ \A p, q \in Holders : h[p] # None /\ h[p] = h[q] => p = q
  BY DEF IsCounted
<1>2. ASSUME NEW d \in Cells
      PROVE  a[d] \in Nat /\ a[d] = HeldBy(h, d) + Cardinality(s[d])
  <2>1. arc[d] = HeldBy(h, d) + Cardinality({}) /\ HeldBy(h, d) \in {0, 1}
    BY DEF IsCounted, HeldBy
  <2>2. Cardinality({}) = 0 /\ Cardinality(s[d]) \in Nat
    BY FS_EmptySet, FS_CardinalityType
  <2>3. arc[d] = HeldBy(h, d)
    BY <2>1, <2>2
  <2>4. QED BY <2>1, <2>2, <2>3
<1>3. a \in [Cells -> Nat]
  BY <1>2
<1>4. \A d \in Cells : a[d] = HeldBy(h, d) + Cardinality(s[d])
  BY <1>2
<1> HIDE DEF a
<1>5. IsCounted(a, h, s)
  BY <1>1, <1>3, <1>4 DEF IsCounted, HeldBy
<1>6. QED BY <1>5 DEF a

----------------------------------------
(* The state of an assignment. *)

(* The kinds of holders. *)
LEMMA HolderKinds ==
  /\ \A x \in Vars : <<"var", x>> \in Holders
  /\ \A c \in Cells : <<"next", c>> \in Holders
  /\ \A j \in Positions : <<"source", j>> \in Holders
  /\ <<"release", 1>> \in Holders
  /\ \A h \in Holders : \/ \E x \in Vars : h = <<"var", x>>
                        \/ \E c \in Cells : h = <<"next", c>>
                        \/ \E j \in Positions : h = <<"source", j>>
                        \/ h = <<"release", 1>>
BY DEF Holders

(* What is held, kind by kind, in a state. *)
LEMMA HeldAt ==
  /\ \A x \in Vars : held[<<"var", x>>] = IF Dangles(x) THEN None ELSE var[x]
  /\ \A c \in Cells : held[<<"next", c>>] = cell[c].next
  /\ \A j \in Positions : held[<<"source", j>>] =
       IF IsDue(j) /\ stmt.producer[j] THEN stmt.sources[j] ELSE None
  /\ held[<<"release", 1>>] = IF at \in {"freeing", "releasing"} THEN pointer.from ELSE None
BY HolderKinds DEF held

(* The same, after a step. *)
LEMMA HeldNext ==
  /\ \A x \in Vars : held'[<<"var", x>>] = IF Dangles(x)' THEN None ELSE var'[x]
  /\ \A c \in Cells : held'[<<"next", c>>] = cell'[c].next
  /\ \A j \in Positions : held'[<<"source", j>>] =
       IF IsDue(j)' /\ stmt'.producer[j] THEN stmt'.sources[j] ELSE None
  /\ held'[<<"release", 1>>] = IF at' \in {"freeing", "releasing"} THEN pointer'.from ELSE None
BY HolderKinds DEF held

(* What is held after a step, kind by kind. *)
LEMMA HeldBecomes ==
  ASSUME NEW g, g = [h \in Holders |-> g[h]],
         \A x \in Vars : g[<<"var", x>>] = IF Dangles(x)' THEN None ELSE var'[x],
         \A c \in Cells : g[<<"next", c>>] = cell'[c].next,
         \A j \in Positions : g[<<"source", j>>] =
           IF IsDue(j)' /\ stmt'.producer[j] THEN stmt'.sources[j] ELSE None,
         g[<<"release", 1>>] = IF at' \in {"freeing", "releasing"} THEN pointer'.from ELSE None
  PROVE  held' = g
<1>1. \A h \in Holders : held'[h] = g[h]
  <2>1. SUFFICES ASSUME NEW h \in Holders
                 PROVE  held'[h] = g[h]
    OBVIOUS
  <2>2. CASE \E x \in Vars : h = <<"var", x>>
    BY <2>2, HeldNext
  <2>3. CASE \E c \in Cells : h = <<"next", c>>
    BY <2>3, HeldNext
  <2>4. CASE \E j \in Positions : h = <<"source", j>>
    BY <2>4, HeldNext
  <2>5. CASE h = <<"release", 1>>
    BY <2>5, HeldNext
  <2>6. QED BY <2>2, <2>3, <2>4, <2>5, HolderKinds
<1>2. held' = [h \in Holders |-> held'[h]]
  BY DEF held
<1>3. QED BY <1>1, <1>2

(* Where values live. *)
LEMMA Disjoint ==
  /\ None \notin Cells /\ Slots \cap Buffers = {} /\ Slots \subseteq Cells /\ Buffers \subseteq Cells
  /\ \A x \in Vars : Memory(x) \subseteq Cells
  /\ \A x \in DataVars : Memory(x) = Slots
  /\ \A x \in Vars : x \notin DataVars => x \in BufferVars /\ Memory(x) = Buffers
  /\ DataVars \subseteq Vars /\ BufferVars \subseteq Vars /\ DataVars \cap BufferVars = {}
BY AssignmentAssumption DEF Cells, Memory, Vars

(* While a statement runs, it is at one of its targets. *)
LEMMA StatementFacts ==
  ASSUME StatementIsSound, at # "idle"
  PROVE  /\ stmt.targets \in Seq(Vars) /\ Len(stmt.targets) \in Nat /\ Len(stmt.targets) >= 1
         /\ DOMAIN stmt.targets = 1 .. Len(stmt.targets)
         /\ at_target \in Nat /\ 1 <= at_target /\ at_target <= Len(stmt.targets)
         /\ \A j \in DOMAIN stmt.targets : stmt.targets[j] \in Vars
         /\ Target \in Vars
<1>1. stmt.targets \in Seq(Vars) /\ stmt.targets # << >> /\ at_target \in DOMAIN stmt.targets
  BY AssignmentAssumption DEF StatementIsSound
<1>2. Len(stmt.targets) \in Nat /\ DOMAIN stmt.targets = 1 .. Len(stmt.targets)
  BY <1>1
<1>3. Len(stmt.targets) >= 1
  BY <1>1, <1>2
<1>4. \A j \in DOMAIN stmt.targets : stmt.targets[j] \in Vars
  BY <1>1
<1>5. QED BY <1>1, <1>2, <1>3, <1>4 DEF Target

(* The sources are of the kinds of their targets. *)
LEMMA SourceFacts ==
  ASSUME StatementIsSound
  PROVE  /\ Len(stmt.sources) \in Nat
         /\ DOMAIN stmt.sources = 1 .. Len(stmt.sources)
         /\ DOMAIN stmt.producer = 1 .. Len(stmt.sources)
         /\ \A j \in DOMAIN stmt.sources :
              /\ stmt.sources[j] \in Cells /\ stmt.producer[j] \in BOOLEAN
              /\ at # "idle" /\ IsData(j) => stmt.sources[j] \in Slots
              /\ at # "idle" /\ ~IsData(j) => stmt.sources[j] \in Buffers
         /\ at \notin {"idle", "evaluate"} => at_target \in DOMAIN stmt.sources /\ Source \in Memory(Target)
<1>1. /\ Len(stmt.sources) \in Nat /\ DOMAIN stmt.sources = 1 .. Len(stmt.sources)
      /\ DOMAIN stmt.producer = 1 .. Len(stmt.sources)
      /\ \A j \in DOMAIN stmt.sources : stmt.sources[j] \in Cells /\ stmt.producer[j] \in BOOLEAN
  BY DEF StatementIsSound
<1>2. ASSUME NEW j \in DOMAIN stmt.sources, at # "idle"
      PROVE  /\ IsData(j) => stmt.sources[j] \in Slots
             /\ ~IsData(j) => stmt.sources[j] \in Buffers
  <2>1. at \in {"evaluate", "retain", "free", "freeing", "clone", "release", "releasing"}
    BY <1>2 DEF StatementIsSound
  <2>2. Len(stmt.sources) <= Len(stmt.targets)
    BY <1>1, <1>2, <2>1, StatementFacts DEF StatementIsSound
  <2>3. stmt.targets[j] \in Vars
    BY <1>1, <1>2, <2>2, StatementFacts
  <2>4. stmt.sources[j] \in Memory(stmt.targets[j])
    BY DEF StatementIsSound
  <2>5. QED BY <2>3, <2>4, Disjoint DEF IsData
<1>3. ASSUME at \notin {"idle", "evaluate"}
      PROVE  at_target \in DOMAIN stmt.sources /\ Source \in Memory(Target)
  <2>1. Len(stmt.sources) = Len(stmt.targets) /\ at_target \in DOMAIN stmt.targets
    BY <1>3 DEF StatementIsSound
  <2>2. at_target \in DOMAIN stmt.sources
    BY <1>1, <1>3, <2>1, StatementFacts
  <2>3. QED BY <2>2 DEF StatementIsSound, Source, Target
<1>4. QED BY <1>1, <1>2, <1>3

(* What is allocated is free, and nobody holds or retains it. *)
LEMMA FreshIsFree ==
  ASSUME CellsAreSound, NEW x \in Vars, HasFresh(x)
  PROVE  /\ Fresh(x) \in Memory(x) /\ Fresh(x) \in Cells /\ ~Live(Fresh(x))
         /\ cell[Fresh(x)] = FreeCell /\ arcs[Fresh(x)] = 0
<1>1. Fresh(x) \in Memory(x) /\ ~Live(Fresh(x))
  BY DEF HasFresh, Fresh
<1>2. Fresh(x) \in Cells
  BY <1>1, Disjoint
<1>3. cell[Fresh(x)] = FreeCell
  BY <1>1, <1>2 DEF CellsAreSound, AreCells, Live
<1>4. QED BY <1>1, <1>2, <1>3 DEF arcs, FreeCell

(* What is held or retained is in use. *)
LEMMA HeldIsLive ==
  ASSUME CellsAreSound, IsCounted(arcs, held, retained), NEW c \in Cells,
         (\E o \in Holders : held[o] = c) \/ retained[c] # {}
  PROVE  Live(c) /\ arcs[c] \in Nat /\ arcs[c] > 0 /\ cell[c].arc = arcs[c]
<1>1. arcs[c] > 0 /\ arcs[c] \in Nat
  BY HeldCounts
<1>2. cell[c].arc = arcs[c]
  BY DEF arcs
<1>3. QED BY <1>1, <1>2 DEF CellsAreSound, AreCells, Live

(* A new value, and a field that gets one. *)
LEMMA CellsWithNew ==
  ASSUME NEW ce, AreCells(ce), NEW c \in Cells
  PROVE  AreCells([ce EXCEPT ![c] = NewCell])
<1>1. NewCell \in Cell /\ NewCell.live = TRUE /\ NewCell.arc = 1 /\ NewCell.next = None
  BY DEF NewCell, Cell
<1>2. QED BY <1>1 DEF AreCells

(* A field that is given a value. *)
LEMMA CellsWithNext ==
  ASSUME NEW ce, AreCells(ce), NEW c \in Slots, NEW d \in Slots, ce[d].live
  PROVE  AreCells([ce EXCEPT ![d].next = c])
<1> DEFINE g == [ce EXCEPT ![d].next = c]
<1>1. c \in Cells /\ d \in Cells
  BY Disjoint
<1>2. ce[d] \in [live : BOOLEAN, arc : Nat, next : Cells \cup {None}]
  BY <1>1 DEF AreCells, Cell
<1>3. g[d] \in Cell /\ g[d].live = ce[d].live /\ g[d].arc = ce[d].arc /\ g[d].next = c
  BY <1>1, <1>2 DEF Cell, AreCells
<1>4. \A e \in Cells : e # d => g[e] = ce[e]
  BY DEF AreCells
<1>5. g \in [Cells -> Cell]
  BY <1>1, <1>3, <1>4 DEF AreCells
<1> HIDE DEF g
<1>6. AreCells(g)
  BY <1>1, <1>3, <1>4, <1>5 DEF AreCells
<1>7. QED BY <1>6 DEF g

(* A release, and what it goes on with. *)
LEMMA ReleasedCells ==
  ASSUME AreCells(cell), NEW c \in Cells, Live(c), Release(c)
  PROVE  /\ AreCells(cell')
         /\ arcs' = [arcs EXCEPT ![c] = arcs[c] - 1]
         /\ \A d \in Cells : d # c => cell'[d] = cell[d]
         /\ cell'[c].next = IF arcs[c] = 1 THEN None ELSE cell[c].next
         /\ pointer' = [from |-> IF arcs[c] = 1 THEN cell[c].next ELSE None, into |-> None]
<1> DEFINE last == cell[c].arc = 1
           released == IF last THEN FreeCell ELSE [cell[c] EXCEPT !.arc = @ - 1]
<1>1. cell' = [cell EXCEPT ![c] = released]
  BY DEF Release
<1>2. pointer' = [Nowhere EXCEPT !.from = IF last THEN cell[c].next ELSE None]
  BY DEF Release
<1>3. /\ cell \in [Cells -> Cell] /\ cell[c] \in [live : BOOLEAN, arc : Nat, next : Cells \cup {None}]
      /\ cell[c].arc > 0 /\ cell[c].live = TRUE
  BY DEF AreCells, Live, Cell
<1>4. FreeCell \in Cell /\ FreeCell.arc = 0 /\ FreeCell.next = None /\ FreeCell.live = FALSE
  BY DEF FreeCell, Cell
<1>5. /\ released \in Cell /\ released.arc = cell[c].arc - 1
      /\ released.live <=> released.arc > 0
      /\ ~released.live => released = FreeCell
      /\ released.next = IF last THEN None ELSE cell[c].next
  <2>1. CASE last
    BY <2>1, <1>3, <1>4
  <2>2. CASE ~last
    <3>1. released = [cell[c] EXCEPT !.arc = @ - 1]
      BY <2>2
    <3>2. released.arc = cell[c].arc - 1 /\ released.live = TRUE /\ released.next = cell[c].next
      BY <1>3, <3>1
    <3>3. released \in Cell
      BY <1>3, <2>2, <3>1 DEF Cell
    <3>4. QED BY <1>3, <2>2, <3>2, <3>3
  <2>3. QED BY <2>1, <2>2
<1>6. arcs[c] = cell[c].arc
  BY DEF arcs
<1> HIDE DEF released
<1>7. cell'[c] = released /\ \A d \in Cells : d # c => cell'[d] = cell[d]
  BY <1>1, <1>3
<1>8. cell' \in [Cells -> Cell]
  BY <1>1, <1>3, <1>5
<1>9. AreCells(cell')
  <2>1. None \in (IF c \in Slots THEN Slots \cup {None} ELSE {None})
    OBVIOUS
  <2>2. QED BY <1>5, <1>7, <1>8, <2>1 DEF AreCells
<1>10. arcs' = [arcs EXCEPT ![c] = arcs[c] - 1]
  <2>1. arcs' = [d \in Cells |-> cell'[d].arc]
    BY DEF arcs
  <2>2. \A d \in Cells : cell'[d].arc = [arcs EXCEPT ![c] = arcs[c] - 1][d]
    BY <1>5, <1>6, <1>7 DEF arcs
  <2>3. QED BY <2>1, <2>2 DEF arcs
<1>11. pointer' = [from |-> IF last THEN cell[c].next ELSE None, into |-> None]
  BY <1>2 DEF Nowhere
<1>12. QED BY <1>5, <1>6, <1>7, <1>9, <1>10, <1>11

----------------------------------------
(* The steps. *)

(* What is retained after a step. *)
LEMMA RetainedBecomes ==
  ASSUME NEW s, s = [c \in Cells |-> s[c]],
         \A c \in Cells : s[c] = {j \in DOMAIN stmt'.sources : IsRetained(j)' /\ stmt'.sources[j] = c}
  PROVE  retained' = s
<1>1. retained' = [c \in Cells |-> {j \in DOMAIN stmt'.sources : IsRetained(j)' /\ stmt'.sources[j] = c}]
  BY DEF retained
<1>2. QED BY <1>1

(* Nothing is retained or let go of. *)
LEMMA RetainedIsSame ==
  ASSUME stmt'.sources = stmt.sources, \A j \in DOMAIN stmt.sources : IsRetained(j)' <=> IsRetained(j)
  PROVE  retained' = retained
<1>1. \A c \in Cells : retained[c] = {j \in DOMAIN stmt'.sources : IsRetained(j)' /\ stmt'.sources[j] = c}
  BY DEF retained
<1>2. retained = [c \in Cells |-> retained[c]]
  BY DEF retained
<1>3. QED BY <1>1, <1>2, RetainedBecomes

(* Nothing is retained before and after a step. *)
LEMMA NothingRetained ==
  ASSUME \A j \in DOMAIN stmt.sources : ~IsRetained(j), \A j \in DOMAIN stmt'.sources : ~IsRetained(j)'
  PROVE  retained' = retained /\ \A c \in Cells : retained[c] = {}
<1>1. \A c \in Cells : retained[c] = {}
  BY DEF retained
<1>2. \A c \in Cells : retained[c] = {j \in DOMAIN stmt'.sources : IsRetained(j)' /\ stmt'.sources[j] = c}
  BY <1>1
<1>3. retained = [c \in Cells |-> retained[c]]
  BY DEF retained
<1>4. QED BY <1>1, <1>2, <1>3, RetainedBecomes

(* For steps that hold what was held before. *)
LEMMA HeldIsAFunction == held = [h \in Holders |-> held[h]]
BY DEF held

(* Counts are part of the cells. *)
LEMMA ArcsAreSame == ASSUME cell' = cell PROVE arcs' = arcs
BY DEF arcs

(* Each step keeps the invariant. *)
LEMMA BeginStep ==
  ASSUME AssignmentInvariant, Begin
  PROVE  AssignmentInvariant'
<1>1. PICK targets \in TargetLists : stmt' = [NoStatement EXCEPT !.targets = targets]
  BY DEF Begin
<1>2. /\ at = "idle" /\ at' = "evaluate" /\ at_target' = 1
      /\ cell' = cell /\ var' = var /\ pointer' = pointer
  BY DEF Begin
<1>3. stmt = NoStatement /\ at_target = 1 /\ pointer = Nowhere
  BY <1>2 DEF AssignmentInvariant, StatementIsSound, PointerIsSound
<1>4. /\ stmt'.targets = targets /\ stmt'.sources = << >> /\ stmt'.producer = << >>
      /\ stmt.sources = << >> /\ stmt.producer = << >>
  BY <1>1, <1>3 DEF NoStatement
<1>5. CellsAreSound'
  BY <1>2 DEF AssignmentInvariant, CellsAreSound, Memory
<1>6. PointerIsSound'
  BY <1>2, <1>3 DEF AssignmentInvariant, PointerIsSound, Nowhere
<1>7. StatementIsSound'
  <2>1. targets \in Seq(Vars) /\ targets # << >>
    BY AssignmentAssumption
  <2>2. 1 \in DOMAIN targets
    BY <2>1
  <2>3. QED BY <1>1, <1>2, <1>4, <2>2 DEF StatementIsSound, NoStatement
<1>8. SourcesAreThere'
  BY <1>2, <1>4 DEF SourcesAreThere
<1>9. held' = held
  <2>1. \A x \in Vars : held[<<"var", x>>] = IF Dangles(x)' THEN None ELSE var'[x]
    BY <1>2, HeldAt DEF Dangles
  <2>2. \A c \in Cells : held[<<"next", c>>] = cell'[c].next
    BY <1>2, HeldAt
  <2>3. \A j \in Positions : held[<<"source", j>>] =
           IF IsDue(j)' /\ stmt'.producer[j] THEN stmt'.sources[j] ELSE None
    <3>1. DOMAIN stmt.sources = {} /\ DOMAIN stmt'.sources = {}
      BY <1>4
    <3>2. \A j \in Positions : ~IsDue(j) /\ ~IsDue(j)'
      BY <3>1 DEF IsDue
    <3>3. QED BY <3>2, HeldAt
  <2>4. held[<<"release", 1>>] = IF at' \in {"freeing", "releasing"} THEN pointer'.from ELSE None
    BY <1>2, HeldAt
  <2>5. QED BY <2>1, <2>2, <2>3, <2>4, HeldIsAFunction, HeldBecomes
<1>10. retained' = retained
  BY <1>4, NothingRetained
<1>11. IsCounted(arcs, held, retained)'
  BY <1>2, <1>9, <1>10, ArcsAreSame DEF AssignmentInvariant, IsCounted
<1>12. QED BY <1>5, <1>6, <1>7, <1>8, <1>11 DEF AssignmentInvariant

(* A new value, in the field of another. *)
LEMMA NewFieldCells ==
  ASSUME CellsAreSound, NEW x \in DataVars, HasFresh(x), NEW d \in Slots, Live(d),
         cell' = [cell EXCEPT ![Fresh(x)] = NewCell, ![d].next = Fresh(x)]
  PROVE  /\ AreCells(cell')
         /\ arcs' = [arcs EXCEPT ![Fresh(x)] = 1]
         /\ Fresh(x) \in Slots /\ Fresh(x) # d /\ arcs[Fresh(x)] = 0 /\ cell[Fresh(x)].next = None
         /\ cell'[Fresh(x)] = NewCell /\ cell'[d].next = Fresh(x) /\ cell'[d].live = cell[d].live
         /\ \A e \in Cells : e # Fresh(x) /\ e # d => cell'[e] = cell[e]
<1> DEFINE c == Fresh(x)
<1>1. c \in Slots /\ c \in Cells /\ cell[c] = FreeCell /\ arcs[c] = 0 /\ d \in Cells /\ ~Live(c)
  BY FreshIsFree, Disjoint DEF CellsAreSound
<1>2. c # d
  BY <1>1
<1> HIDE DEF c
<1>3. cell' = [[cell EXCEPT ![c] = NewCell] EXCEPT ![d].next = c]
  BY <1>1, <1>2 DEF CellsAreSound, AreCells, c
<1>4. AreCells(cell')
  <2> DEFINE ce == [cell EXCEPT ![c] = NewCell]
  <2>1. AreCells(ce)
    BY <1>1, CellsWithNew DEF CellsAreSound
  <2>2. ce[d].live
    BY <1>1, <1>2 DEF CellsAreSound, AreCells, Live
  <2> HIDE DEF ce
  <2>3. AreCells([ce EXCEPT ![d].next = c])
    BY <1>1, <2>1, <2>2, CellsWithNext
  <2>4. QED BY <1>3, <2>3 DEF ce
<1>5. /\ cell'[c] = NewCell /\ cell'[d].next = c /\ cell'[d].arc = cell[d].arc /\ cell'[d].live = cell[d].live
      /\ \A e \in Cells : e # c /\ e # d => cell'[e] = cell[e]
  <2>1. cell \in [Cells -> Cell] /\ cell[d] \in Cell
    BY <1>1 DEF CellsAreSound, AreCells
  <2>2. cell'[c] = NewCell
    BY <1>1, <1>2, <1>3, <2>1
  <2>3. cell'[d] = [cell[d] EXCEPT !.next = c]
    BY <1>1, <1>2, <1>3, <2>1
  <2>4. \A e \in Cells : e # c /\ e # d => cell'[e] = cell[e]
    BY <1>3, <2>1
  <2>5. cell[d] \in [live : BOOLEAN, arc : Nat, next : Cells \cup {None}]
    BY <2>1 DEF Cell
  <2>6. cell'[d].next = c /\ cell'[d].arc = cell[d].arc /\ cell'[d].live = cell[d].live
    BY <2>3, <2>5
  <2>7. QED BY <2>2, <2>4, <2>6
<1>6. arcs' = [arcs EXCEPT ![c] = 1]
  <2>1. arcs' = [e \in Cells |-> cell'[e].arc]
    BY DEF arcs
  <2>2. cell'[c].arc = 1
    BY <1>5 DEF NewCell
  <2>3. \A e \in Cells : cell'[e].arc = IF e = c THEN 1 ELSE cell[e].arc
    <3>1. \A e \in Cells : e # c => cell'[e].arc = cell[e].arc
      BY <1>5
    <3>2. QED BY <2>2, <3>1
  <2>4. QED BY <1>1, <2>1, <2>3 DEF arcs
<1>7. cell[c].next = None
  BY <1>1 DEF FreeCell
<1>8. QED BY <1>1, <1>2, <1>4, <1>5, <1>6, <1>7 DEF c

(* The field of the last value takes the new one. *)
LEMMA ExtendStep ==
  ASSUME AssignmentInvariant, NEW x \in DataVars, Extend(x)
  PROVE  AssignmentInvariant'
<1> DEFINE c == Fresh(x)
           d == var[x]
<1>1. /\ at = "idle" /\ cell[d].next = None /\ HasFresh(x)
      /\ cell' = [cell EXCEPT ![c] = NewCell, ![d].next = c]
      /\ var' = var /\ stmt' = stmt /\ at' = at /\ at_target' = at_target /\ pointer' = pointer
  BY DEF Extend
<1>2. stmt = NoStatement /\ stmt.sources = << >> /\ stmt.producer = << >>
  BY <1>1 DEF AssignmentInvariant, StatementIsSound, NoStatement
<1>3. c \in Slots /\ c \in Cells /\ cell[c] = FreeCell /\ arcs[c] = 0 /\ d \in Slots /\ d \in Cells /\ x \in Vars
  BY <1>1, FreshIsFree, Disjoint DEF AssignmentInvariant, CellsAreSound
<1>4. held[<<"var", x>>] = d /\ <<"var", x>> \in Holders
  BY <1>1, <1>3, HeldAt, HolderKinds DEF Dangles
<1>5. Live(d) /\ arcs[d] = cell[d].arc /\ arcs[d] > 0
  BY <1>3, <1>4, HeldIsLive DEF AssignmentInvariant
<1>6. /\ AreCells(cell') /\ arcs' = [arcs EXCEPT ![c] = 1]
      /\ c # d /\ cell[c].next = None /\ cell'[c] = NewCell /\ cell'[d].next = c
      /\ \A e \in Cells : e # c /\ e # d => cell'[e] = cell[e]
  BY <1>1, <1>3, <1>5, NewFieldCells DEF AssignmentInvariant
<1> HIDE DEF c, d
<1>10. CellsAreSound'
  BY <1>1, <1>6 DEF AssignmentInvariant, CellsAreSound, Memory
<1>11. PointerIsSound'
  BY <1>1 DEF AssignmentInvariant, PointerIsSound
<1>12. StatementIsSound'
  BY <1>1 DEF AssignmentInvariant, StatementIsSound, IsGroup, Memory
<1>13. SourcesAreThere'
  BY <1>1, <1>2 DEF SourcesAreThere
<1>14. held' = [held EXCEPT ![<<"next", d>>] = c]
  <2> DEFINE g == [held EXCEPT ![<<"next", d>>] = c]
  <2>1. g = [h \in Holders |-> g[h]]
    BY DEF held
  <2>2. \A h \in Holders : g[h] = IF h = <<"next", d>> THEN c ELSE held[h]
    BY DEF held
  <2> HIDE DEF g
  <2>3. \A y \in Vars : g[<<"var", y>>] = IF Dangles(y)' THEN None ELSE var'[y]
    BY <1>1, <2>2, HeldAt, HolderKinds DEF Dangles
  <2>4. \A e \in Cells : g[<<"next", e>>] = cell'[e].next
    <3>1. cell[c].next = None /\ cell'[c].next = None
      BY <1>6 DEF NewCell
    <3>2. QED BY <1>6, <2>2, <3>1, HeldAt, HolderKinds
  <2>5. \A j \in Positions : g[<<"source", j>>] =
           IF IsDue(j)' /\ stmt'.producer[j] THEN stmt'.sources[j] ELSE None
    <3>1. DOMAIN stmt.sources = {} /\ DOMAIN stmt'.sources = {}
      BY <1>1, <1>2
    <3>2. \A j \in Positions : ~IsDue(j) /\ ~IsDue(j)'
      BY <3>1 DEF IsDue
    <3>3. QED BY <2>2, <3>2, HeldAt, HolderKinds
  <2>6. g[<<"release", 1>>] = IF at' \in {"freeing", "releasing"} THEN pointer'.from ELSE None
    BY <1>1, <2>2, HeldAt, HolderKinds
  <2>7. held' = g
    BY <2>1, <2>3, <2>4, <2>5, <2>6, HeldBecomes
  <2>8. QED BY <2>7 DEF g
<1>15. retained' = retained
  BY <1>1, <1>2, NothingRetained
<1>17. IsCounted(arcs, held, retained)'
  <2>1. <<"next", d>> \in Holders /\ held[<<"next", d>>] = None
    BY <1>1, <1>3, HeldAt, HolderKinds DEF d
  <2>2. IsCounted([arcs EXCEPT ![c] = 1], [held EXCEPT ![<<"next", d>>] = c], retained)
    BY <1>3, <2>1, TakeCell DEF AssignmentInvariant
  <2>3. QED BY <1>6, <1>14, <1>15, <2>2 DEF IsCounted
<1>18. QED BY <1>10, <1>11, <1>12, <1>13, <1>17 DEF AssignmentInvariant

(* A source has been evaluated. *)
LEMMA EvaluatedFacts ==
  ASSUME StatementIsSound, at = "evaluate", NEW c \in Memory(Target), NEW producer \in BOOLEAN,
         NEW length, Evaluated(c, producer, length)
  PROVE  /\ StatementIsSound'
         /\ stmt'.targets = stmt.targets /\ IsGroup' = IsGroup
         /\ Len(stmt'.sources) = at_target
         /\ \A j \in 1 .. at_target :
              /\ stmt'.sources[j] = IF j = at_target THEN c ELSE stmt.sources[j]
              /\ stmt'.producer[j] = IF j = at_target THEN producer ELSE stmt.producer[j]
         /\ at' \in {"evaluate", "retain", "free"} /\ pointer' = pointer /\ var' = var
         /\ at' = "free" => ~IsGroup /\ at_target = 1 /\ at_target' = 1
<1>1. /\ stmt' = [stmt EXCEPT !.sources = Append(stmt.sources, c), !.producer = Append(stmt.producer, producer),
                              !.wanted = Append(stmt.wanted, length)]
      /\ var' = var /\ pointer' = pointer
  BY DEF Evaluated
<1>2. /\ DOMAIN stmt = {"targets", "sources", "producer", "wanted"}
      /\ stmt.sources \in Seq(Cells) /\ stmt.producer \in Seq(BOOLEAN) /\ Len(stmt.sources) = at_target - 1
      /\ Len(stmt.producer) = at_target - 1 /\ stmt.targets \in TargetLists
      /\ \A j \in DOMAIN stmt.sources : stmt.sources[j] \in Memory(stmt.targets[j])
  BY DEF StatementIsSound
<1>3. /\ DOMAIN stmt' = {"targets", "sources", "producer", "wanted"} /\ stmt'.targets = stmt.targets
      /\ stmt'.sources = Append(stmt.sources, c) /\ stmt'.producer = Append(stmt.producer, producer)
  BY <1>1, <1>2
<1>4. /\ at_target \in Nat /\ 1 <= at_target /\ at_target <= Len(stmt.targets) /\ Len(stmt.targets) \in Nat
      /\ Target \in Vars /\ DOMAIN stmt.targets = 1 .. Len(stmt.targets)
  BY StatementFacts
<1>5. c \in Cells
  BY <1>4, Disjoint
<1>6. /\ stmt'.sources \in Seq(Cells) /\ Len(stmt'.sources) = at_target
      /\ stmt'.producer \in Seq(BOOLEAN) /\ Len(stmt'.producer) = at_target
      /\ DOMAIN stmt'.sources = 1 .. at_target
  BY <1>2, <1>3, <1>4, <1>5
<1>7. \A j \in 1 .. at_target :
              /\ stmt'.sources[j] = IF j = at_target THEN c ELSE stmt.sources[j]
              /\ stmt'.producer[j] = IF j = at_target THEN producer ELSE stmt.producer[j]
  BY <1>2, <1>3, <1>4, <1>5
<1>8. IsGroup' <=> IsGroup
  BY <1>3 DEF IsGroup
<1>9. \A j \in DOMAIN stmt'.sources : stmt'.sources[j] \in Memory(stmt'.targets[j])
  <2>1. SUFFICES ASSUME NEW j \in 1 .. at_target
                 PROVE  stmt'.sources[j] \in Memory(stmt.targets[j])
    BY <1>3, <1>6
  <2>2. CASE j = at_target
    BY <1>7, <2>2 DEF Target
  <2>3. CASE j # at_target
    <3>1. j \in DOMAIN stmt.sources
      BY <1>2, <1>4, <2>3
    <3>2. QED BY <1>2, <1>7, <2>3, <3>1
  <2>4. QED BY <2>2, <2>3
<1>10. CASE at_target < Len(stmt.targets)
  <2>1. at_target' = at_target + 1 /\ at' = "evaluate"
    BY <1>10 DEF Evaluated
  <2>2. StatementIsSound'
    BY <1>2, <1>3, <1>4, <1>6, <1>9, <1>10, <2>1 DEF StatementIsSound, Memory
  <2>3. QED BY <1>1, <1>3, <1>6, <1>7, <1>8, <2>1, <2>2 DEF IsGroup
<1>11. CASE ~(at_target < Len(stmt.targets))
  <2>1. at_target' = 1 /\ at' = IF IsGroup THEN "retain" ELSE "free"
    BY <1>11 DEF Evaluated
  <2>2. at_target = Len(stmt.targets) /\ (~IsGroup => at_target = 1)
    BY <1>4, <1>11 DEF IsGroup
  <2>3. StatementIsSound'
    BY <1>2, <1>3, <1>4, <1>6, <1>8, <1>9, <2>1, <2>2 DEF StatementIsSound, Memory
  <2>4. QED BY <1>1, <1>3, <1>6, <1>7, <1>8, <2>1, <2>2, <2>3 DEF IsGroup
<1>12. QED BY <1>10, <1>11

(* The value of a producer is held until it is stored. *)
LEMMA EvaluatedHeld ==
  ASSUME StatementIsSound, PointerIsSound, at = "evaluate", NEW c \in Memory(Target),
         NEW producer \in BOOLEAN, NEW length, Evaluated(c, producer, length),
         \A e \in Cells : cell'[e].next = cell[e].next
  PROVE  /\ held' = [held EXCEPT ![<<"source", at_target>>] = IF producer THEN c ELSE None]
         /\ <<"source", at_target>> \in Holders /\ held[<<"source", at_target>>] = None
         /\ retained' = retained
<1> DEFINE o == <<"source", at_target>>
           g == [held EXCEPT ![o] = IF producer THEN c ELSE None]
<1>1. /\ stmt'.targets = stmt.targets /\ (IsGroup' <=> IsGroup) /\ Len(stmt'.sources) = at_target
      /\ \A j \in 1 .. at_target :
              /\ stmt'.sources[j] = IF j = at_target THEN c ELSE stmt.sources[j]
              /\ stmt'.producer[j] = IF j = at_target THEN producer ELSE stmt.producer[j]
      /\ at' \in {"evaluate", "retain", "free"} /\ pointer' = pointer /\ var' = var
      /\ at' = "free" => ~IsGroup /\ at_target = 1 /\ at_target' = 1
      /\ StatementIsSound'
  BY EvaluatedFacts
<1>2. at_target \in Nat /\ 1 <= at_target
  BY StatementFacts
<1>3. DOMAIN stmt.sources = 1 .. (at_target - 1) /\ DOMAIN stmt'.sources = 1 .. at_target
  <2>1. DOMAIN stmt.sources = 1 .. Len(stmt.sources) /\ Len(stmt.sources) = at_target - 1
    BY SourceFacts DEF StatementIsSound
  <2>2. stmt'.sources \in Seq(Cells)
    BY <1>1 DEF StatementIsSound
  <2>3. QED BY <1>1, <2>1, <2>2
<1>4. o \in Holders /\ at_target \in Positions
  BY <1>2, HolderKinds DEF Positions
<1>5. \A j \in Positions : IsDue(j) <=> j \in 1 .. (at_target - 1)
  BY <1>3 DEF IsDue, Evaluating
<1>6. \A j \in Positions : IsDue(j)' <=> j \in 1 .. at_target
  BY <1>1, <1>2, <1>3 DEF IsDue, Evaluating, Assigning
<1>7. held[o] = None
  BY <1>2, <1>4, <1>5, HeldAt
<1>8. held' = g
  <2>1. g = [h \in Holders |-> g[h]]
    BY DEF held
  <2>2. \A h \in Holders : g[h] = IF h = o THEN (IF producer THEN c ELSE None) ELSE held[h]
    BY DEF held
  <2> HIDE DEF g
  <2>3. \A y \in Vars : g[<<"var", y>>] = IF Dangles(y)' THEN None ELSE var'[y]
    <3>1. \A y \in Vars : ~Dangles(y) /\ ~Dangles(y)'
      BY <1>1 DEF Dangles
    <3>2. QED BY <1>1, <2>2, <3>1, HeldAt, HolderKinds
  <2>4. \A e \in Cells : g[<<"next", e>>] = cell'[e].next
    BY <2>2, HeldAt, HolderKinds
  <2>5. \A j \in Positions : g[<<"source", j>>] =
           IF IsDue(j)' /\ stmt'.producer[j] THEN stmt'.sources[j] ELSE None
    <3>1. SUFFICES ASSUME NEW j \in Positions
                   PROVE  g[<<"source", j>>] = IF IsDue(j)' /\ stmt'.producer[j] THEN stmt'.sources[j] ELSE None
      OBVIOUS
    <3>2. CASE j = at_target
      <4>1. g[<<"source", j>>] = IF producer THEN c ELSE None
        BY <2>2, <3>2, <1>4
      <4>2. IsDue(j)' /\ stmt'.producer[j] = producer /\ stmt'.sources[j] = c
        BY <1>1, <1>2, <1>6, <3>2
      <4>3. QED BY <4>1, <4>2
    <3>3. CASE j # at_target
      <4>1. g[<<"source", j>>] = IF IsDue(j) /\ stmt.producer[j] THEN stmt.sources[j] ELSE None
        BY <2>2, <3>3, HeldAt, HolderKinds
      <4>2. CASE j \in 1 .. at_target
        <5>1. j \in 1 .. (at_target - 1)
          BY <1>2, <3>3, <4>2
        <5>2. IsDue(j) /\ IsDue(j)' /\ stmt'.producer[j] = stmt.producer[j] /\ stmt'.sources[j] = stmt.sources[j]
          BY <1>1, <1>5, <1>6, <3>3, <4>2, <5>1
        <5>3. QED BY <4>1, <5>2
      <4>3. CASE j \notin 1 .. at_target
        <5>1. ~IsDue(j) /\ ~IsDue(j)'
          BY <1>2, <1>5, <1>6, <4>3
        <5>2. QED BY <4>1, <5>1
      <4>4. QED BY <4>2, <4>3
    <3>4. QED BY <3>2, <3>3
  <2>6. g[<<"release", 1>>] = IF at' \in {"freeing", "releasing"} THEN pointer'.from ELSE None
    BY <1>1, <2>2, HeldAt, HolderKinds
  <2>7. QED BY <2>1, <2>3, <2>4, <2>5, <2>6, HeldBecomes
<1>9. retained' = retained
  <2>1. \A j \in DOMAIN stmt.sources : ~IsRetained(j)
    BY DEF IsRetained, Assigning
  <2>2. \A j \in DOMAIN stmt'.sources : ~IsRetained(j)'
    BY <1>1 DEF IsRetained, Assigning
  <2>3. QED BY <2>1, <2>2, NothingRetained
<1>10. QED BY <1>4, <1>7, <1>8, <1>9

(* Without overlapping forms, a variable that is read and not retained is
   none of the targets up to its own. *)
LEMMA EvaluateVariableStep ==
  ASSUME AssignmentInvariant, Overlapping = {}, NEW y \in Vars, EvaluateVariable(y)
  PROVE  AssignmentInvariant'
<1>1. /\ at = "evaluate" /\ Memory(y) = Memory(Target) /\ cell' = cell
      /\ ~ReadsWhatItFrees(y)
  BY DEF EvaluateVariable
<1>2. PICK c \in {var[y], cell[var[y]].next} \ {None} : Evaluated(c, FALSE, Length(c))
  BY DEF EvaluateVariable
<1>3. var[y] \in Memory(y) /\ var[y] \in Cells /\ Target \in Vars /\ at_target \in Nat /\ 1 <= at_target
  BY <1>1, StatementFacts, Disjoint DEF AssignmentInvariant, CellsAreSound
<1>4. cell[var[y]].next \in (IF var[y] \in Slots THEN Slots \cup {None} ELSE {None})
  BY <1>3 DEF AssignmentInvariant, CellsAreSound, AreCells
<1>5. c \in Memory(Target) /\ (~(Target \in DataVars) => y \in BufferVars /\ c = var[y])
  <2>1. CASE Target \in DataVars
    BY <1>1, <1>2, <1>3, <1>4, <2>1, Disjoint
  <2>2. CASE Target \notin DataVars
    <3>1. Memory(Target) = Buffers /\ var[y] \in Buffers
      BY <1>1, <1>3, <2>2, Disjoint
    <3>2. y \notin DataVars /\ var[y] \notin Slots
      BY <1>1, <1>3, <3>1, Disjoint
    <3>3. QED BY <1>2, <1>3, <1>4, <3>1, <3>2, Disjoint, <1>1
  <2>3. QED BY <2>1, <2>2
<1>6. /\ StatementIsSound' /\ stmt'.targets = stmt.targets /\ (IsGroup' <=> IsGroup) /\ Len(stmt'.sources) = at_target
      /\ \A j \in 1 .. at_target :
              /\ stmt'.sources[j] = IF j = at_target THEN c ELSE stmt.sources[j]
              /\ stmt'.producer[j] = IF j = at_target THEN FALSE ELSE stmt.producer[j]
      /\ at' \in {"evaluate", "retain", "free"} /\ pointer' = pointer /\ var' = var
      /\ at' = "free" => ~IsGroup /\ at_target = 1 /\ at_target' = 1
  BY <1>1, <1>2, <1>5, EvaluatedFacts DEF AssignmentInvariant
<1>7. held' = [held EXCEPT ![<<"source", at_target>>] = None] /\ retained' = retained
      /\ <<"source", at_target>> \in Holders /\ held[<<"source", at_target>>] = None
  <2>1. held' = [held EXCEPT ![<<"source", at_target>>] = IF FALSE THEN c ELSE None]
        /\ retained' = retained /\ <<"source", at_target>> \in Holders /\ held[<<"source", at_target>>] = None
    BY <1>1, <1>2, <1>5, EvaluatedHeld DEF AssignmentInvariant
  <2>2. QED BY <2>1
<1>8. held' = held
  <2>1. held = [h \in Holders |-> held[h]]
    BY HeldIsAFunction
  <2>2. QED BY <1>7, <2>1
<1>9. Live(c) /\ c \in Cells
  <2>1. held[<<"var", y>>] = var[y] /\ <<"var", y>> \in Holders
    BY <1>1, HeldAt, HolderKinds DEF Dangles
  <2>2. held[<<"next", var[y]>>] = cell[var[y]].next /\ <<"next", var[y]>> \in Holders
    BY <1>3, HeldAt, HolderKinds
  <2>3. c \in Cells
    BY <1>2, <1>3, <1>4, Disjoint
  <2>4. QED BY <1>2, <2>1, <2>2, <2>3, HeldIsLive DEF AssignmentInvariant
<1>10. CellsAreSound'
  BY <1>1, <1>6 DEF AssignmentInvariant, CellsAreSound, Memory
<1>11. PointerIsSound'
  BY <1>1, <1>6 DEF AssignmentInvariant, PointerIsSound, Nowhere
<1>12. DOMAIN stmt'.sources = 1 .. at_target /\ DOMAIN stmt.sources = 1 .. (at_target - 1)
  <2>1. stmt'.sources \in Seq(Cells)
    BY <1>6 DEF StatementIsSound
  <2>2. Len(stmt.sources) = at_target - 1
    BY <1>1 DEF AssignmentInvariant, StatementIsSound
  <2>3. QED BY <1>6, <2>1, <2>2, SourceFacts DEF AssignmentInvariant
<1>13. \A j \in DOMAIN stmt'.sources : j # at_target => j \in DOMAIN stmt.sources
  BY <1>3, <1>12
<1>14. SourcesAreThere'
  <2>1. ASSUME NEW j \in DOMAIN stmt'.sources
        PROVE  Live(stmt'.sources[j])
    <3>1. CASE j = at_target
      BY <1>6, <1>9, <1>12, <3>1
    <3>2. CASE j # at_target
      BY <1>1, <1>6, <1>12, <1>13, <3>2 DEF AssignmentInvariant, SourcesAreThere
    <3>3. QED BY <3>1, <3>2
  <2>2. ASSUME NEW j \in DOMAIN stmt'.sources, IsDue(j)', ~stmt'.producer[j], ~IsData(j)'
        PROVE  \E z \in Vars : Behind(z, j)' /\ stmt'.sources[j] = var'[z]
    <3>1. ~IsData(j)
      BY <1>6, <2>2 DEF IsData
    <3>2. CASE j = at_target
      <4>1. y \in BufferVars /\ c = var[y]
        BY <1>5, <3>1, <3>2 DEF IsData, Target
      <4>2. Behind(y, j)'
        BY <1>1, <1>6, <3>2, <4>1 DEF ReadsWhatItFrees, Behind
      <4>3. QED BY <1>6, <1>12, <3>2, <4>1, <4>2
    <3>3. CASE j # at_target
      <4>1. j \in DOMAIN stmt.sources /\ IsDue(j)
        BY <1>1, <1>13, <3>3 DEF IsDue, Evaluating
      <4>2. PICK z \in Vars : Behind(z, j) /\ stmt.sources[j] = var[z]
        BY <1>6, <1>12, <2>2, <3>1, <3>3, <4>1 DEF AssignmentInvariant, SourcesAreThere
      <4>3. Behind(z, j)'
        BY <1>6, <4>2 DEF Behind
      <4>4. QED BY <1>6, <1>12, <3>3, <4>2, <4>3
    <3>4. QED BY <3>2, <3>3
  <2>3. ASSUME ~IsGroup', at' \in {"free", "freeing"}, ~stmt'.producer[1]
        PROVE  \E z \in Vars : Behind(z, 1)' /\ stmt'.sources[1] \in {var'[z], cell'[var'[z]].next}
    <3>1. at_target = 1 /\ ~IsGroup
      BY <1>6, <2>3
    <3>2. Behind(y, 1)'
      BY <1>1, <1>6, <3>1 DEF ReadsWhatItFrees, Behind
    <3>3. stmt'.sources[1] = c
      BY <1>6, <3>1
    <3>4. QED BY <1>1, <1>2, <1>6, <3>2, <3>3
  <2>4. \A c2 \in Cells : Live(c2)' <=> Live(c2)
    BY <1>1 DEF Live
  <2>5. \A j \in DOMAIN stmt'.sources : stmt'.sources[j] \in Cells
    BY <1>6 DEF StatementIsSound
  <2>6. QED BY <2>1, <2>2, <2>3, <2>4, <2>5 DEF SourcesAreThere
<1>15. IsCounted(arcs, held, retained)'
  BY <1>1, <1>7, <1>8, ArcsAreSame DEF AssignmentInvariant, IsCounted
<1>16. QED BY <1>6, <1>10, <1>11, <1>14, <1>15 DEF AssignmentInvariant

(* One new value. *)
LEMMA NewCells ==
  ASSUME CellsAreSound, NEW x \in Vars, HasFresh(x), cell' = [cell EXCEPT ![Fresh(x)] = NewCell]
  PROVE  /\ AreCells(cell')
         /\ arcs' = [arcs EXCEPT ![Fresh(x)] = 1]
         /\ \A e \in Cells : cell'[e].next = cell[e].next /\ (Live(e) => Live(e)' /\ cell'[e] = cell[e])
         /\ cell'[Fresh(x)].live /\ cell'[Fresh(x)] = NewCell
<1> DEFINE c == Fresh(x)
<1>1. c \in Cells /\ ~Live(c) /\ cell[c] = FreeCell /\ cell \in [Cells -> Cell]
  BY FreshIsFree DEF CellsAreSound, AreCells
<1> HIDE DEF c
<1>2. cell' = [cell EXCEPT ![c] = NewCell]
  BY DEF c
<1>3. AreCells(cell')
  <2>1. AreCells([cell EXCEPT ![c] = NewCell])
    BY <1>1, CellsWithNew DEF CellsAreSound
  <2>2. QED BY <1>2, <2>1 DEF AreCells
<1>4. cell'[c] = NewCell /\ \A e \in Cells : e # c => cell'[e] = cell[e]
  BY <1>1, <1>2
<1>5. arcs' = [arcs EXCEPT ![c] = 1]
  <2>1. arcs' = [e \in Cells |-> cell'[e].arc]
    BY DEF arcs
  <2>2. \A e \in Cells : cell'[e].arc = [arcs EXCEPT ![c] = 1][e]
    BY <1>1, <1>4 DEF arcs, NewCell
  <2>3. QED BY <2>1, <2>2 DEF arcs
<1>6. \A e \in Cells : cell'[e].next = cell[e].next /\ (Live(e) => Live(e)' /\ cell'[e] = cell[e])
  BY <1>1, <1>4 DEF Live, FreeCell, NewCell
<1>7. cell'[c].live
  BY <1>4 DEF NewCell
<1>8. QED BY <1>3, <1>4, <1>5, <1>6, <1>7 DEF c

(* A producer makes its value before anything is freed. *)
LEMMA EvaluateProducerStep ==
  ASSUME AssignmentInvariant, EvaluateProducer
  PROVE  AssignmentInvariant'
<1> DEFINE c == Fresh(Target)
<1>1. at = "evaluate" /\ HasFresh(Target) /\ cell' = [cell EXCEPT ![c] = NewCell] /\ Evaluated(c, TRUE, 1)
  BY DEF EvaluateProducer
<1>2. Target \in Vars /\ at_target \in Nat /\ 1 <= at_target
  BY <1>1, StatementFacts DEF AssignmentInvariant
<1>3. c \in Memory(Target) /\ c \in Cells /\ arcs[c] = 0
  BY <1>1, <1>2, FreshIsFree DEF AssignmentInvariant
<1>4. /\ AreCells(cell') /\ arcs' = [arcs EXCEPT ![c] = 1]
      /\ \A e \in Cells : cell'[e].next = cell[e].next /\ (Live(e) => Live(e)')
      /\ cell'[c].live
  BY <1>1, <1>2, NewCells DEF AssignmentInvariant
<1> HIDE DEF c
<1>6. /\ StatementIsSound' /\ stmt'.targets = stmt.targets /\ (IsGroup' <=> IsGroup) /\ Len(stmt'.sources) = at_target
      /\ \A j \in 1 .. at_target :
              /\ stmt'.sources[j] = IF j = at_target THEN c ELSE stmt.sources[j]
              /\ stmt'.producer[j] = IF j = at_target THEN TRUE ELSE stmt.producer[j]
      /\ at' \in {"evaluate", "retain", "free"} /\ pointer' = pointer /\ var' = var
      /\ at' = "free" => ~IsGroup /\ at_target = 1 /\ at_target' = 1
  BY <1>1, <1>3, EvaluatedFacts DEF AssignmentInvariant
<1>7. held' = [held EXCEPT ![<<"source", at_target>>] = c] /\ retained' = retained
      /\ <<"source", at_target>> \in Holders /\ held[<<"source", at_target>>] = None
  <2>1. held' = [held EXCEPT ![<<"source", at_target>>] = IF TRUE THEN c ELSE None]
        /\ retained' = retained /\ <<"source", at_target>> \in Holders /\ held[<<"source", at_target>>] = None
    BY <1>1, <1>3, <1>4, EvaluatedHeld DEF AssignmentInvariant
  <2>2. QED BY <2>1
<1>10. CellsAreSound'
  BY <1>4, <1>6 DEF AssignmentInvariant, CellsAreSound, Memory
<1>11. PointerIsSound'
  BY <1>1, <1>6 DEF AssignmentInvariant, PointerIsSound, Nowhere
<1>12. DOMAIN stmt'.sources = 1 .. at_target /\ DOMAIN stmt.sources = 1 .. (at_target - 1)
  <2>1. stmt'.sources \in Seq(Cells)
    BY <1>6 DEF StatementIsSound
  <2>2. Len(stmt.sources) = at_target - 1
    BY <1>1 DEF AssignmentInvariant, StatementIsSound
  <2>3. QED BY <1>6, <2>1, <2>2, SourceFacts DEF AssignmentInvariant
<1>13. \A j \in DOMAIN stmt'.sources : j # at_target => j \in DOMAIN stmt.sources
  BY <1>2, <1>12
<1>14. SourcesAreThere'
  <2>1. ASSUME NEW j \in DOMAIN stmt'.sources
        PROVE  cell'[stmt'.sources[j]].live
    <3>1. CASE j = at_target
      BY <1>4, <1>6, <1>12, <3>1 DEF Live
    <3>2. CASE j # at_target
      <4>1. Live(stmt.sources[j]) /\ stmt.sources[j] \in Cells
        BY <1>1, <1>13, <3>2, SourceFacts DEF AssignmentInvariant, SourcesAreThere
      <4>2. stmt'.sources[j] = stmt.sources[j]
        BY <1>6, <1>12, <3>2
      <4>3. QED BY <1>4, <4>1, <4>2 DEF Live
    <3>3. QED BY <3>1, <3>2
  <2>2. ASSUME NEW j \in DOMAIN stmt'.sources, IsDue(j)', ~stmt'.producer[j], ~IsData(j)'
        PROVE  \E z \in Vars : Behind(z, j)' /\ stmt'.sources[j] = var'[z]
    <3>1. ~IsData(j)
      BY <1>6, <2>2 DEF IsData
    <3>2. CASE j = at_target
      BY <1>6, <1>12, <2>2, <3>2
    <3>3. CASE j # at_target
      <4>1. j \in DOMAIN stmt.sources /\ IsDue(j)
        BY <1>1, <1>13, <3>3 DEF IsDue, Evaluating
      <4>2. PICK z \in Vars : Behind(z, j) /\ stmt.sources[j] = var[z]
        BY <1>6, <1>12, <2>2, <3>1, <3>3, <4>1 DEF AssignmentInvariant, SourcesAreThere
      <4>3. Behind(z, j)'
        BY <1>6, <4>2 DEF Behind
      <4>4. QED BY <1>6, <1>12, <3>3, <4>2, <4>3
    <3>4. QED BY <3>2, <3>3
  <2>3. ~(~IsGroup' /\ at' \in {"free", "freeing"} /\ ~stmt'.producer[1])
    <3>1. CASE at' \in {"free", "freeing"}
      <4>1. at_target = 1 /\ 1 \in 1 .. at_target
        BY <1>6, <3>1
      <4>2. stmt'.producer[1] = TRUE
        BY <1>6, <4>1
      <4>3. QED BY <4>2
    <3>2. QED BY <3>1
  <2>4. QED BY <2>1, <2>2, <2>3 DEF SourcesAreThere, Live
<1>15. IsCounted(arcs, held, retained)'
  <2>1. IsCounted([arcs EXCEPT ![c] = 1], [held EXCEPT ![<<"source", at_target>>] = c], retained)
    BY <1>3, <1>7, TakeCell DEF AssignmentInvariant
  <2>2. QED BY <1>4, <1>7, <2>1 DEF IsCounted
<1>16. QED BY <1>6, <1>10, <1>11, <1>14, <1>15 DEF AssignmentInvariant

(* The arcs of the sources grow by how often they are retained. *)
LEMMA RetainSourcesStep ==
  ASSUME AssignmentInvariant, RetainSources
  PROVE  AssignmentInvariant'
<1> DEFINE of(c) == {j \in DOMAIN stmt.sources : IsData(j) /\ stmt.sources[j] = c}
<1>1. /\ at = "retain" /\ at' = "free"
      /\ cell' = [c \in Cells |-> [cell[c] EXCEPT !.arc = @ + Cardinality(of(c))]]
      /\ var' = var /\ stmt' = stmt /\ at_target' = at_target /\ pointer' = pointer
  BY DEF RetainSources
<1>2. /\ at_target = 1 /\ IsGroup /\ stmt.targets \in TargetLists
      /\ \A j \in DOMAIN stmt.sources : stmt.sources[j] \in Cells /\ Live(stmt.sources[j])
      /\ Len(stmt.sources) \in Nat /\ DOMAIN stmt.sources = 1 .. Len(stmt.sources)
      /\ Len(stmt.sources) = Len(stmt.targets)
  BY <1>1, SourceFacts DEF AssignmentInvariant, StatementIsSound, SourcesAreThere
<1>3. \A c \in Cells : IsFiniteSet(of(c)) /\ Cardinality(of(c)) \in Nat
  <2>1. IsFiniteSet(1 .. Len(stmt.sources))
    BY <1>2, FS_Interval
  <2>2. ASSUME NEW c \in Cells
        PROVE  IsFiniteSet(of(c))
    BY <1>2, <2>1, FS_Subset
  <2>3. QED BY <2>2, FS_CardinalityType
<1>4. \A c \in Cells : ~Live(c) => of(c) = {}
  BY <1>2
<1>5. AreCells(cell) /\ cell \in [Cells -> Cell]
  BY DEF AssignmentInvariant, CellsAreSound, AreCells
<1>6. \A c \in Cells : /\ cell'[c] \in Cell /\ cell'[c].next = cell[c].next /\ cell'[c].live = cell[c].live
                       /\ cell'[c].arc = cell[c].arc + Cardinality(of(c))
                       /\ ~cell[c].live => cell'[c] = cell[c]
  <2>1. SUFFICES ASSUME NEW c \in Cells
                 PROVE  /\ cell'[c] \in Cell /\ cell'[c].next = cell[c].next /\ cell'[c].live = cell[c].live
                        /\ cell'[c].arc = cell[c].arc + Cardinality(of(c))
                        /\ ~cell[c].live => cell'[c] = cell[c]
    OBVIOUS
  <2>2. cell'[c] = [cell[c] EXCEPT !.arc = cell[c].arc + Cardinality(of(c))]
    BY <1>1
  <2>3. cell[c] \in [live : BOOLEAN, arc : Nat, next : Cells \cup {None}] /\ Cardinality(of(c)) \in Nat
    BY <1>3, <1>5 DEF Cell
  <2>4. ASSUME ~cell[c].live
        PROVE  Cardinality(of(c)) = 0
    BY <1>4, <2>4, FS_EmptySet DEF Live
  <2> HIDE DEF of
  <2>5. cell'[c] \in Cell /\ cell'[c].next = cell[c].next /\ cell'[c].live = cell[c].live
        /\ cell'[c].arc = cell[c].arc + Cardinality(of(c))
    BY <2>2, <2>3 DEF Cell
  <2>6. ASSUME ~cell[c].live
        PROVE  cell'[c] = cell[c]
    BY <2>2, <2>3, <2>4, <2>6
  <2>7. QED BY <2>5, <2>6
<1> HIDE DEF of
<1>7. AreCells(cell')
  <2>1. cell' \in [Cells -> Cell]
    <3>1. cell' = [c \in Cells |-> cell'[c]]
      BY <1>1
    <3>2. QED BY <1>6, <3>1
  <2>2. ASSUME NEW c \in Cells
        PROVE  /\ cell'[c].live <=> cell'[c].arc > 0
               /\ ~cell'[c].live => cell'[c] = FreeCell
               /\ cell'[c].next \in (IF c \in Slots THEN Slots \cup {None} ELSE {None})
    <3>1. cell[c].arc \in Nat /\ (cell[c].live <=> cell[c].arc > 0)
      BY <1>5 DEF AreCells, Cell
    <3>2. cell'[c].live <=> cell'[c].arc > 0
      BY <1>3, <1>6, <3>1
    <3>3. QED BY <1>5, <1>6, <3>2 DEF AreCells
  <2>3. QED BY <2>1, <2>2 DEF AreCells
<1>8. CellsAreSound'
  BY <1>1, <1>7 DEF AssignmentInvariant, CellsAreSound, Memory
<1>9. PointerIsSound'
  BY <1>1 DEF AssignmentInvariant, PointerIsSound, Nowhere
<1>10. StatementIsSound'
  BY <1>1, <1>2 DEF AssignmentInvariant, StatementIsSound, IsGroup, Memory
<1>11. SourcesAreThere'
  <2>1. \A j : IsDue(j)' => IsDue(j)
    BY <1>1 DEF IsDue, Evaluating
  <2>2. \A j \in DOMAIN stmt.sources :
       IsDue(j)' /\ ~stmt.producer[j] /\ ~IsData(j) =>
         \E y \in Vars : Behind(y, j) /\ stmt.sources[j] = var[y]
    BY <2>1 DEF AssignmentInvariant, SourcesAreThere
  <2>3. QED BY <1>1, <1>2, <2>2 DEF SourcesAreThere, IsData, Behind, IsGroup
<1>12. held' = held
  <2>1. \A x \in Vars : held[<<"var", x>>] = IF Dangles(x)' THEN None ELSE var'[x]
    BY <1>1, HeldAt DEF Dangles
  <2>2. \A c \in Cells : held[<<"next", c>>] = cell'[c].next
    BY <1>6, HeldAt
  <2>3. \A j \in Positions : held[<<"source", j>>] =
           IF IsDue(j)' /\ stmt'.producer[j] THEN stmt'.sources[j] ELSE None
    <3>1. \A j \in Positions : IsDue(j)' <=> IsDue(j)
      BY <1>1, <1>2 DEF IsDue, Evaluating, Assigning
    <3>2. QED BY <1>1, <3>1, HeldAt
  <2>4. held[<<"release", 1>>] = IF at' \in {"freeing", "releasing"} THEN pointer'.from ELSE None
    BY <1>1, HeldAt
  <2>5. QED BY <2>1, <2>2, <2>3, <2>4, HeldIsAFunction, HeldBecomes
<1>13. retained' = [c \in Cells |-> of(c)] /\ \A c \in Cells : retained[c] = {}
  <2>1. \A j \in DOMAIN stmt.sources : ~IsRetained(j)
    BY <1>1 DEF IsRetained, Assigning
  <2>2. \A j \in DOMAIN stmt.sources : IsRetained(j)' <=> IsData(j)
    BY <1>1, <1>2 DEF IsRetained, Assigning, IsData, IsGroup
  <2>3. \A c \in Cells : of(c) = {j \in DOMAIN stmt'.sources : IsRetained(j)' /\ stmt'.sources[j] = c}
    BY <1>1, <2>2 DEF of
  <2>4. retained' = [c \in Cells |-> of(c)]
    <3> DEFINE s == [c \in Cells |-> of(c)]
    <3>1. s = [c \in Cells |-> s[c]]
      OBVIOUS
    <3>2. \A c \in Cells : s[c] = {j \in DOMAIN stmt'.sources : IsRetained(j)' /\ stmt'.sources[j] = c}
      BY <2>3
    <3> HIDE DEF s
    <3>3. retained' = s
      BY <3>1, <3>2, RetainedBecomes
    <3>4. QED BY <3>3 DEF s
  <2>5. QED BY <2>1, <2>4 DEF retained
<1>14. arcs' = [c \in Cells |-> arcs[c] + Cardinality(of(c))]
  BY <1>6 DEF arcs
<1>15. IsCounted(arcs, held, retained)'
  <2> DEFINE s == [c \in Cells |-> of(c)]
  <2>1. \A c \in Cells : IsFiniteSet(s[c]) /\ s[c] = of(c)
    BY <1>3
  <2> HIDE DEF s
  <2>2. IsCounted([c \in Cells |-> arcs[c] + Cardinality(s[c])], held, s)
    BY <1>13, <2>1, RetainCells DEF AssignmentInvariant
  <2>3. arcs' = [c \in Cells |-> arcs[c] + Cardinality(s[c])]
    BY <1>14, <2>1
  <2>4. retained' = s
    BY <1>13 DEF s
  <2>5. QED BY <1>12, <2>2, <2>3, <2>4 DEF IsCounted
<1>16. QED BY <1>8, <1>9, <1>10, <1>11, <1>15 DEF AssignmentInvariant

(* What a release does to the holders: the one that held c gives it up,
   and the field of a value that is given back goes on to be released. *)
LEMMA ReleaseCounts ==
  ASSUME NEW arc, NEW h, NEW r, IsCounted(arc, h, r),
         NEW c \in Cells, NEW o \in Holders, h[o] = c, o # <<"next", c>>,
         o = <<"release", 1>> \/ h[<<"release", 1>>] = None
  PROVE  IsCounted([arc EXCEPT ![c] = arc[c] - 1],
                   [h EXCEPT ![o] = None,
                             ![<<"next", c>>] = IF arc[c] = 1 THEN None ELSE h[<<"next", c>>],
                             ![<<"release", 1>>] = IF arc[c] = 1 THEN h[<<"next", c>>] ELSE None], r)
<1> DEFINE n == <<"next", c>>
           p == <<"release", 1>>
           a == [arc EXCEPT ![c] = arc[c] - 1]
           f == [h EXCEPT ![o] = None]
           g == [h EXCEPT ![o] = None, ![n] = IF arc[c] = 1 THEN None ELSE h[n],
                          ![p] = IF arc[c] = 1 THEN h[n] ELSE None]
<1>1. n \in Holders /\ p \in Holders /\ n # p /\ o # n
  BY HolderKinds
<1>2. h \in [Holders -> Cells \cup {None}]
  BY DEF IsCounted
<1>3. IsCounted(a, f, r)
  BY DropCell
<1>4. f[p] = None /\ f[n] = h[n]
  BY <1>1, <1>2
<1>5. CASE arc[c] = 1
  <2>1. IsCounted(a, [f EXCEPT ![n] = None, ![p] = f[n]], r)
    <3> HIDE DEF a, f, n, p
    <3>1. QED BY <1>1, <1>3, <1>4, MoveCell
  <2>2. g = [f EXCEPT ![n] = None, ![p] = f[n]]
    BY <1>1, <1>2, <1>4, <1>5
  <2>3. IsCounted(a, g, r)
    <3> HIDE DEF a, f, g, n, p
    <3>1. QED BY <2>1, <2>2
  <2>4. QED BY <2>3
<1>6. CASE arc[c] # 1
  <2>1. g = f
    BY <1>1, <1>2, <1>4, <1>6
  <2>2. IsCounted(a, g, r)
    <3> HIDE DEF a, f, g
    <3>1. QED BY <1>3, <2>1
  <2>3. QED BY <2>2
<1>7. QED BY <1>5, <1>6

(* A value is released that was held, and that no source relies on. *)
LEMMA ReleaseHeldStep ==
  ASSUME AssignmentInvariant, NEW c \in Cells, NEW o \in Holders, held[o] = c,
         o = <<"release", 1>> \/ (o = <<"var", Target>> /\ held[<<"release", 1>>] = None),
         (at = "free" /\ at' = "freeing") \/ (at \in {"freeing", "releasing"} /\ at' = at),
         \A x \in Vars : Dangles(x)' <=> Dangles(x) \/ o = <<"var", x>>,
         var' = var, stmt' = stmt, at_target' = at_target,
         AreCells(cell'), arcs' = [arcs EXCEPT ![c] = arcs[c] - 1],
         \A d \in Cells : d # c => cell'[d] = cell[d],
         cell'[c].next = IF arcs[c] = 1 THEN None ELSE cell[c].next,
         pointer' = [from |-> IF arcs[c] = 1 THEN cell[c].next ELSE None, into |-> None]
  PROVE  AssignmentInvariant'
<1> DEFINE n == <<"next", c>>
           p == <<"release", 1>>
           g == [held EXCEPT ![o] = None, ![n] = IF arcs[c] = 1 THEN None ELSE held[n],
                             ![p] = IF arcs[c] = 1 THEN held[n] ELSE None]
<1>1. o # n /\ (o = p \/ held[p] = None) /\ n \in Holders /\ p \in Holders /\ n # p
  BY HolderKinds
<1>2. /\ IsGroup' <=> IsGroup /\ at' # "idle" /\ at # "idle"
      /\ at' \in {"freeing", "releasing"}
  BY DEF IsGroup
<1>3. /\ \A j : IsDue(j)' <=> IsDue(j)
      /\ \A j : IsRetained(j)' <=> IsRetained(j)
  BY <1>2 DEF IsDue, Evaluating, Assigning, IsRetained, IsData, IsGroup
<1>4. CellsAreSound'
  BY DEF AssignmentInvariant, CellsAreSound, Memory
<1>5. cell[c].next \in Slots \cup {None}
  BY DEF AssignmentInvariant, CellsAreSound, AreCells
<1>6. PointerIsSound'
  <2>1. pointer'.from \in Slots \cup {None} /\ pointer'.into = None
    BY <1>5
  <2>2. pointer' \in [from : Cells \cup {None}, into : Cells \cup {None}]
    BY <1>5, Disjoint
  <2>3. QED BY <1>2, <2>1, <2>2 DEF PointerIsSound
<1>7. StatementIsSound'
  BY <1>2 DEF AssignmentInvariant, StatementIsSound, Memory, IsGroup
<1>8. Target \in Vars /\ at_target \in DOMAIN stmt.targets /\ DOMAIN stmt.targets = 1 .. Len(stmt.targets)
      /\ Len(stmt.targets) \in Nat
  BY <1>2, StatementFacts DEF AssignmentInvariant, StatementIsSound
<1>9. SourcesAreThere'
  <2>1. ASSUME NEW j \in DOMAIN stmt.sources, IsDue(j)', ~stmt.producer[j], ~IsData(j)
        PROVE  \E z \in Vars : Behind(z, j) /\ stmt.sources[j] = var[z]
    BY <1>3, <2>1 DEF AssignmentInvariant, SourcesAreThere
  <2>2. ASSUME ~IsGroup, at' \in {"free", "freeing"}, ~stmt.producer[1]
        PROVE  \E z \in Vars : Behind(z, 1) /\ stmt.sources[1] \in {var[z], cell'[var[z]].next}
    <3>1. PICK z \in Vars : Behind(z, 1) /\ stmt.sources[1] \in {var[z], cell[var[z]].next}
      BY <1>2, <2>2 DEF AssignmentInvariant, SourcesAreThere
    <3>2. Target = stmt.targets[1]
      BY <1>8, <2>2 DEF IsGroup, Target
    <3>3. z # Target
      BY <3>1, <3>2 DEF Behind
    <3>4. held[<<"var", z>>] = var[z] /\ <<"var", z>> \in Holders /\ o # <<"var", z>>
      BY <3>3, HeldAt, HolderKinds DEF Dangles
    <3>5. var[z] # c /\ var[z] \in Cells
      <4>1. var[z] \in Cells /\ var[z] # None
        BY Disjoint DEF AssignmentInvariant, CellsAreSound
      <4>2. \A q \in Holders : held[q] # None /\ held[q] = held[o] => q = o
        BY DEF AssignmentInvariant, IsCounted
      <4>3. QED BY <3>4, <4>1, <4>2
    <3>6. cell'[var[z]] = cell[var[z]]
      BY <3>5
    <3>7. QED BY <3>1, <3>6
  <2>3. QED BY <1>2, <2>1, <2>2 DEF SourcesAreThere, IsData, Behind
<1>10. held' = g
  <2>1. g = [q \in Holders |-> g[q]]
    BY HeldIsAFunction
  <2>2. \A q \in Holders : g[q] = IF q = p THEN (IF arcs[c] = 1 THEN held[n] ELSE None)
                                  ELSE IF q = n THEN (IF arcs[c] = 1 THEN None ELSE held[n])
                                  ELSE IF q = o THEN None ELSE held[q]
    BY <1>1 DEF held
  <2> HIDE DEF g
  <2>3. \A x \in Vars : g[<<"var", x>>] = IF Dangles(x)' THEN None ELSE var'[x]
    BY <1>1, <2>2, HeldAt, HolderKinds, ZenonT(60)
  <2>4. \A e \in Cells : g[<<"next", e>>] = cell'[e].next
    <3>1. SUFFICES ASSUME NEW e \in Cells
                   PROVE  g[<<"next", e>>] = cell'[e].next
      OBVIOUS
    <3>2. CASE e = c
      BY <1>1, <2>2, <3>2, HeldAt
    <3>3. CASE e # c
      <4>1. <<"next", e>> # n /\ <<"next", e>> # o /\ <<"next", e>> # p /\ <<"next", e>> \in Holders
        BY <3>3, HolderKinds
      <4>2. QED BY <2>2, <3>3, <4>1, HeldAt
    <3>4. QED BY <3>2, <3>3
  <2>5. \A j \in Positions : g[<<"source", j>>] =
           IF IsDue(j)' /\ stmt'.producer[j] THEN stmt'.sources[j] ELSE None
    <3>1. \A j \in Positions : g[<<"source", j>>] = held[<<"source", j>>]
      <4>1. \A j \in Positions : /\ <<"source", j>> # n /\ <<"source", j>> # p /\ <<"source", j>> # o
                                 /\ <<"source", j>> \in Holders
        <5>1. SUFFICES ASSUME NEW j \in Positions
                       PROVE  /\ <<"source", j>> # n /\ <<"source", j>> # p /\ <<"source", j>> # o
                              /\ <<"source", j>> \in Holders
          OBVIOUS
        <5>2. <<"source", j>> \in Holders
          BY HolderKinds
        <5>3. <<"source", j>>[1] = "source" /\ n[1] = "next" /\ p[1] = "release"
          OBVIOUS
        <5>4. o[1] # "source"
          OBVIOUS
        <5>5. QED BY <5>2, <5>3, <5>4
      <4>2. QED BY <2>2, <4>1
    <3>2. QED BY <1>3, <3>1, HeldAt
  <2>6. g[<<"release", 1>>] = IF at' \in {"freeing", "releasing"} THEN pointer'.from ELSE None
    BY <1>1, <1>2, <2>2, HeldAt
  <2>7. QED BY <2>1, <2>3, <2>4, <2>5, <2>6, HeldBecomes
<1>11. retained' = retained
  BY <1>3, RetainedIsSame
<1>12. IsCounted(arcs, held, retained)'
  <2>1. IsCounted([arcs EXCEPT ![c] = arcs[c] - 1], g, retained)
    BY <1>1, ReleaseCounts DEF AssignmentInvariant
  <2> HIDE DEF g
  <2>2. QED BY <1>10, <1>11, <2>1 DEF IsCounted
<1>13. QED BY <1>4, <1>6, <1>7, <1>9, <1>12 DEF AssignmentInvariant

(* The target gives its value up; a buffer has no other holder. *)
LEMMA FreeTargetStep ==
  ASSUME AssignmentInvariant, FreeTarget
  PROVE  AssignmentInvariant'
<1> DEFINE c == var[Target]
           o == <<"var", Target>>
<1>1. /\ at = "free" /\ at' = "freeing" /\ var' = var /\ stmt' = stmt /\ at_target' = at_target
      /\ pointer = Nowhere
  BY DEF FreeTarget, AssignmentInvariant, PointerIsSound
<1>2. Target \in Vars /\ c \in Cells /\ o \in Holders /\ at_target \in DOMAIN stmt.targets
  BY <1>1, StatementFacts, HolderKinds DEF AssignmentInvariant, CellsAreSound, StatementIsSound
<1>3. held[o] = c /\ held[<<"release", 1>>] = None
  BY <1>1, <1>2, HeldAt DEF Dangles
<1>4. Live(c) /\ AreCells(cell) /\ cell[c].arc = arcs[c]
  BY <1>2, <1>3, HeldIsLive DEF AssignmentInvariant, CellsAreSound
<1>5. Target' = Target
  BY <1>1 DEF Target
<1>6. \A x \in Vars : Dangles(x)' <=> Dangles(x) \/ o = <<"var", x>>
  BY <1>1, <1>5 DEF Dangles
<1>7. /\ AreCells(cell')
      /\ arcs' = [arcs EXCEPT ![c] = arcs[c] - 1]
      /\ \A d \in Cells : d # c => cell'[d] = cell[d]
      /\ cell'[c].next = IF arcs[c] = 1 THEN None ELSE cell[c].next
      /\ pointer' = [from |-> IF arcs[c] = 1 THEN cell[c].next ELSE None, into |-> None]
  <2>1. CASE IsData(at_target)
    <3>1. Release(c)
      BY <2>1 DEF FreeTarget
    <3>2. QED BY <1>2, <1>4, <3>1, ReleasedCells
  <2>2. CASE ~IsData(at_target)
    <3>1. cell' = [cell EXCEPT ![c] = FreeCell] /\ pointer' = pointer
      BY <2>2 DEF FreeTarget
    <3>2. c \in Buffers /\ c \notin Slots
      BY <1>2, <2>2, Disjoint DEF AssignmentInvariant, CellsAreSound, IsData, Target
    <3>3. \A j \in DOMAIN stmt.sources : IsRetained(j) => stmt.sources[j] # c
      BY <1>1, <3>2, SourceFacts DEF AssignmentInvariant, IsRetained
    <3>4. retained[c] = {}
      BY <1>2, <3>3 DEF retained
    <3>5. arcs[c] = 1
      <4>1. IsCounted(arcs, held, retained)
        BY DEF AssignmentInvariant
      <4> HIDE DEF c, o
      <4>2. /\ IsCounted([arcs EXCEPT ![c] = arcs[c] - 1], [held EXCEPT ![o] = None], retained)
            /\ arcs[c] = 1 <=> retained[c] = {}
        BY <1>2, <1>3, <4>1, DropCell
      <4>3. QED BY <3>4, <4>2
    <3>6. FreeCell \in Cell /\ FreeCell.arc = 0 /\ FreeCell.next = None /\ FreeCell.live = FALSE
      BY DEF FreeCell, Cell
    <3> HIDE DEF c
    <3>7. cell'[c] = FreeCell /\ \A d \in Cells : d # c => cell'[d] = cell[d]
      BY <1>2, <1>4, <3>1 DEF AreCells
    <3>8. cell' \in [Cells -> Cell]
      BY <1>2, <1>4, <3>1, <3>6 DEF AreCells
    <3>9. AreCells(cell')
      BY <1>4, <3>2, <3>6, <3>7, <3>8 DEF AreCells
    <3>10. arcs' = [arcs EXCEPT ![c] = arcs[c] - 1]
      <4>1. arcs' = [d \in Cells |-> cell'[d].arc]
        BY DEF arcs
      <4>2. \A d \in Cells : cell'[d].arc = [arcs EXCEPT ![c] = arcs[c] - 1][d]
        BY <3>5, <3>6, <3>7 DEF arcs
      <4>3. QED BY <4>1, <4>2 DEF arcs
    <3>11. cell[c].next = None
      BY <1>2, <1>4, <3>2 DEF AreCells
    <3>12. QED BY <1>1, <3>1, <3>5, <3>6, <3>7, <3>9, <3>10, <3>11 DEF Nowhere
  <2>3. QED BY <2>1, <2>2
<1> HIDE DEF c
<1>8. QED BY <1>1, <1>2, <1>3, <1>6, <1>7, ReleaseHeldStep

(* The release goes on along the list. *)
LEMMA ReleaseFieldStep ==
  ASSUME AssignmentInvariant, ReleaseField
  PROVE  AssignmentInvariant'
<1> DEFINE c == pointer.from
           o == <<"release", 1>>
<1>1. /\ at \in {"freeing", "releasing"} /\ at' = at /\ var' = var /\ stmt' = stmt /\ at_target' = at_target
      /\ Release(c) /\ c # None
  BY DEF ReleaseField
<1>2. c \in Cells /\ o \in Holders /\ held[o] = c
  BY <1>1, HeldAt, HolderKinds, Disjoint DEF AssignmentInvariant, PointerIsSound
<1>3. Live(c) /\ AreCells(cell)
  BY <1>2, HeldIsLive DEF AssignmentInvariant, CellsAreSound
<1>4. \A x \in Vars : Dangles(x)' <=> Dangles(x) \/ o = <<"var", x>>
  <2>1. \A x \in Vars : o # <<"var", x>>
    OBVIOUS
  <2>2. QED BY <1>1, <2>1 DEF Dangles, Target
<1>5. /\ AreCells(cell')
      /\ arcs' = [arcs EXCEPT ![c] = arcs[c] - 1]
      /\ \A d \in Cells : d # c => cell'[d] = cell[d]
      /\ cell'[c].next = IF arcs[c] = 1 THEN None ELSE cell[c].next
      /\ pointer' = [from |-> IF arcs[c] = 1 THEN cell[c].next ELSE None, into |-> None]
  BY <1>1, <1>2, <1>3, ReleasedCells
<1> HIDE DEF c
<1>6. QED BY <1>1, <1>2, <1>4, <1>5, ReleaseHeldStep

(* A group lets go of what it retained. *)
LEMMA ReleaseSourceStep ==
  ASSUME AssignmentInvariant, ReleaseSource
  PROVE  AssignmentInvariant'
<1> DEFINE c == Source
           n == <<"next", c>>
           p == <<"release", 1>>
<1>1. /\ at = "release" /\ at' = "releasing" /\ var' = var /\ stmt' = stmt /\ at_target' = at_target
      /\ pointer = Nowhere
  BY DEF ReleaseSource, AssignmentInvariant, PointerIsSound
<1>2. IsGroup /\ at_target \in DOMAIN stmt.sources /\ c \in Cells /\ (IsData(at_target) => c \in Slots)
      /\ at_target \in Nat /\ stmt.sources[at_target] = c
  BY <1>1, SourceFacts, StatementFacts DEF AssignmentInvariant, StatementIsSound, Source
<1>3. StatementIsSound'
  BY <1>1 DEF AssignmentInvariant, StatementIsSound, Memory, IsGroup
<1>4. SourcesAreThere'
  BY <1>1 DEF SourcesAreThere, IsDue, Evaluating, Assigning
<1>5. /\ \A x \in Vars : ~Dangles(x) /\ ~Dangles(x)'
      /\ \A j : ~IsDue(j) /\ ~IsDue(j)'
  BY <1>1 DEF Dangles, IsDue, Evaluating, Assigning
<1>6. \A j \in DOMAIN stmt.sources : /\ IsRetained(j) <=> IsData(j) /\ j >= at_target
                                     /\ IsRetained(j)' <=> IsData(j) /\ j > at_target
  BY <1>1, <1>2 DEF IsRetained, Assigning, IsData, IsGroup
<1>7. DOMAIN stmt.sources = 1 .. Len(stmt.sources) /\ Len(stmt.sources) \in Nat
  BY SourceFacts DEF AssignmentInvariant
<1>8. held[p] = None /\ p \in Holders /\ n \in Holders /\ n # p
  BY <1>1, <1>2, HeldAt, HolderKinds
<1>9. CASE ~IsData(at_target)
  <2>1. cell' = cell /\ pointer' = pointer
    BY <1>9 DEF ReleaseSource
  <2>2. \A j \in DOMAIN stmt.sources : IsRetained(j)' <=> IsRetained(j)
    <3>1. \A j \in DOMAIN stmt.sources : IsData(j) => j # at_target
      BY <1>9
    <3>2. QED BY <1>2, <1>6, <1>7, <3>1
  <2>3. retained' = retained
    BY <1>1, <2>2, RetainedIsSame
  <2>4. held' = held
    <3>1. \A x \in Vars : held[<<"var", x>>] = IF Dangles(x)' THEN None ELSE var'[x]
      BY <1>1, <1>5, HeldAt
    <3>2. \A e \in Cells : held[<<"next", e>>] = cell'[e].next
      BY <2>1, HeldAt
    <3>3. \A j \in Positions : held[<<"source", j>>] =
           IF IsDue(j)' /\ stmt'.producer[j] THEN stmt'.sources[j] ELSE None
      BY <1>5, HeldAt
    <3>4. held[<<"release", 1>>] = IF at' \in {"freeing", "releasing"} THEN pointer'.from ELSE None
      BY <1>1, <1>8, <2>1 DEF Nowhere
    <3>5. QED BY <3>1, <3>2, <3>3, <3>4, HeldIsAFunction, HeldBecomes
  <2>5. IsCounted(arcs, held, retained)'
    BY <2>1, <2>3, <2>4, ArcsAreSame DEF AssignmentInvariant, IsCounted
  <2>6. CellsAreSound'
    BY <1>1, <2>1 DEF AssignmentInvariant, CellsAreSound, Memory
  <2>7. PointerIsSound'
    BY <1>1, <2>1 DEF AssignmentInvariant, PointerIsSound, Nowhere
  <2>8. QED BY <1>3, <1>4, <2>5, <2>6, <2>7 DEF AssignmentInvariant
<1>10. CASE IsData(at_target)
  <2> DEFINE a == [arcs EXCEPT ![c] = arcs[c] - 1]
             s == [retained EXCEPT ![c] = retained[c] \ {at_target}]
             g == [held EXCEPT ![n] = IF arcs[c] = 1 THEN None ELSE held[n],
                               ![p] = IF arcs[c] = 1 THEN held[n] ELSE None]
  <2>1. at_target \in retained[c]
    <3>1. IsRetained(at_target)
      BY <1>2, <1>6, <1>10
    <3>2. QED BY <1>2, <3>1 DEF retained
  <2>2. Live(c) /\ AreCells(cell) /\ Release(c)
    <3>1. retained[c] # {}
      BY <2>1
    <3>2. Live(c)
      BY <1>2, <3>1, HeldIsLive DEF AssignmentInvariant
    <3>3. QED
      BY <1>10, <3>2 DEF ReleaseSource, AssignmentInvariant, CellsAreSound
  <2>3. /\ AreCells(cell') /\ arcs' = a
        /\ \A d \in Cells : d # c => cell'[d] = cell[d]
        /\ cell'[c].next = IF arcs[c] = 1 THEN None ELSE cell[c].next
        /\ pointer' = [from |-> IF arcs[c] = 1 THEN cell[c].next ELSE None, into |-> None]
    BY <1>2, <2>2, ReleasedCells
  <2>4. retained = [d \in Cells |-> retained[d]]
    BY DEF retained
  <2>5. IsCounted(a, held, s)
    BY <1>2, <2>1, <2>4, DropRetained DEF AssignmentInvariant
  <2>6. retained' = s
    <3>1. s = [d \in Cells |-> s[d]]
      BY <2>4
    <3>2. \A d \in Cells : s[d] = {j \in DOMAIN stmt'.sources : IsRetained(j)' /\ stmt'.sources[j] = d}
      <4>1. \A d \in Cells : s[d] = IF d = c THEN retained[d] \ {at_target} ELSE retained[d]
        BY <2>4
      <4>2. \A d \in Cells : retained[d] = {j \in DOMAIN stmt.sources : IsData(j) /\ j >= at_target /\ stmt.sources[j] = d}
        BY <1>6 DEF retained
      <4>3. \A j \in DOMAIN stmt.sources : j > at_target <=> j >= at_target /\ j # at_target
        BY <1>2, <1>7
      <4>4. \A d \in Cells : s[d] = {j \in DOMAIN stmt.sources : IsData(j) /\ j > at_target /\ stmt.sources[j] = d}
        <5>1. SUFFICES ASSUME NEW d \in Cells
                       PROVE  s[d] = {j \in DOMAIN stmt.sources : IsData(j) /\ j > at_target /\ stmt.sources[j] = d}
          OBVIOUS
        <5>2. CASE d = c
          <6>1. s[d] = retained[d] \ {at_target}
            BY <4>1, <5>2
          <6> HIDE DEF s
          <6>2. QED BY <4>2, <4>3, <6>1
        <5>3. CASE d # c
          <6>1. s[d] = retained[d]
            BY <4>1, <5>3
          <6>2. \A j \in DOMAIN stmt.sources : stmt.sources[j] = d => j # at_target
            BY <1>2, <5>3
          <6> HIDE DEF s
          <6>3. QED BY <4>2, <4>3, <6>1, <6>2
        <5>4. QED BY <5>2, <5>3
      <4>5. QED BY <1>1, <1>6, <4>4
    <3> HIDE DEF s
    <3>3. QED BY <3>1, <3>2, RetainedBecomes
  <2>7. IsCounted(a, g, s)
    <3>1. held[p] = None /\ held \in [Holders -> Cells \cup {None}]
      BY <1>8 DEF AssignmentInvariant, IsCounted
    <3>2. CASE arcs[c] = 1
      <4>1. IsCounted(a, [held EXCEPT ![n] = None, ![p] = held[n]], s)
        <5> HIDE DEF a, s, n, p
        <5>1. QED BY <1>8, <2>5, MoveCell
      <4>2. g = [held EXCEPT ![n] = None, ![p] = held[n]]
        BY <3>2
      <4>3. QED BY <4>1, <4>2 DEF IsCounted
    <3>3. CASE arcs[c] # 1
      <4>1. g = held
        BY <1>8, <3>1, <3>3
      <4>2. QED BY <2>5, <4>1 DEF IsCounted
    <3>4. QED BY <3>2, <3>3
  <2>8. held' = g
    <3>1. g = [q \in Holders |-> g[q]]
      BY HeldIsAFunction
    <3>2. \A q \in Holders : g[q] = IF q = p THEN (IF arcs[c] = 1 THEN held[n] ELSE None)
                                    ELSE IF q = n THEN (IF arcs[c] = 1 THEN None ELSE held[n]) ELSE held[q]
      BY <1>8, HeldIsAFunction
    <3> HIDE DEF g
    <3>3. \A x \in Vars : g[<<"var", x>>] = IF Dangles(x)' THEN None ELSE var'[x]
      BY <1>1, <1>5, <3>2, HeldAt, HolderKinds
    <3>4. \A e \in Cells : g[<<"next", e>>] = cell'[e].next
      <4>1. SUFFICES ASSUME NEW e \in Cells
                     PROVE  g[<<"next", e>>] = cell'[e].next
        OBVIOUS
      <4>2. CASE e = c
        BY <1>2, <1>8, <2>3, <3>2, <4>2, HeldAt
      <4>3. CASE e # c
        <5>1. <<"next", e>> # n /\ <<"next", e>> # p /\ <<"next", e>> \in Holders
          BY <4>3, HolderKinds
        <5>2. QED BY <2>3, <3>2, <4>3, <5>1, HeldAt
      <4>4. QED BY <4>2, <4>3
    <3>5. \A j \in Positions : g[<<"source", j>>] =
           IF IsDue(j)' /\ stmt'.producer[j] THEN stmt'.sources[j] ELSE None
      BY <1>5, <3>2, HeldAt, HolderKinds
    <3>6. g[<<"release", 1>>] = IF at' \in {"freeing", "releasing"} THEN pointer'.from ELSE None
      BY <1>1, <1>2, <1>8, <2>3, <3>2, HeldAt
    <3>7. QED BY <3>1, <3>3, <3>4, <3>5, <3>6, HeldBecomes
  <2>9. IsCounted(arcs, held, retained)'
    <3> HIDE DEF a, s, g
    <3>1. QED BY <2>3, <2>6, <2>7, <2>8 DEF IsCounted
  <2>10. CellsAreSound'
    BY <1>1, <2>3 DEF AssignmentInvariant, CellsAreSound, Memory
  <2>11. PointerIsSound'
    <3>1. cell[c].next \in Slots \cup {None}
      BY <1>2, <2>2 DEF AreCells
    <3>2. pointer'.from \in Slots \cup {None} /\ pointer'.into = None
      BY <2>3, <3>1
    <3>3. pointer' \in [from : Cells \cup {None}, into : Cells \cup {None}]
      BY <2>3, <3>1, Disjoint
    <3>4. QED BY <1>1, <3>2, <3>3 DEF PointerIsSound
  <2>12. QED BY <1>3, <1>4, <2>9, <2>10, <2>11 DEF AssignmentInvariant
<1>11. QED BY <1>9, <1>10

(* Behind a target that has been assigned to. *)
LEMMA NextTargetFacts ==
  ASSUME StatementIsSound, SourcesAreThere, at \in {"freeing", "clone"}, NextTarget,
         \A x \in Vars : x # Target => var'[x] = var[x]
  PROVE  /\ StatementIsSound' /\ SourcesAreThere' /\ retained' = retained
         /\ at' \in {"free", "release", "idle"}
         /\ \A j \in Positions : IsDue(j)' <=> IsDue(j) /\ j # at_target
         /\ \A j \in Positions : IsDue(j)' => stmt' = stmt
<1>1. /\ at_target \in Nat /\ 1 <= at_target /\ at_target <= Len(stmt.targets) /\ Len(stmt.targets) \in Nat
      /\ Len(stmt.sources) = Len(stmt.targets) /\ DOMAIN stmt.targets = 1 .. Len(stmt.targets)
      /\ DOMAIN stmt.sources = 1 .. Len(stmt.sources)
  BY StatementFacts, SourceFacts DEF StatementIsSound
<1>2. \A j \in Positions : IsDue(j) <=> j \in DOMAIN stmt.sources /\ j >= at_target
  BY DEF IsDue, Evaluating, Assigning
<1>3. CASE at_target < Len(stmt.targets)
  <2>1. at_target' = at_target + 1 /\ at' = "free" /\ stmt' = stmt
    BY <1>3 DEF NextTarget
  <2>2. at_target' \in DOMAIN stmt.targets
    BY <1>1, <1>3, <2>1
  <2>3. StatementIsSound'
    BY <2>1, <2>2 DEF StatementIsSound, Memory
  <2>4. \A j \in DOMAIN stmt.sources : IsDue(j)' <=> j >= at_target + 1
    BY <2>1 DEF IsDue, Evaluating, Assigning
  <2>5. \A j \in Positions : IsDue(j)' => j \in DOMAIN stmt.sources
    BY <2>1 DEF IsDue
  <2>6. \A j \in Positions : IsDue(j)' <=> IsDue(j) /\ j # at_target
    <3>1. \A j \in DOMAIN stmt.sources : j >= at_target + 1 <=> j >= at_target /\ j # at_target
      BY <1>1
    <3>2. QED BY <1>2, <2>4, <2>5, <3>1
  <2>7. SourcesAreThere'
    <3>1. ASSUME NEW j \in DOMAIN stmt.sources, IsDue(j)', ~stmt.producer[j], ~IsData(j)
          PROVE  \E y \in Vars : Behind(y, j) /\ stmt.sources[j] = var'[y]
      <4>1. j \in Positions /\ IsDue(j) /\ at_target \in 1 .. j
        BY <1>1, <1>2, <2>4, <3>1 DEF Positions
      <4>2. PICK y \in Vars : Behind(y, j) /\ stmt.sources[j] = var[y]
        BY <3>1, <4>1 DEF SourcesAreThere
      <4>3. y # Target
        BY <4>1, <4>2 DEF Behind, Target
      <4>4. QED BY <4>2, <4>3
    <3>2. IsGroup
      BY <1>1, <1>3 DEF IsGroup
    <3>3. QED BY <2>1, <3>1, <3>2 DEF SourcesAreThere, IsData, Behind, IsGroup
  <2>8. \A j \in DOMAIN stmt.sources : IsRetained(j)' <=> IsRetained(j)
    BY <2>1 DEF IsRetained, Assigning, IsData, IsGroup
  <2>9. retained' = retained
    BY <2>1, <2>8, RetainedIsSame
  <2>10. QED BY <2>1, <2>3, <2>6, <2>7, <2>9
<1>4. CASE ~(at_target < Len(stmt.targets))
  <2>1. at_target' = 1 /\ at' = (IF IsGroup THEN "release" ELSE "idle")
        /\ stmt' = (IF IsGroup THEN stmt ELSE NoStatement)
    BY <1>4 DEF NextTarget
  <2>2. \A j \in Positions : ~IsDue(j)'
    BY <2>1 DEF IsDue, Evaluating, Assigning
  <2>3. at_target = Len(stmt.targets)
    BY <1>1, <1>4
  <2>4. \A j \in Positions : IsDue(j)' <=> IsDue(j) /\ j # at_target
    <3>1. \A j \in DOMAIN stmt.sources : j >= at_target => j = at_target
      BY <1>1, <2>3
    <3>2. QED BY <1>2, <2>2, <3>1
  <2>5. SourcesAreThere'
    <3>1. at' \in {"release", "idle"}
      BY <2>1
    <3>2. \A j : ~IsDue(j)'
      BY <3>1 DEF IsDue, Evaluating, Assigning
    <3>3. QED BY <3>1, <3>2 DEF SourcesAreThere
  <2>6. StatementIsSound' /\ retained' = retained
    <3>1. CASE IsGroup
      <4>1. stmt' = stmt /\ at' = "release" /\ at_target' = 1 /\ 1 \in DOMAIN stmt.targets
        BY <1>1, <2>1, <3>1
      <4>2. StatementIsSound'
        BY <3>1, <4>1 DEF StatementIsSound, Memory, IsGroup
      <4>3. \A j \in DOMAIN stmt.sources : IsRetained(j)' <=> IsRetained(j)
        BY <1>1, <4>1 DEF IsRetained, Assigning, IsData, IsGroup
      <4>4. QED BY <4>1, <4>2, <4>3, RetainedIsSame
    <3>2. CASE ~IsGroup
      <4>1. stmt' = NoStatement /\ at' = "idle" /\ at_target' = 1
        BY <2>1, <3>2
      <4>2. stmt'.sources = << >> /\ stmt'.producer = << >> /\ DOMAIN stmt'.sources = {}
        BY <4>1 DEF NoStatement
      <4>3. StatementIsSound'
        BY <4>1, <4>2 DEF StatementIsSound, NoStatement
      <4>4. \A j \in DOMAIN stmt.sources : ~IsRetained(j)
        BY <3>2 DEF IsRetained
      <4>5. \A j \in DOMAIN stmt'.sources : ~IsRetained(j)'
        BY <4>2
      <4>6. QED BY <4>3, <4>4, <4>5, NothingRetained
    <3>3. QED BY <3>1, <3>2
  <2>7. QED BY <2>1, <2>2, <2>4, <2>5, <2>6
<1>5. QED BY <1>3, <1>4

(* A release that has come to its end. *)
LEMMA PointerIsNowhere ==
  ASSUME PointerIsSound, at \in {"freeing", "releasing"}, pointer.from = None
  PROVE  pointer = Nowhere
BY DEF PointerIsSound, Nowhere

(* The value of a producer goes to its variable. *)
LEMMA StoreStep ==
  ASSUME AssignmentInvariant, Store
  PROVE  AssignmentInvariant'
<1> DEFINE o == <<"source", at_target>>
           p == <<"var", Target>>
           g == [held EXCEPT ![o] = None, ![p] = held[o]]
<1>1. /\ at = "freeing" /\ stmt.producer[at_target] /\ cell' = cell /\ pointer' = pointer
      /\ var' = [var EXCEPT ![Target] = Source] /\ NextTarget
  BY DEF Store
<1>2. pointer = Nowhere
  BY PointerIsNowhere DEF Store, AssignmentInvariant
<1>3. /\ Target \in Vars /\ at_target \in DOMAIN stmt.sources /\ Source \in Memory(Target) /\ Source \in Cells
      /\ at_target \in Nat /\ var \in [Vars -> Cells] /\ \A x \in Vars : var[x] \in Memory(x)
  BY <1>1, StatementFacts, SourceFacts, Disjoint DEF AssignmentInvariant, CellsAreSound
<1>4. var' \in [Vars -> Cells] /\ var'[Target] = Source /\ \A x \in Vars : x # Target => var'[x] = var[x]
  BY <1>1, <1>3
<1>5. /\ StatementIsSound' /\ SourcesAreThere' /\ retained' = retained
      /\ at' \in {"free", "release", "idle"}
      /\ \A j \in Positions : IsDue(j)' <=> IsDue(j) /\ j # at_target
      /\ \A j \in Positions : IsDue(j)' => stmt' = stmt
  BY <1>1, <1>4, NextTargetFacts DEF AssignmentInvariant
<1>6. CellsAreSound'
  <2>1. \A x \in Vars : var'[x] \in Memory(x)
    BY <1>3, <1>4
  <2>2. QED BY <1>1, <1>4, <2>1 DEF AssignmentInvariant, CellsAreSound, Memory
<1>7. PointerIsSound'
  BY <1>1, <1>2, <1>5 DEF AssignmentInvariant, PointerIsSound
<1>8. at_target \in Positions /\ o \in Holders /\ p \in Holders /\ o # p
  BY <1>3, HolderKinds DEF Positions
<1>9. held[o] = Source /\ held[p] = None
  <2>1. IsDue(at_target) /\ Dangles(Target)
    BY <1>1, <1>3 DEF IsDue, Assigning, Dangles
  <2>2. QED BY <1>1, <1>3, <1>8, <2>1, HeldAt DEF Source
<1>10. held' = g
  <2>1. g = [q \in Holders |-> g[q]]
    BY HeldIsAFunction
  <2>2. \A q \in Holders : g[q] = IF q = p THEN Source ELSE IF q = o THEN None ELSE held[q]
    BY <1>8, <1>9, HeldIsAFunction
  <2> HIDE DEF g
  <2>3. \A x \in Vars : g[<<"var", x>>] = IF Dangles(x)' THEN None ELSE var'[x]
    <3>1. \A x \in Vars : ~Dangles(x)' /\ (x # Target => ~Dangles(x))
      BY <1>5 DEF Dangles
    <3>2. SUFFICES ASSUME NEW x \in Vars
                   PROVE  g[<<"var", x>>] = var'[x]
      BY <3>1
    <3>3. CASE x = Target
      BY <1>4, <1>8, <2>2, <3>3
    <3>4. CASE x # Target
      <4>1. <<"var", x>> # p /\ <<"var", x>> # o /\ <<"var", x>> \in Holders
        BY <3>4, HolderKinds
      <4>2. held[<<"var", x>>] = var[x]
        BY <3>1, <3>4, HeldAt
      <4>3. QED BY <1>4, <2>2, <3>4, <4>1, <4>2
    <3>5. QED BY <3>3, <3>4
  <2>4. \A e \in Cells : g[<<"next", e>>] = cell'[e].next
    BY <1>1, <2>2, HeldAt, HolderKinds
  <2>5. \A j \in Positions : g[<<"source", j>>] =
           IF IsDue(j)' /\ stmt'.producer[j] THEN stmt'.sources[j] ELSE None
    <3>1. SUFFICES ASSUME NEW j \in Positions
                   PROVE  g[<<"source", j>>] = IF IsDue(j)' /\ stmt'.producer[j] THEN stmt'.sources[j] ELSE None
      OBVIOUS
    <3>2. CASE j = at_target
      BY <1>5, <1>8, <2>2, <3>2
    <3>3. CASE j # at_target
      <4>1. <<"source", j>> # o /\ <<"source", j>> # p /\ <<"source", j>> \in Holders
        BY <3>3, HolderKinds
      <4>2. g[<<"source", j>>] = IF IsDue(j) /\ stmt.producer[j] THEN stmt.sources[j] ELSE None
        BY <2>2, <4>1, HeldAt
      <4>3. QED BY <1>5, <3>3, <4>2
    <3>4. QED BY <3>2, <3>3
  <2>6. g[<<"release", 1>>] = IF at' \in {"freeing", "releasing"} THEN pointer'.from ELSE None
    <3>1. held[<<"release", 1>>] = None
      BY <1>2, HeldAt DEF Nowhere
    <3>2. QED BY <1>5, <2>2, <3>1, HolderKinds
  <2>7. QED BY <2>1, <2>3, <2>4, <2>5, <2>6, HeldBecomes
<1>11. IsCounted(arcs, held, retained)'
  <2>1. IsCounted(arcs, g, retained)
    <3>1. IsCounted(arcs, held, retained)
      BY DEF AssignmentInvariant
    <3> HIDE DEF o, p
    <3>2. QED BY <1>8, <1>9, <3>1, MoveCell
  <2> HIDE DEF g
  <2>2. QED BY <1>1, <1>5, <1>10, <2>1, ArcsAreSame DEF IsCounted
<1>12. QED BY <1>5, <1>6, <1>7, <1>11 DEF AssignmentInvariant

(* What is to be cloned is held or retained. *)
LEMMA BeginCloneStep ==
  ASSUME AssignmentInvariant, BeginClone
  PROVE  AssignmentInvariant'
<1>1. /\ at = "freeing" /\ at' = "clone" /\ ~stmt.producer[at_target]
      /\ pointer' = [Nowhere EXCEPT !.from = Source]
      /\ cell' = cell /\ var' = var /\ stmt' = stmt /\ at_target' = at_target
  BY DEF BeginClone
<1>2. pointer = Nowhere
  BY PointerIsNowhere DEF BeginClone, AssignmentInvariant
<1>3. pointer' = [from |-> Source, into |-> None]
  BY <1>1 DEF Nowhere
<1>4. /\ Target \in Vars /\ at_target \in DOMAIN stmt.sources /\ Source \in Memory(Target) /\ Source \in Cells
      /\ at_target \in Nat /\ stmt.sources[at_target] = Source /\ 1 <= at_target
      /\ DOMAIN stmt.targets = 1 .. Len(stmt.targets) /\ Len(stmt.targets) \in Nat /\ at_target <= Len(stmt.targets)
  BY <1>1, StatementFacts, SourceFacts, Disjoint DEF AssignmentInvariant, Source
<1>5. Live(Source)
  <2>1. ASSUME NEW y \in Vars, Behind(y, at_target)
        PROVE  held[<<"var", y>>] = var[y] /\ <<"var", y>> \in Holders
               /\ held[<<"next", var[y]>>] = cell[var[y]].next /\ <<"next", var[y]>> \in Holders
    <3>1. y # Target
      BY <1>4, <2>1 DEF Behind, Target
    <3>2. var[y] \in Cells
      BY DEF AssignmentInvariant, CellsAreSound
    <3>3. QED BY <3>1, <3>2, HeldAt, HolderKinds DEF Dangles
  <2>2. CASE IsData(at_target) /\ IsGroup
    <3>1. at_target \in retained[Source]
      BY <1>1, <1>4, <2>2 DEF retained, IsRetained, Assigning
    <3>2. retained[Source] # {}
      BY <3>1
    <3>3. QED BY <1>4, <3>2, HeldIsLive DEF AssignmentInvariant
  <2>3. CASE ~IsData(at_target)
    <3>1. IsDue(at_target)
      BY <1>1, <1>4 DEF IsDue, Assigning
    <3>2. PICK y \in Vars : Behind(y, at_target) /\ Source = var[y]
      BY <1>1, <1>4, <2>3, <3>1 DEF AssignmentInvariant, SourcesAreThere
    <3>3. QED BY <1>4, <2>1, <3>2, HeldIsLive DEF AssignmentInvariant
  <2>4. CASE ~IsGroup
    <3>1. at_target = 1
      BY <1>4, <2>4 DEF IsGroup
    <3>2. PICK y \in Vars : Behind(y, 1) /\ Source \in {var[y], cell[var[y]].next}
      BY <1>1, <1>4, <2>4, <3>1 DEF AssignmentInvariant, SourcesAreThere
    <3>3. \E o \in Holders : held[o] = Source
      BY <2>1, <3>1, <3>2
    <3>4. QED BY <1>4, <3>3, HeldIsLive DEF AssignmentInvariant
  <2>5. QED BY <2>2, <2>3, <2>4
<1>6. CellsAreSound'
  BY <1>1 DEF AssignmentInvariant, CellsAreSound, Memory
<1>7. PointerIsSound'
  <2>1. pointer' \in [from : Cells \cup {None}, into : Cells \cup {None}]
    BY <1>3, <1>4
  <2>2. Target' = Target /\ Memory(Target)' = Memory(Target)
    BY <1>1 DEF Target, Memory
  <2>3. pointer'.from \in Memory(Target)' /\ Live(pointer.from)' /\ pointer'.into = None
    BY <1>1, <1>3, <1>4, <1>5, <2>2 DEF Live
  <2>4. QED BY <1>1, <2>1, <2>3 DEF PointerIsSound
<1>8. StatementIsSound'
  BY <1>1 DEF AssignmentInvariant, StatementIsSound, Memory, IsGroup
<1>9. /\ \A j : IsDue(j)' <=> IsDue(j)
      /\ \A j : IsRetained(j)' <=> IsRetained(j)
      /\ \A x : Dangles(x)' <=> Dangles(x)
  BY <1>1, <1>3 DEF IsDue, Evaluating, Assigning, IsRetained, IsData, IsGroup, Dangles, Target
<1>10. SourcesAreThere'
  <2>1. \A j \in DOMAIN stmt.sources :
       IsDue(j)' /\ ~stmt.producer[j] /\ ~IsData(j) =>
         \E y \in Vars : Behind(y, j) /\ stmt.sources[j] = var[y]
    BY <1>9 DEF AssignmentInvariant, SourcesAreThere
  <2>2. QED BY <1>1, <2>1 DEF SourcesAreThere, IsData, Behind
<1>11. held' = held
  <2>1. \A x \in Vars : held[<<"var", x>>] = IF Dangles(x)' THEN None ELSE var'[x]
    BY <1>1, <1>9, HeldAt
  <2>2. \A c \in Cells : held[<<"next", c>>] = cell'[c].next
    BY <1>1, HeldAt
  <2>3. \A j \in Positions : held[<<"source", j>>] =
           IF IsDue(j)' /\ stmt'.producer[j] THEN stmt'.sources[j] ELSE None
    BY <1>1, <1>9, HeldAt
  <2>4. held[<<"release", 1>>] = IF at' \in {"freeing", "releasing"} THEN pointer'.from ELSE None
    BY <1>1, <1>2, HeldAt DEF Nowhere
  <2>5. QED BY <2>1, <2>2, <2>3, <2>4, HeldIsAFunction, HeldBecomes
<1>12. retained' = retained
  BY <1>1, <1>9, RetainedIsSame
<1>13. IsCounted(arcs, held, retained)'
  BY <1>1, <1>11, <1>12, ArcsAreSame DEF AssignmentInvariant, IsCounted
<1>14. QED BY <1>6, <1>7, <1>8, <1>10, <1>13 DEF AssignmentInvariant

(* Behind a source: the next one, or the end of the statement. *)
LEMMA EndReleaseStep ==
  ASSUME AssignmentInvariant, EndRelease
  PROVE  AssignmentInvariant'
<1>1. /\ at = "releasing" /\ cell' = cell /\ var' = var /\ pointer' = pointer
      /\ IsGroup
  BY DEF EndRelease, AssignmentInvariant, StatementIsSound
<1>2. pointer = Nowhere
  BY PointerIsNowhere DEF EndRelease, AssignmentInvariant
<1>3. /\ at_target \in Nat /\ 1 <= at_target /\ at_target <= Len(stmt.targets) /\ Len(stmt.targets) \in Nat
      /\ Len(stmt.sources) = Len(stmt.targets) /\ DOMAIN stmt.targets = 1 .. Len(stmt.targets)
      /\ DOMAIN stmt.sources = 1 .. Len(stmt.sources)
  BY <1>1, StatementFacts, SourceFacts DEF AssignmentInvariant, StatementIsSound
<1>4. at' \in {"release", "idle"}
  BY DEF EndRelease
<1>5. StatementIsSound' /\ retained' = retained
  <2>1. CASE at_target < Len(stmt.targets)
    <3>1. at_target' = at_target + 1 /\ at' = "release" /\ stmt' = stmt
      BY <2>1 DEF EndRelease
    <3>2. at_target' \in DOMAIN stmt.targets
      BY <1>3, <2>1, <3>1
    <3>3. StatementIsSound'
      BY <1>1, <3>1, <3>2 DEF AssignmentInvariant, StatementIsSound, Memory, IsGroup
    <3>4. \A j \in DOMAIN stmt.sources : j >= at_target + 1 <=> j > at_target
      BY <1>3
    <3>5. \A j \in DOMAIN stmt.sources : IsRetained(j)' <=> IsRetained(j)
      BY <1>1, <3>1, <3>4 DEF IsRetained, Assigning, IsData, IsGroup
    <3>6. QED BY <3>1, <3>3, <3>5, RetainedIsSame
  <2>2. CASE ~(at_target < Len(stmt.targets))
    <3>1. at_target' = 1 /\ at' = "idle" /\ stmt' = NoStatement
      BY <2>2 DEF EndRelease
    <3>2. stmt'.sources = << >> /\ stmt'.producer = << >> /\ DOMAIN stmt'.sources = {}
      BY <3>1 DEF NoStatement
    <3>3. StatementIsSound'
      BY <3>1, <3>2 DEF StatementIsSound, NoStatement
    <3>4. \A j \in DOMAIN stmt.sources : ~(j > at_target)
      BY <1>3, <2>2
    <3>5. \A j \in DOMAIN stmt.sources : ~IsRetained(j)
      BY <1>1, <3>4 DEF IsRetained, Assigning
    <3>6. \A j \in DOMAIN stmt'.sources : ~IsRetained(j)'
      BY <3>2
    <3>7. QED BY <3>3, <3>5, <3>6, NothingRetained
  <2>3. QED BY <2>1, <2>2
<1>6. \A j : ~IsDue(j) /\ ~IsDue(j)'
  BY <1>1, <1>4 DEF IsDue, Evaluating, Assigning
<1>7. SourcesAreThere'
  BY <1>4, <1>6 DEF SourcesAreThere
<1>8. CellsAreSound'
  BY <1>1 DEF AssignmentInvariant, CellsAreSound, Memory
<1>9. PointerIsSound'
  BY <1>1, <1>2, <1>4 DEF AssignmentInvariant, PointerIsSound
<1>10. held' = held
  <2>1. \A x \in Vars : held[<<"var", x>>] = IF Dangles(x)' THEN None ELSE var'[x]
    BY <1>1, <1>4, HeldAt DEF Dangles
  <2>2. \A c \in Cells : held[<<"next", c>>] = cell'[c].next
    BY <1>1, HeldAt
  <2>3. \A j \in Positions : held[<<"source", j>>] =
           IF IsDue(j)' /\ stmt'.producer[j] THEN stmt'.sources[j] ELSE None
    BY <1>6, HeldAt
  <2>4. held[<<"release", 1>>] = IF at' \in {"freeing", "releasing"} THEN pointer'.from ELSE None
    BY <1>2, <1>4, HeldAt DEF Nowhere
  <2>5. QED BY <2>1, <2>2, <2>3, <2>4, HeldIsAFunction, HeldBecomes
<1>11. IsCounted(arcs, held, retained)'
  BY <1>1, <1>5, <1>10, ArcsAreSame DEF AssignmentInvariant, IsCounted
<1>12. QED BY <1>5, <1>7, <1>8, <1>9, <1>11 DEF AssignmentInvariant

(* The copy goes to the variable or to the field of the last copy. *)
LEMMA CloneStep ==
  ASSUME AssignmentInvariant, Clone
  PROVE  AssignmentInvariant'
<1> DEFINE c == Fresh(Target)
           source == pointer.from
           d == pointer.into
           o == IF d = None THEN <<"var", Target>> ELSE <<"next", d>>
<1>1. /\ at = "clone" /\ HasFresh(Target) /\ Live(source)
      /\ ~stmt.producer[at_target] /\ source \in Memory(Target)
      /\ d # None => IsData(at_target) /\ d \in Slots /\ Live(d) /\ cell[d].next = None
      /\ pointer \in [from : Cells \cup {None}, into : Cells \cup {None}]
  BY DEF Clone, AssignmentInvariant, PointerIsSound
<1>2. /\ Target \in Vars /\ at_target \in DOMAIN stmt.sources /\ at_target \in Nat
      /\ source \in Cells /\ (IsData(at_target) => Target \in DataVars)
  BY <1>1, StatementFacts, SourceFacts, Disjoint DEF AssignmentInvariant, IsData, Target
<1>3. c \in Memory(Target) /\ c \in Cells /\ c # None /\ ~Live(c) /\ arcs[c] = 0
  BY <1>1, <1>2, FreshIsFree, Disjoint DEF AssignmentInvariant
<1>4. /\ AreCells(cell') /\ arcs' = [arcs EXCEPT ![c] = 1] /\ cell'[c] = NewCell
      /\ \A e \in Cells : cell'[e].next = IF <<"next", e>> = o THEN c ELSE cell[e].next
      /\ \A e \in Cells : Live(e) => cell'[e].live
      /\ var' = IF d = None THEN [var EXCEPT ![Target] = c] ELSE var
      /\ o \in Holders /\ held[o] = None
  <2>1. CASE d = None
    <3>1. cell' = [cell EXCEPT ![c] = NewCell] /\ var' = [var EXCEPT ![Target] = c]
      BY <2>1 DEF Clone
    <3>2. /\ AreCells(cell') /\ arcs' = [arcs EXCEPT ![c] = 1] /\ cell'[c] = NewCell
          /\ \A e \in Cells : cell'[e].next = cell[e].next /\ (Live(e) => Live(e)')
      BY <1>1, <1>2, <3>1, NewCells DEF AssignmentInvariant
    <3>3. o = <<"var", Target>> /\ \A e \in Cells : <<"next", e>> # o
      BY <2>1
    <3>4. o \in Holders /\ held[o] = None
      BY <1>1, <1>2, <2>1, <3>3, HeldAt, HolderKinds DEF Dangles
    <3> HIDE DEF c, o
    <3>5. QED BY <2>1, <3>1, <3>2, <3>3, <3>4 DEF Live
  <2>2. CASE d # None
    <3>1. cell' = [cell EXCEPT ![c] = NewCell, ![d].next = c] /\ var' = var
      BY <2>2 DEF Clone
    <3>2. d \in Slots /\ Live(d) /\ Target \in DataVars /\ d \in Cells
      BY <1>1, <1>2, <2>2, Disjoint
    <3>3. /\ AreCells(cell') /\ arcs' = [arcs EXCEPT ![c] = 1] /\ c # d
          /\ cell[c].next = None /\ cell'[c] = NewCell /\ cell'[d].next = c /\ cell'[d].live = cell[d].live
          /\ \A e \in Cells : e # c /\ e # d => cell'[e] = cell[e]
      <4>1. CellsAreSound /\ HasFresh(Target)
        BY <1>1 DEF AssignmentInvariant
      <4> HIDE DEF d
      <4>2. QED BY <3>1, <3>2, <4>1, NewFieldCells
    <3>4. o = <<"next", d>> /\ \A e \in Cells : <<"next", e>> = o <=> e = d
      BY <2>2
    <3>5. o \in Holders /\ held[o] = None
      BY <1>1, <2>2, <3>2, <3>4, HeldAt, HolderKinds
    <3> HIDE DEF c, o, d
    <3>6. \A e \in Cells : cell'[e].next = IF <<"next", e>> = o THEN c ELSE cell[e].next
      BY <3>3, <3>4 DEF NewCell
    <3>7. \A e \in Cells : Live(e) => cell'[e].live
      BY <3>2, <3>3, <1>3 DEF Live
    <3>8. QED BY <2>2, <3>1, <3>3, <3>5, <3>6, <3>7
  <2>3. QED BY <2>1, <2>2
<1>5. /\ var' \in [Vars -> Cells] /\ \A x \in Vars : var'[x] \in Memory(x)
      /\ \A x \in Vars : x # Target \/ d # None => var'[x] = var[x]
      /\ d = None => var'[Target] = c
  <2>1. var \in [Vars -> Cells] /\ \A x \in Vars : var[x] \in Memory(x)
    BY DEF AssignmentInvariant, CellsAreSound
  <2> HIDE DEF c, d, o
  <2>2. QED BY <1>2, <1>3, <1>4, <2>1
<1>6. CellsAreSound'
  BY <1>4, <1>5 DEF AssignmentInvariant, CellsAreSound, Memory
<1>7. cell[source].next # None => IsData(at_target) /\ cell[source].next \in Slots /\ Live(cell[source].next)
  <2>1. ASSUME cell[source].next # None
        PROVE  IsData(at_target) /\ cell[source].next \in Slots /\ Live(cell[source].next)
    <3>1. source \in Slots /\ cell[source].next \in Slots
      BY <1>2, <2>1 DEF AssignmentInvariant, CellsAreSound, AreCells
    <3>2. Target \in DataVars
      BY <1>1, <1>2, <3>1, Disjoint
    <3>3. held[<<"next", source>>] = cell[source].next /\ <<"next", source>> \in Holders
      BY <1>2, HeldAt, HolderKinds
    <3>4. Live(cell[source].next)
      <4>1. cell[source].next \in Cells
        BY <3>1, Disjoint
      <4>2. \E q \in Holders : held[q] = cell[source].next
        BY <3>3
      <4>3. QED BY <4>1, <4>2, HeldIsLive DEF AssignmentInvariant
    <3>5. QED BY <3>1, <3>2, <3>4 DEF IsData, Target
  <2>2. QED BY <2>1
<1>8. /\ PointerIsSound' /\ StatementIsSound' /\ SourcesAreThere' /\ retained' = retained
      /\ \A x \in Vars : ~Dangles(x)'
      /\ \A j \in Positions : IsDue(j)' /\ stmt'.producer[j] <=> IsDue(j) /\ stmt.producer[j]
      /\ \A j \in Positions : IsDue(j)' => stmt' = stmt
      /\ at' \notin {"freeing", "releasing"}
  <2>1. CASE cell[source].next # None
    <3>1. /\ pointer' = [from |-> cell[source].next, into |-> c] /\ stmt' = stmt /\ at' = at /\ at_target' = at_target
      BY <2>1 DEF Clone
    <3>2. /\ \A j : IsDue(j)' <=> IsDue(j)
          /\ \A j : IsRetained(j)' <=> IsRetained(j)
          /\ \A x : ~Dangles(x)'
      BY <1>1, <1>3, <3>1 DEF IsDue, Evaluating, Assigning, IsRetained, IsData, IsGroup, Dangles, Target
    <3>3. StatementIsSound'
      BY <3>1 DEF AssignmentInvariant, StatementIsSound, Memory, IsGroup
    <3>4. retained' = retained
      BY <3>1, <3>2, RetainedIsSame
    <3>5. Target \in DataVars /\ c \in Slots /\ cell[source].next \in Slots /\ Live(cell[source].next)
      BY <1>2, <1>3, <1>7, <2>1, Disjoint
    <3>6. PointerIsSound'
      <4>1. pointer' \in [from : Cells \cup {None}, into : Cells \cup {None}]
        BY <3>1, <3>5, Disjoint
      <4>2. Target' = Target /\ Memory(Target)' = Slots /\ (IsData(at_target)' <=> IsData(at_target))
        BY <3>1, <3>5, Disjoint DEF Target, IsData, Memory
      <4>3. pointer'.from \in Slots /\ cell'[pointer'.from].live
        BY <1>4, <3>1, <3>5, Disjoint
      <4>4. pointer'.into \in Slots /\ cell'[pointer'.into].live /\ cell'[pointer'.into].next = None
        BY <1>4, <3>1, <3>5 DEF NewCell
      <4>5. IsData(at_target)
        BY <1>7, <2>1
      <4>6. QED
        BY <1>1, <3>1, <4>1, <4>2, <4>3, <4>4, <4>5 DEF PointerIsSound, Live
    <3>7. SourcesAreThere'
      <4>1. ASSUME NEW j \in DOMAIN stmt.sources, IsDue(j)', ~stmt.producer[j], ~IsData(j)
            PROVE  \E y \in Vars : Behind(y, j) /\ stmt.sources[j] = var'[y]
        <5>1. IsDue(j) /\ j >= at_target
          BY <1>1, <3>2, <4>1 DEF IsDue, Evaluating
        <5>2. PICK y \in Vars : Behind(y, j) /\ stmt.sources[j] = var[y]
          BY <4>1, <5>1 DEF AssignmentInvariant, SourcesAreThere
        <5>3. at_target \in 1 .. j
          BY <1>1, <5>1, StatementFacts, SourceFacts DEF AssignmentInvariant
        <5>4. y # Target
          BY <5>2, <5>3 DEF Behind, Target
        <5>5. QED BY <1>5, <5>2, <5>4
      <4>2. QED BY <1>1, <3>1, <4>1 DEF SourcesAreThere, IsData, Behind
    <3>8. QED BY <1>1, <3>1, <3>2, <3>3, <3>4, <3>6, <3>7
  <2>2. CASE cell[source].next = None
    <3>1. pointer' = Nowhere /\ NextTarget
      BY <2>2 DEF Clone
    <3>2. /\ StatementIsSound' /\ SourcesAreThere' /\ retained' = retained
          /\ at' \in {"free", "release", "idle"}
          /\ \A j \in Positions : IsDue(j)' <=> IsDue(j) /\ j # at_target
          /\ \A j \in Positions : IsDue(j)' => stmt' = stmt
      BY <1>1, <1>5, <3>1, NextTargetFacts DEF AssignmentInvariant
    <3>3. PointerIsSound'
      BY <3>1, <3>2 DEF PointerIsSound, Nowhere
    <3>4. \A x \in Vars : ~Dangles(x)'
      BY <3>2 DEF Dangles
    <3>5. \A j \in Positions : IsDue(j)' /\ stmt'.producer[j] <=> IsDue(j) /\ stmt.producer[j]
      BY <1>1, <3>2
    <3>6. QED BY <3>2, <3>3, <3>4, <3>5
  <2>3. QED BY <2>1, <2>2
<1>9. held' = [held EXCEPT ![o] = c]
  <2> DEFINE g == [held EXCEPT ![o] = c]
  <2>1. g = [h \in Holders |-> g[h]]
    BY HeldIsAFunction
  <2>2. \A h \in Holders : g[h] = IF h = o THEN c ELSE held[h]
    BY HeldIsAFunction
  <2> HIDE DEF g
  <2>3. \A y \in Vars : g[<<"var", y>>] = IF Dangles(y)' THEN None ELSE var'[y]
    <3>1. SUFFICES ASSUME NEW y \in Vars
                   PROVE  g[<<"var", y>>] = var'[y]
      BY <1>8
    <3>2. <<"var", y>> \in Holders /\ (<<"var", y>> = o <=> d = None /\ y = Target)
      BY HolderKinds
    <3>3. CASE d = None /\ y = Target
      <4>1. g[<<"var", y>>] = c
        BY <2>2, <3>2, <3>3
      <4>2. QED BY <1>5, <3>3, <4>1
    <3>4. CASE ~(d = None /\ y = Target)
      <4>1. ~Dangles(y)
        BY <1>1, <3>4 DEF Dangles
      <4>2. g[<<"var", y>>] = var[y]
        BY <2>2, <3>2, <3>4, <4>1, HeldAt
      <4>3. QED BY <1>5, <3>4, <4>2
    <3>5. QED BY <3>3, <3>4
  <2>4. \A e \in Cells : g[<<"next", e>>] = cell'[e].next
    <3> HIDE DEF c, o
    <3>1. QED BY <1>4, <2>2, HeldAt, HolderKinds
  <2>5. \A j \in Positions : g[<<"source", j>>] =
           IF IsDue(j)' /\ stmt'.producer[j] THEN stmt'.sources[j] ELSE None
    <3>1. \A j \in Positions : <<"source", j>> \in Holders /\ <<"source", j>> # o
      BY HolderKinds
    <3>2. \A j \in Positions : g[<<"source", j>>] = IF IsDue(j) /\ stmt.producer[j] THEN stmt.sources[j] ELSE None
      BY <2>2, <3>1, HeldAt
    <3>3. QED BY <1>8, <3>2
  <2>6. g[<<"release", 1>>] = IF at' \in {"freeing", "releasing"} THEN pointer'.from ELSE None
    <3>1. <<"release", 1>> \in Holders /\ <<"release", 1>> # o
      BY HolderKinds
    <3>2. QED BY <1>1, <1>8, <2>2, <3>1, HeldAt
  <2>7. held' = g
    BY <2>1, <2>3, <2>4, <2>5, <2>6, HeldBecomes
  <2>8. QED BY <2>7 DEF g
<1> HIDE DEF c, o
<1>10. IsCounted(arcs, held, retained)'
  <2>1. IsCounted([arcs EXCEPT ![c] = 1], [held EXCEPT ![o] = c], retained)
    BY <1>3, <1>4, TakeCell DEF AssignmentInvariant
  <2>2. QED BY <1>4, <1>8, <1>9, <2>1 DEF IsCounted
<1>11. QED BY <1>6, <1>8, <1>10 DEF AssignmentInvariant

(* At first every variable holds a value of its own. *)
LEMMA AssignmentInit ==
  ASSUME Init
  PROVE  AssignmentInvariant
<1> DEFINE P(f) == /\ \A x \in Vars : f[x] \in Memory(x)
                   /\ \A x, y \in Vars : f[x] = f[y] => x = y
<1>1. \E f \in [Vars -> Cells] : P(f)
  BY AssignmentAssumption DEF Memory
<1>2. var = CHOOSE f \in [Vars -> Cells] : P(f)
  BY DEF Init
<1>3. var \in [Vars -> Cells] /\ P(var)
  <2> HIDE DEF P
  <2>1. QED BY <1>1, <1>2
<1>4. /\ cell = [c \in Cells |-> IF \E x \in Vars : var[x] = c THEN NewCell ELSE FreeCell]
      /\ stmt = NoStatement /\ at = "idle" /\ at_target = 1 /\ pointer = Nowhere
  BY DEF Init
<1>5. /\ NewCell \in Cell /\ NewCell.live = TRUE /\ NewCell.arc = 1 /\ NewCell.next = None
      /\ FreeCell \in Cell /\ FreeCell.live = FALSE /\ FreeCell.arc = 0 /\ FreeCell.next = None
  BY DEF NewCell, FreeCell, Cell
<1>6. AreCells(cell)
  <2>1. cell \in [Cells -> Cell]
    BY <1>4, <1>5
  <2>2. \A c \in Cells : cell[c] \in {NewCell, FreeCell}
    BY <1>4
  <2>3. QED BY <1>5, <2>1, <2>2 DEF AreCells
<1>7. CellsAreSound
  BY <1>3, <1>6 DEF CellsAreSound
<1>8. PointerIsSound
  BY <1>4 DEF PointerIsSound, Nowhere
<1>9. stmt.sources = << >> /\ stmt.producer = << >> /\ DOMAIN stmt.sources = {}
  BY <1>4 DEF NoStatement
<1>10. StatementIsSound
  BY <1>4, <1>9 DEF StatementIsSound, NoStatement
<1>11. SourcesAreThere
  BY <1>4, <1>9 DEF SourcesAreThere
<1>12. /\ \A x \in Vars : held[<<"var", x>>] = var[x]
       /\ \A c \in Cells : held[<<"next", c>>] = None
       /\ \A j \in Positions : held[<<"source", j>>] = None
       /\ held[<<"release", 1>>] = None
  <2>1. \A x \in Vars : ~Dangles(x)
    BY <1>4 DEF Dangles
  <2>2. \A j \in Positions : ~IsDue(j)
    BY <1>9 DEF IsDue
  <2>3. \A c \in Cells : cell[c].next = None
    BY <1>4, <1>5
  <2>4. QED BY <1>4, <2>1, <2>2, <2>3, HeldAt
<1>13. IsCounted(arcs, held, retained)
  <2>1. arcs \in [Cells -> Nat] /\ \A c \in Cells : arcs[c] = IF \E x \in Vars : var[x] = c THEN 1 ELSE 0
    BY <1>4, <1>5 DEF arcs
  <2>2. held \in [Holders -> Cells \cup {None}]
    <3>1. \A o \in Holders : held[o] \in Cells \cup {None}
      BY <1>3, <1>12, HolderKinds
    <3>2. QED BY <3>1, HeldIsAFunction
  <2>3. \A c \in Cells : retained[c] = {}
    BY <1>9 DEF retained
  <2>4. \A o \in Holders : held[o] # None => \E x \in Vars : o = <<"var", x>> /\ held[o] = var[x]
    BY <1>12, HolderKinds
  <2>5. \A o, p \in Holders : held[o] # None /\ held[o] = held[p] => o = p
    BY <1>3, <2>4
  <2>6. \A c \in Cells : (\E o \in Holders : held[o] = c) <=> (\E x \in Vars : var[x] = c)
    <3>1. SUFFICES ASSUME NEW c \in Cells
                   PROVE  (\E o \in Holders : held[o] = c) <=> (\E x \in Vars : var[x] = c)
      OBVIOUS
    <3>2. c # None
      BY Disjoint
    <3>3. ASSUME NEW o \in Holders, held[o] = c
          PROVE  \E x \in Vars : var[x] = c
      BY <2>4, <3>2, <3>3
    <3>4. ASSUME NEW x \in Vars, var[x] = c
          PROVE  \E o \in Holders : held[o] = c
      BY <1>12, <3>4, HolderKinds
    <3>5. QED BY <3>3, <3>4
  <2>7. IsFiniteSet({}) /\ Cardinality({}) = 0
    BY FS_EmptySet
  <2>8. \A c \in Cells : arcs[c] = (IF \E o \in Holders : held[o] = c THEN 1 ELSE 0) + Cardinality(retained[c])
    <3>1. SUFFICES ASSUME NEW c \in Cells
                   PROVE  arcs[c] = (IF \E o \in Holders : held[o] = c THEN 1 ELSE 0) + Cardinality(retained[c])
      OBVIOUS
    <3>2. Cardinality(retained[c]) = 0
      BY <2>3, <2>7
    <3>3. CASE \E x \in Vars : var[x] = c
      BY <2>1, <2>6, <3>2, <3>3
    <3>4. CASE ~\E x \in Vars : var[x] = c
      BY <2>1, <2>6, <3>2, <3>4
    <3>5. QED BY <3>3, <3>4
  <2>9. QED BY <2>1, <2>2, <2>3, <2>5, <2>7, <2>8 DEF IsCounted
<1>14. QED BY <1>7, <1>8, <1>10, <1>11, <1>13 DEF AssignmentInvariant

(* The invariant is inductive. *)
LEMMA AssignmentNext ==
  ASSUME AssignmentInvariant, Overlapping = {}, [Next]_vars
  PROVE  AssignmentInvariant'
<1>1. CASE Begin
  BY <1>1, BeginStep
<1>2. ASSUME NEW x \in DataVars, Extend(x)
      PROVE  AssignmentInvariant'
  BY <1>2, ExtendStep
<1>3. ASSUME NEW y \in Vars, EvaluateVariable(y)
      PROVE  AssignmentInvariant'
  BY <1>3, EvaluateVariableStep
<1>4. CASE EvaluateProducer
  BY <1>4, EvaluateProducerStep
<1>5. CASE RetainSources
  BY <1>5, RetainSourcesStep
<1>6. CASE FreeTarget
  BY <1>6, FreeTargetStep
<1>7. CASE ReleaseField
  BY <1>7, ReleaseFieldStep
<1>8. CASE Store
  BY <1>8, StoreStep
<1>9. CASE BeginClone
  BY <1>9, BeginCloneStep
<1>10. CASE Clone
  BY <1>10, CloneStep
<1>11. CASE ReleaseSource
  BY <1>11, ReleaseSourceStep
<1>12. CASE EndRelease
  BY <1>12, EndReleaseStep
<1>13. CASE UNCHANGED vars
  <2>1. /\ cell' = cell /\ var' = var /\ stmt' = stmt /\ at' = at /\ at_target' = at_target /\ pointer' = pointer
    BY <1>13 DEF vars
  <2>2. CellsAreSound' /\ PointerIsSound' /\ StatementIsSound'
    BY <2>1 DEF AssignmentInvariant, CellsAreSound, PointerIsSound, StatementIsSound, Memory, IsGroup, Target, IsData, Live
  <2>3. /\ \A j : IsDue(j)' <=> IsDue(j)
        /\ \A j : IsRetained(j)' <=> IsRetained(j)
        /\ \A x : Dangles(x)' <=> Dangles(x)
    BY <2>1 DEF IsDue, Evaluating, Assigning, IsRetained, IsData, IsGroup, Dangles, Target
  <2>4. SourcesAreThere'
    BY <2>1 DEF AssignmentInvariant, SourcesAreThere, IsDue, Evaluating, Assigning, IsData, IsGroup, Behind, Live
  <2>5. held' = held
    BY <2>1, <2>3, HeldAt, HeldIsAFunction, HeldBecomes
  <2>6. retained' = retained
    BY <2>1, <2>3, RetainedIsSame
  <2>7. IsCounted(arcs, held, retained)'
    BY <2>1, <2>5, <2>6, ArcsAreSame DEF AssignmentInvariant, IsCounted
  <2>8. QED BY <2>2, <2>4, <2>7 DEF AssignmentInvariant
<1>14. QED
  BY <1>1, <1>2, <1>3, <1>4, <1>5, <1>6, <1>7, <1>8, <1>9, <1>10, <1>11, <1>12, <1>13 DEF Next

(* Between statements the counts are those of the owners. *)
LEMMA OneOwner ==
  ASSUME AssignmentInvariant, at = "idle", NEW c \in Cells
  PROVE  IF Live(c) THEN Cardinality(OwnersOf(c)) = 1 /\ cell[c].arc = 1 ELSE OwnersOf(c) = {}
<1>1. DOMAIN stmt.sources = {}
  BY DEF AssignmentInvariant, StatementIsSound, NoStatement
<1>2. /\ \A x \in Vars : held[<<"var", x>>] = var[x]
      /\ \A d \in Cells : held[<<"next", d>>] = cell[d].next
      /\ \A j \in Positions : held[<<"source", j>>] = None
      /\ held[<<"release", 1>>] = None
  <2>1. \A x \in Vars : ~Dangles(x)
    BY DEF Dangles
  <2>2. \A j \in Positions : ~IsDue(j)
    BY <1>1 DEF IsDue
  <2>3. QED BY <2>1, <2>2, HeldAt
<1>3. \A w : w \in OwnersOf(c) <=> \/ w \in Vars /\ held[<<"var", w>>] = c
                                   \/ w \in Cells /\ held[<<"next", w>>] = c
  BY <1>2 DEF OwnersOf
<1>4. c # None /\ AreCells(cell) /\ cell[c].arc = arcs[c]
  BY Disjoint DEF AssignmentInvariant, CellsAreSound, arcs
<1>5. CASE Live(c)
  <2>1. retained[c] = {}
    BY <1>1 DEF retained
  <2>2. arcs[c] # 0
    BY <1>4, <1>5 DEF AreCells, Live
  <2>3. arcs[c] = (IF \E o \in Holders : held[o] = c THEN 1 ELSE 0) + 0
    BY <2>1, FS_EmptySet DEF AssignmentInvariant, IsCounted
  <2>4. PICK o \in Holders : held[o] = c
    BY <2>2, <2>3
  <2>5. arcs[c] = 1
    BY <2>3, <2>4
  <2>6. \A p \in Holders : held[p] = c => p = o
    BY <1>4, <2>4 DEF AssignmentInvariant, IsCounted
  <2>7. PICK w : OwnersOf(c) = {w}
    <3>1. CASE \E x \in Vars : o = <<"var", x>>
      <4>1. PICK x \in Vars : o = <<"var", x>>
        BY <3>1
      <4>2. \A w \in Vars : held[<<"var", w>>] = c <=> w = x
        BY <2>4, <2>6, <4>1, HolderKinds
      <4>3. \A w \in Cells : held[<<"next", w>>] # c
        BY <2>6, <4>1, HolderKinds
      <4>4. OwnersOf(c) = {x}
        <5>1. \A w : w \in OwnersOf(c) <=> w = x
          BY <1>3, <4>1, <4>2, <4>3
        <5> DEFINE owners == OwnersOf(c)
        <5> HIDE DEF owners
        <5>2. owners = {x}
          BY <5>1 DEF owners
        <5>3. QED BY <5>2 DEF owners
      <4>5. QED BY <4>4
    <3>2. CASE \E d \in Cells : o = <<"next", d>>
      <4>1. PICK d \in Cells : o = <<"next", d>>
        BY <3>2
      <4>2. \A w \in Cells : held[<<"next", w>>] = c <=> w = d
        BY <2>4, <2>6, <4>1, HolderKinds
      <4>3. \A w \in Vars : held[<<"var", w>>] # c
        BY <2>6, <4>1, HolderKinds
      <4>4. OwnersOf(c) = {d}
        <5>1. \A w : w \in OwnersOf(c) <=> w = d
          BY <1>3, <4>1, <4>2, <4>3
        <5> DEFINE owners == OwnersOf(c)
        <5> HIDE DEF owners
        <5>2. owners = {d}
          BY <5>1 DEF owners
        <5>3. QED BY <5>2 DEF owners
      <4>5. QED BY <4>4
    <3>3. QED BY <1>2, <1>4, <2>4, <3>1, <3>2, HolderKinds
  <2>8. QED BY <1>4, <1>5, <2>5, <2>7, FS_Singleton
<1>6. CASE ~Live(c)
  <2>1. arcs[c] = 0
    <3>1. cell[c] = FreeCell
      BY <1>4, <1>6 DEF AreCells, Live
    <3>2. QED BY <1>4, <3>1 DEF FreeCell
  <2>2. \A o \in Holders : held[o] # c
    BY <2>1, NobodyHolds DEF AssignmentInvariant
  <2>3. OwnersOf(c) = {}
    BY <1>3, <2>2, HolderKinds
  <2>4. QED BY <1>6, <2>3
<1>7. QED BY <1>5, <1>6

(* The invariant says that assignments are safe. *)
LEMMA AssignmentSafe ==
  ASSUME AssignmentInvariant
  PROVE  AssignmentsAreSafe
<1>1. TypeOK
  <2>1. stmt.targets \in Seq(Vars) /\ at_target \in IF at = "idle" THEN {1} ELSE DOMAIN stmt.targets
    <3>1. CASE at = "idle"
      BY <3>1 DEF AssignmentInvariant, StatementIsSound, NoStatement
    <3>2. CASE at # "idle"
      BY <3>2, StatementFacts DEF AssignmentInvariant, StatementIsSound
    <3>3. QED BY <3>1, <3>2
  <2>2. QED
    BY <2>1 DEF AssignmentInvariant, CellsAreSound, AreCells, PointerIsSound, StatementIsSound, TypeOK
<1>2. NoUseAfterFree
  <2>1. ASSUME at = "clone"
        PROVE  Live(pointer.from)
    BY <2>1 DEF AssignmentInvariant, PointerIsSound
  <2>2. ASSUME at = "free"
        PROVE  Live(var[Target])
    <3>1. Target \in Vars /\ var[Target] \in Cells
      BY <2>2, StatementFacts DEF AssignmentInvariant, CellsAreSound
    <3>2. held[<<"var", Target>>] = var[Target] /\ <<"var", Target>> \in Holders
      BY <2>2, <3>1, HeldAt, HolderKinds DEF Dangles
    <3>3. QED BY <3>1, <3>2, HeldIsLive DEF AssignmentInvariant
  <2>3. ASSUME at = "release", IsData(at_target)
        PROVE  Live(Source)
    <3>1. IsGroup /\ at_target \in DOMAIN stmt.sources /\ Source = stmt.sources[at_target] /\ Source \in Cells
          /\ at_target \in Nat
      BY <2>3, SourceFacts, StatementFacts DEF AssignmentInvariant, StatementIsSound, Source
    <3>2. at_target \in retained[Source]
      BY <2>3, <3>1 DEF retained, IsRetained
    <3>3. retained[Source] # {}
      BY <3>2
    <3>4. QED BY <3>1, <3>3, HeldIsLive DEF AssignmentInvariant
  <2>4. ASSUME at \in {"freeing", "releasing"}, pointer.from # None
        PROVE  Live(pointer.from)
    <3>1. pointer.from \in Cells
      BY <2>4, Disjoint DEF AssignmentInvariant, PointerIsSound
    <3>2. held[<<"release", 1>>] = pointer.from /\ <<"release", 1>> \in Holders
      BY <2>4, HeldAt, HolderKinds
    <3>3. QED BY <3>1, <3>2, HeldIsLive DEF AssignmentInvariant
  <2>5. QED BY <2>1, <2>2, <2>3, <2>4 DEF NoUseAfterFree
<1>3. EveryValueHasOneOwner
  BY OneOwner DEF EveryValueHasOneOwner
<1>4. QED BY <1>1, <1>2, <1>3 DEF AssignmentsAreSafe

(* Nothing uses memory it freed, and between statements every value in use
   has one owner and a count of one: for every number of variables and of
   values and every length of lists and groups, in programs without
   statements that read what they free (generate_assignment and
   generate_group_assignment). *)
THEOREM AssignmentsStaySafe ==
  ASSUME Overlapping = {}
  PROVE  Spec => []AssignmentsAreSafe
<1>1. Init => AssignmentInvariant
  BY AssignmentInit
<1>2. AssignmentInvariant /\ [Next]_vars => AssignmentInvariant'
  BY AssignmentNext
<1>3. AssignmentInvariant => AssignmentsAreSafe
  BY AssignmentSafe
<1>4. QED BY <1>1, <1>2, <1>3, PTL DEF Spec

----------------------------------------
(* Assignments: the values that are assigned. *)

(* The targets of a group are different variables. *)
TargetsDiffer ==
  \A targets \in TargetLists : \A i, j \in DOMAIN targets : targets[i] = targets[j] => i = j

(* NextOf that lead from value to value to an end, with the length of the
   list that starts at each. *)
NextOf(ce) == [c \in Cells |-> ce[c].next]

AreLists(nx, len, end) ==
  /\ nx \in [Cells -> Cells \cup {None}] /\ len \in [Cells -> Nat] /\ end \in [Cells -> Cells]
  /\ \A c \in Cells : /\ len[c] = IF nx[c] = None THEN 1 ELSE len[nx[c]] + 1
                      /\ end[c] = IF nx[c] = None THEN c ELSE end[nx[c]]

(* Sources that are still to be copied or stored, and targets that have
   been assigned to. *)
IsLater(j) ==
  /\ j \in DOMAIN stmt.sources
  /\ \/ Evaluating
     \/ at \in {"free", "freeing"} /\ j >= at_target
     \/ at = "clone" /\ j > at_target
IsDone(j) ==
  /\ j \in DOMAIN stmt.sources
  /\ (Assigning /\ j < at_target) \/ at \in {"release", "releasing"}

(* Every value has the length it was read with: before it is copied, while
   it is, and in the target. *)
HasLengths(len, end) ==
  /\ AreLists(NextOf(cell), len, end)
  /\ stmt.wanted \in Seq(Nat) /\ Len(stmt.wanted) = Len(stmt.sources)
  /\ \A j \in Positions : IsLater(j) => len[stmt.sources[j]] = stmt.wanted[j]
  /\ \A j \in Positions : IsDone(j) => len[var[stmt.targets[j]]] = stmt.wanted[j]
  /\ at = "clone" /\ pointer.into = None => len[pointer.from] = stmt.wanted[at_target]
  /\ at = "clone" /\ pointer.into # None =>
       /\ end[var[Target]] = pointer.into /\ end[pointer.from] # pointer.into
       /\ len[var[Target]] + len[pointer.from] = stmt.wanted[at_target]
       /\ \A j \in Positions : IsLater(j) => end[stmt.sources[j]] # pointer.into
       /\ \A j \in Positions : IsDone(j) => end[var[stmt.targets[j]]] # pointer.into

ValuesAreWhole == \E len \in [Cells -> Nat], end \in [Cells -> Cells] : HasLengths(len, end)

----------------------------------------
(* What holds of the last value of a list, and with the next one of each,
   holds of all. *)
LEMMA ListInduction ==
  ASSUME NEW nx, NEW len, NEW end, AreLists(nx, len, end),
         NEW T, \A c \in Cells : nx[c] = None \/ nx[c] \in T => c \in T
  PROVE  Cells \subseteq T
<1>. DEFINE N == {n \in Nat : \A c \in Cells : len[c] <= n => c \in T}
<1>1. \A c \in Cells : len[c] \in Nat /\ (nx[c] # None => nx[c] \in Cells)
  BY DEF AreLists
<1>2. \A c \in Cells : IF nx[c] = None THEN len[c] = 1 ELSE len[c] = len[nx[c]] + 1
  BY DEF AreLists
<1>3. 0 \in N
  BY <1>1, <1>2
<1>4. ASSUME NEW n \in Nat, n \in N
      PROVE  n + 1 \in N
  <2>1. ASSUME NEW c \in Cells, len[c] <= n + 1
        PROVE  c \in T
    <3>1. CASE nx[c] = None
      BY <3>1
    <3>2. CASE nx[c] # None
      <4>1. nx[c] \in Cells /\ len[nx[c]] <= n
        BY <1>1, <1>2, <2>1, <3>2
      <4>. QED BY <4>1, <1>4
    <3>. QED BY <3>1, <3>2
  <2>. QED BY <2>1
<1>. HIDE DEF N
<1>5. Nat \subseteq N
  BY <1>3, <1>4, SetInduction
<1>. QED BY <1>1, <1>5 DEF N

(* The end of a list is in some field, if it is not where the list starts. *)
LEMMA EndsAreBehind ==
  ASSUME NEW nx, NEW len, NEW end, AreLists(nx, len, end),
         NEW f \in Cells, \A b \in Cells : nx[b] # f, NEW c \in Cells, end[c] = f
  PROVE  c = f
<1>. DEFINE T == {d \in Cells : end[d] = f => d = f}
<1>1. ASSUME NEW d \in Cells, nx[d] = None \/ nx[d] \in T
      PROVE  d \in T
  <2>1. CASE nx[d] = None
    BY <2>1 DEF AreLists
  <2>2. CASE nx[d] # None
    <3>1. nx[d] \in T /\ end[d] = end[nx[d]] /\ nx[d] # f
      BY <1>1, <2>2 DEF AreLists
    <3>. QED BY <3>1
  <2>. QED BY <2>1, <2>2
<1>. HIDE DEF T
<1>2. c \in T
  BY <1>1, ListInduction
<1>. QED BY <1>2 DEF T

(* A value is put behind the end of a list. *)
IsExtension(len2, end2, len, end, e, f) ==
  \A t \in Cells : IF end[t] = e THEN len2[t] = len[t] + 1 /\ end2[t] = f
                                  ELSE len2[t] = len[t] /\ end2[t] = end[t]

(* The lists with this end are one longer and have the new one. *)
LEMMA ListsAreExtended ==
  ASSUME NEW nx, NEW len, NEW end, AreLists(nx, len, end), None \notin Cells,
         NEW e \in Cells, NEW f \in Cells, e # f, nx[e] = None, nx[f] = None
  PROVE  \E len2, end2 : AreLists([nx EXCEPT ![e] = f], len2, end2) /\ IsExtension(len2, end2, len, end, e, f)
<1>. DEFINE g == [nx EXCEPT ![e] = f]
            l == [c \in Cells |-> IF end[c] = e THEN len[c] + 1 ELSE len[c]]
            d == [c \in Cells |-> IF end[c] = e THEN f ELSE end[c]]
<1>1. /\ g \in [Cells -> Cells \cup {None}] /\ g[e] = f /\ \A c \in Cells : c # e => g[c] = nx[c]
      /\ l \in [Cells -> Nat] /\ d \in [Cells -> Cells]
  BY DEF AreLists
<1>2. \A c \in Cells : /\ l[c] = IF end[c] = e THEN len[c] + 1 ELSE len[c]
                       /\ d[c] = IF end[c] = e THEN f ELSE end[c]
  OBVIOUS
<1>. HIDE DEF g, l, d
<1>3. ASSUME NEW c \in Cells
      PROVE  /\ l[c] = IF g[c] = None THEN 1 ELSE l[g[c]] + 1
             /\ d[c] = IF g[c] = None THEN c ELSE d[g[c]]
  <2>1. len[c] \in Nat /\ (nx[c] # None => nx[c] \in Cells /\ len[nx[c]] \in Nat)
    BY DEF AreLists
  <2>2. CASE c = e
    <3>1. end[e] = e /\ len[e] = 1 /\ end[f] = f /\ len[f] = 1
      BY DEF AreLists
    <3>. QED BY <1>1, <1>2, <2>2, <3>1
  <2>3. CASE c # e /\ nx[c] = None
    <3>1. end[c] = c /\ len[c] = 1
      BY <2>3 DEF AreLists
    <3>. QED BY <1>1, <1>2, <2>3, <3>1
  <2>4. CASE c # e /\ nx[c] # None
    <3>1. end[c] = end[nx[c]] /\ len[c] = len[nx[c]] + 1
      BY <2>4 DEF AreLists
    <3>. QED BY <1>1, <1>2, <2>1, <2>4, <3>1
  <2>. QED BY <2>2, <2>3, <2>4
<1>4. AreLists(g, l, d)
  BY <1>1, <1>3 DEF AreLists
<1>5. IsExtension(l, d, len, end, e, f)
  BY <1>2 DEF IsExtension
<1>6. g = [nx EXCEPT ![e] = f]
  BY DEF g
<1>. QED BY <1>4, <1>5, <1>6

(* The first value of a list is given back. *)
LEMMA ListsAreCut ==
  ASSUME NEW nx, NEW len, NEW end, AreLists(nx, len, end),
         NEW c \in Cells, \A b \in Cells : nx[b] # c
  PROVE  AreLists([nx EXCEPT ![c] = None], [len EXCEPT ![c] = 1], [end EXCEPT ![c] = c])
<1>. DEFINE g == [nx EXCEPT ![c] = None]
            l == [len EXCEPT ![c] = 1]
            d == [end EXCEPT ![c] = c]
<1>1. /\ g \in [Cells -> Cells \cup {None}] /\ g[c] = None /\ \A e \in Cells : e # c => g[e] = nx[e]
      /\ l \in [Cells -> Nat] /\ l[c] = 1 /\ \A e \in Cells : e # c => l[e] = len[e]
      /\ d \in [Cells -> Cells] /\ d[c] = c /\ \A e \in Cells : e # c => d[e] = end[e]
  BY DEF AreLists
<1>. HIDE DEF g, l, d
<1>2. ASSUME NEW e \in Cells
      PROVE  /\ l[e] = IF g[e] = None THEN 1 ELSE l[g[e]] + 1
             /\ d[e] = IF g[e] = None THEN e ELSE d[g[e]]
  <2>1. CASE e = c
    BY <1>1, <2>1
  <2>2. CASE e # c
    <3>1. /\ len[e] = IF nx[e] = None THEN 1 ELSE len[nx[e]] + 1
          /\ end[e] = IF nx[e] = None THEN e ELSE end[nx[e]]
          /\ nx[e] \in Cells \cup {None} /\ nx[e] # c
      BY DEF AreLists
    <3>. QED BY <1>1, <2>2, <3>1
  <2>. QED BY <2>1, <2>2
<1>3. AreLists(g, l, d)
  BY <1>1, <1>2 DEF AreLists
<1>. QED BY <1>3 DEF g, l, d

(* Following fields as often as there are cells reaches what a list has. *)
IsFollowed(all, c, nx) ==
  /\ all \subseteq Cells /\ c \in all
  /\ \A d \in all : nx[d] # None => nx[d] \in all
  /\ \A X \in SUBSET Cells : c \in X /\ (\A d \in X : nx[d] # None => nx[d] \in X) => all \subseteq X

ChainIn(ce, c) ==
  LET reached[n \in 0 .. Cardinality(Cells)] ==
        IF n = 0 THEN {c} ELSE reached[n - 1] \cup ({ce[d].next : d \in reached[n - 1]} \ {None})
  IN  reached[Cardinality(Cells)]

(* Chain is the least set with the value that its fields stay within. *)
LEMMA ChainIsFollowed ==
  ASSUME IsFiniteSet(Cells), None \notin Cells, NEW ce, NextOf(ce) \in [Cells -> Cells \cup {None}],
         NEW c \in Cells
  PROVE  IsFollowed(ChainIn(ce, c), c, NextOf(ce))
<1>. DEFINE N == Cardinality(Cells)
            nx == NextOf(ce)
            grow == [X \in SUBSET Cells |-> X \cup ({nx[d] : d \in X} \ {None})]
            Reached(r) == r = [n \in 0 .. N |->
              IF n = 0 THEN {c} ELSE r[n - 1] \cup ({ce[d].next : d \in r[n - 1]} \ {None})]
<1>1. N \in Nat /\ nx \in [Cells -> Cells \cup {None}] /\ \A d \in Cells : nx[d] = ce[d].next
  BY FS_CardinalityType DEF NextOf
<1>2. ChainIn(ce, c) = (CHOOSE r : Reached(r))[N]
  BY DEF ChainIn
<1>. HIDE DEF N, nx
<1>3. \A X \in SUBSET Cells : grow[X] = X \cup ({nx[d] : d \in X} \ {None})
  OBVIOUS
<1>4. grow \in [SUBSET Cells -> SUBSET Cells]
  BY <1>1
<1>. HIDE DEF grow
<1>5. IsGrowth(grow, Cells)
  BY <1>3, <1>4 DEF IsGrowth
<1>6. PICK g \in [Nat -> SUBSET Cells] :
        /\ g = [n \in Nat |-> IF n = 0 THEN {c} ELSE grow[g[n - 1]]]
        /\ IsLeastClosed(g[N], {c}, grow, Cells)
  <2>1. {c} \in SUBSET Cells
    OBVIOUS
  <2>. QED BY <1>5, <2>1, GrowthDefined DEF N
<1>7. \A n \in Nat : g[n] = IF n = 0 THEN {c} ELSE grow[g[n - 1]]
  BY <1>6
<1>8. \A n \in Nat : n # 0 => g[n] = g[n - 1] \cup ({ce[d].next : d \in g[n - 1]} \ {None})
  <2>1. ASSUME NEW n \in Nat, n # 0
        PROVE  g[n] = g[n - 1] \cup ({ce[d].next : d \in g[n - 1]} \ {None})
    <3>1. n - 1 \in Nat
      BY <2>1
    <3>2. g[n - 1] \in SUBSET Cells /\ g[n] = grow[g[n - 1]]
      BY <2>1, <3>1, <1>7
    <3>3. {nx[d] : d \in g[n - 1]} = {ce[d].next : d \in g[n - 1]}
      BY <3>2, <1>1
    <3>. QED BY <3>2, <3>3, <1>3
  <2>. QED BY <2>1
<1>9. Reached([n \in 0 .. N |-> g[n]])
  <2>. DEFINE h == [n \in 0 .. N |-> g[n]]
              t == [n \in 0 .. N |->
                     IF n = 0 THEN {c} ELSE h[n - 1] \cup ({ce[d].next : d \in h[n - 1]} \ {None})]
  <2>1. ASSUME NEW n \in 0 .. N
        PROVE  h[n] = t[n]
    <3>1. CASE n = 0
      BY <3>1, <1>7
    <3>2. CASE n # 0
      <4>1. n - 1 \in 0 .. N /\ h[n - 1] = g[n - 1] /\ h[n] = g[n] /\ n \in Nat
        BY <3>2, <1>1
      <4>2. t[n] = h[n - 1] \cup ({ce[d].next : d \in h[n - 1]} \ {None})
        BY <3>2
      <4>. HIDE DEF h, t
      <4>. QED BY <4>1, <4>2, <3>2, <1>8
    <3>. QED BY <3>1, <3>2
  <2>2. h = t
    BY <2>1
  <2>. QED BY <2>2
<1>10. ASSUME NEW r, Reached(r)
       PROVE  r[N] = g[N]
  <2>. DEFINE T == {n \in Nat : n <= N => r[n] = g[n]}
  <2>1. \A n \in 0 .. N : r[n] = IF n = 0 THEN {c} ELSE r[n - 1] \cup ({ce[d].next : d \in r[n - 1]} \ {None})
    BY <1>10
  <2>2. 0 \in T
    <3>1. 0 \in 0 .. N /\ 0 \in Nat
      BY <1>1
    <3>2. r[0] = {c} /\ g[0] = {c}
      BY <3>1, <2>1, <1>7
    <3>. QED BY <3>1, <3>2
  <2>3. ASSUME NEW n \in Nat, n \in T
        PROVE  n + 1 \in T
    <3>1. SUFFICES ASSUME n + 1 <= N
                   PROVE  r[n + 1] = g[n + 1]
      OBVIOUS
    <3>2. r[n] = g[n] /\ n + 1 \in 0 .. N /\ (n + 1) - 1 = n /\ n + 1 # 0 /\ n + 1 \in Nat
      BY <2>3, <3>1, <1>1
    <3>3. r[n + 1] = r[n] \cup ({ce[d].next : d \in r[n]} \ {None})
      BY <2>1, <3>2
    <3>4. g[n + 1] = g[n] \cup ({ce[d].next : d \in g[n]} \ {None})
      BY <1>8, <3>2
    <3>. QED BY <3>2, <3>3, <3>4
  <2>. HIDE DEF T
  <2>4. Nat \subseteq T
    BY <2>2, <2>3, SetInduction
  <2>. QED BY <2>4, <1>1 DEF T
<1>. HIDE DEF Reached
<1>11. ChainIn(ce, c) = g[N]
  BY <1>2, <1>9, <1>10
<1>12. /\ g[N] \subseteq Cells /\ {c} \subseteq g[N] /\ grow[g[N]] = g[N]
       /\ \A X \in SUBSET Cells : {c} \subseteq X /\ grow[X] = X => g[N] \subseteq X
  BY <1>6 DEF IsLeastClosed
<1>13. \A X \in SUBSET Cells : grow[X] = X <=> \A d \in X : nx[d] # None => nx[d] \in X
  <2>. TAKE X \in SUBSET Cells
  <2>1. grow[X] = X \cup ({nx[d] : d \in X} \ {None})
    BY <1>3
  <2>2. (\A d \in X : nx[d] # None => nx[d] \in X) => {nx[d] : d \in X} \ {None} \subseteq X
    OBVIOUS
  <2>3. {nx[d] : d \in X} \ {None} \subseteq X => \A d \in X : nx[d] # None => nx[d] \in X
    OBVIOUS
  <2>4. grow[X] = X <=> {nx[d] : d \in X} \ {None} \subseteq X
    BY <2>1
  <2>. QED BY <2>2, <2>3, <2>4
<1>14. IsFollowed(g[N], c, nx)
  BY <1>12, <1>13 DEF IsFollowed
<1>. QED BY <1>11, <1>14 DEF nx

(* So a list has as many values as its length says. *)
LEMMA LengthsAre ==
  ASSUME IsFiniteSet(Cells), None \notin Cells,
         NEW ce, NEW len, NEW end, AreLists(NextOf(ce), len, end), NEW c \in Cells
  PROVE  Cardinality(ChainIn(ce, c)) = len[c]
<1>. DEFINE nx == NextOf(ce)
            T == {d \in Cells : Cardinality(ChainIn(ce, d)) = len[d]}
<1>1. /\ nx \in [Cells -> Cells \cup {None}] /\ len \in [Cells -> Nat] /\ AreLists(nx, len, end)
      /\ \A d \in Cells : len[d] = IF nx[d] = None THEN 1 ELSE len[nx[d]] + 1
  BY DEF AreLists
<1>2. \A d \in Cells : IsFollowed(ChainIn(ce, d), d, nx)
  BY <1>1, ChainIsFollowed
<1>. HIDE DEF nx
<1>3. ASSUME NEW d \in Cells, nx[d] = None \/ nx[d] \in T
      PROVE  d \in T
  <2>1. CASE nx[d] = None
    <3>1. ChainIn(ce, d) \subseteq {d} /\ d \in ChainIn(ce, d)
      <4>1. {d} \in SUBSET Cells /\ d \in {d} /\ \A a \in {d} : nx[a] # None => nx[a] \in {d}
        BY <2>1
      <4>2. IsFollowed(ChainIn(ce, d), d, nx)
        BY <1>2
      <4>. QED BY <4>1, <4>2 DEF IsFollowed
    <3>2. ChainIn(ce, d) = {d}
      BY <3>1
    <3>3. Cardinality(ChainIn(ce, d)) = 1
      BY <3>2, FS_Singleton
    <3>. QED BY <3>3, <2>1, <1>1
  <2>2. CASE nx[d] # None
    <3>. DEFINE e == nx[d]
    <3>1. e \in Cells /\ Cardinality(ChainIn(ce, e)) = len[e] /\ len[d] = len[e] + 1 /\ len[e] \in Nat
      BY <2>2, <1>1, <1>3
    <3>2. IsFollowed(ChainIn(ce, e), e, nx) /\ IsFollowed(ChainIn(ce, d), d, nx)
      BY <3>1, <1>2
    <3>3. ChainIn(ce, d) = ChainIn(ce, e) \cup {d}
      <4>1. ChainIn(ce, d) \subseteq ChainIn(ce, e) \cup {d}
        BY <3>2 DEF IsFollowed
      <4>2. d \in ChainIn(ce, d) /\ e \in ChainIn(ce, d)
        BY <2>2, <3>2 DEF IsFollowed
      <4>3. ChainIn(ce, e) \subseteq ChainIn(ce, d)
        BY <3>2, <4>2 DEF IsFollowed
      <4>. QED BY <4>1, <4>2, <4>3
    <3>4. d \notin ChainIn(ce, e)
      <4>. DEFINE X == {a \in Cells : len[a] <= len[e]}
      <4>1. \A a \in X : nx[a] # None => nx[a] \in X
        BY <1>1, <3>1
      <4>2. e \in X /\ d \notin X /\ X \in SUBSET Cells
        BY <3>1
      <4>. HIDE DEF X
      <4>. QED BY <3>2, <4>1, <4>2 DEF IsFollowed
    <3>5. IsFiniteSet(ChainIn(ce, e))
      BY <3>2, FS_Subset DEF IsFollowed
    <3>. HIDE DEF e
    <3>6. Cardinality(ChainIn(ce, d)) = Cardinality(ChainIn(ce, e)) + 1
      BY <3>3, <3>4, <3>5, FS_AddElement
    <3>. QED BY <3>1, <3>6
  <2>. QED BY <2>1, <2>2
<1>. HIDE DEF T
<1>4. c \in T
  BY <1>1, <1>3, ListInduction
<1>. QED BY <1>4 DEF T

----------------------------------------
(* What a statement still needs is kept: retained by the group, or held by
   someone who is not about to release it. *)
IsKept(t) ==
  /\ t \in Cells
  /\ \/ Assigning /\ retained[t] # {}
     \/ \E o \in Holders : held[o] = t /\ o # <<"release", 1>> /\ (Assigning => o # <<"var", Target>>)

(* A value still to be copied or stored is kept by what holds it. *)
LEMMA LaterIsKept ==
  ASSUME AssignmentInvariant, Assigning, NEW j \in Positions, IsLater(j)
  PROVE  IsKept(stmt.sources[j])
<1>1. /\ StatementIsSound /\ SourcesAreThere /\ at # "idle" /\ at \in {"free", "freeing", "clone"}
      /\ at_target \in Nat /\ 1 <= at_target /\ Target \in Vars /\ stmt.targets \in Seq(Vars)
      /\ j \in DOMAIN stmt.sources /\ j >= at_target /\ (at = "clone" => j > at_target)
      /\ stmt.sources[j] \in Cells /\ IsDue(j)
  BY StatementFacts, SourceFacts DEF AssignmentInvariant, Assigning, Evaluating, IsLater, IsDue, Positions
<1>2. Len(stmt.sources) = Len(stmt.targets) /\ DOMAIN stmt.sources = 1 .. Len(stmt.targets)
  BY <1>1, SourceFacts DEF StatementIsSound
<1>3. CASE stmt.producer[j]
  <2>1. held[<<"source", j>>] = stmt.sources[j] /\ <<"source", j>> \in Holders
    BY <1>1, <1>3, HeldAt, HolderKinds
  <2>. QED BY <1>1, <2>1 DEF IsKept
<1>4. CASE IsData(j) /\ IsGroup
  <2>1. j \in retained[stmt.sources[j]]
    BY <1>1, <1>4 DEF retained, IsRetained
  <2>. QED BY <1>1, <2>1 DEF IsKept
<1>5. ASSUME NEW y \in Vars, Behind(y, j)
      PROVE  held[<<"var", y>>] = var[y] /\ <<"var", y>> \in Holders /\ y # Target
  <2>1. at_target \in 1 .. j
    BY <1>1 DEF Positions
  <2>2. y # Target
    BY <1>5, <2>1 DEF Behind, Target
  <2>. QED BY <2>2, HeldAt, HolderKinds DEF Dangles
<1>6. CASE ~stmt.producer[j] /\ ~IsData(j)
  <2>1. PICK y \in Vars : Behind(y, j) /\ stmt.sources[j] = var[y]
    BY <1>1, <1>6 DEF SourcesAreThere
  <2>. QED BY <1>1, <1>5, <2>1 DEF IsKept
<1>7. CASE ~stmt.producer[j] /\ IsData(j) /\ ~IsGroup
  <2>1. Len(stmt.targets) = 1 /\ j = 1 /\ at_target = 1 /\ at \in {"free", "freeing"}
    <3>1. PICK n \in Nat : n = Len(stmt.targets) /\ n >= 1 /\ at_target <= n
      BY <1>1, StatementFacts
    <3>2. ~(n > 1)
      BY <3>1, <1>7 DEF IsGroup
    <3>3. n = 1
      <4>1. \A m \in Nat : m >= 1 /\ ~(m > 1) => m = 1
        OBVIOUS
      <4>. QED BY <3>1, <3>2, <4>1, Zenon
    <3>4. j = 1 /\ at_target = 1
      BY <1>1, <1>2, <3>1, <3>3
    <3>. QED BY <1>1, <3>1, <3>3, <3>4
  <2>2. PICK y \in Vars : Behind(y, 1) /\ stmt.sources[1] \in {var[y], cell[var[y]].next}
    BY <1>1, <1>7, <2>1 DEF SourcesAreThere
  <2>3. held[<<"var", y>>] = var[y] /\ <<"var", y>> \in Holders /\ y # Target /\ var[y] \in Cells
    BY <1>5, <2>1, <2>2 DEF AssignmentInvariant, CellsAreSound
  <2>4. held[<<"next", var[y]>>] = cell[var[y]].next /\ <<"next", var[y]>> \in Holders
    BY <2>3, HeldAt, HolderKinds
  <2>. QED BY <1>1, <2>1, <2>2, <2>3, <2>4 DEF IsKept
<1>. QED BY <1>3, <1>4, <1>6, <1>7

(* So is one that was assigned, by a target that is not the current one. *)
LEMMA DoneIsKept ==
  ASSUME AssignmentInvariant, TargetsDiffer, NEW j \in Positions, IsDone(j)
  PROVE  /\ IsKept(var[stmt.targets[j]]) /\ j \in DOMAIN stmt.targets /\ stmt.targets[j] \in Vars
         /\ Assigning => stmt.targets[j] # Target
<1>1. /\ StatementIsSound /\ at \in {"free", "freeing", "clone", "release", "releasing"}
      /\ j \in DOMAIN stmt.sources /\ (Assigning => j < at_target)
  BY DEF AssignmentInvariant, Assigning, IsDone
<1>2. /\ stmt.targets \in TargetLists /\ at_target \in DOMAIN stmt.targets
      /\ j \in DOMAIN stmt.targets /\ stmt.targets[j] \in Vars
  BY <1>1, SourceFacts, StatementFacts DEF StatementIsSound
<1>3. Assigning => stmt.targets[j] # Target
  <2>1. Assigning => j # at_target
    BY <1>1, StatementFacts DEF Positions
  <2>. QED BY <1>2, <2>1 DEF TargetsDiffer, Target
<1>4. ~Dangles(stmt.targets[j])
  BY <1>3 DEF Dangles, Assigning
<1>5. held[<<"var", stmt.targets[j]>>] = var[stmt.targets[j]] /\ <<"var", stmt.targets[j]>> \in Holders
  BY <1>2, <1>4, HeldAt, HolderKinds
<1>6. var[stmt.targets[j]] \in Cells
  BY <1>2 DEF AssignmentInvariant, CellsAreSound
<1>. QED BY <1>2, <1>3, <1>5, <1>6 DEF IsKept

(* What is kept is in use. *)
LEMMA KeptIsLive ==
  ASSUME AssignmentInvariant, NEW t, IsKept(t)
  PROVE  t \in Cells /\ Live(t)
  BY HeldIsLive DEF AssignmentInvariant, IsKept

(* A release gives nothing back that is kept. *)
LEMMA ReleasedLists ==
  ASSUME AssignmentInvariant, NEW len, NEW end, AreLists(NextOf(cell), len, end),
         NEW c \in Cells, Live(c), Release(c),
         \/ \E o \in {<<"release", 1>>, <<"var", Target>>} \cap Holders :
              held[o] = c /\ (o = <<"var", Target>> => Assigning)
         \/ retained[c] # {} /\ ~Assigning
  PROVE  \E len2 \in [Cells -> Nat], end2 \in [Cells -> Cells] :
           /\ AreLists(NextOf(cell'), len2, end2)
           /\ \A t : IsKept(t) => len2[t] = len[t]
<1>1. /\ AreCells(cell) /\ AreCells(cell') /\ \A d \in Cells : d # c => cell'[d] = cell[d]
      /\ cell'[c].next = IF arcs[c] = 1 THEN None ELSE cell[c].next
  BY ReleasedCells DEF AssignmentInvariant, CellsAreSound
<1>2. /\ NextOf(cell) \in [Cells -> Cells \cup {None}] /\ \A d \in Cells : NextOf(cell)[d] = cell[d].next
      /\ \A d \in Cells : NextOf(cell')[d] = cell'[d].next
  BY DEF AreLists, NextOf
<1>3. CASE arcs[c] # 1
  <2>1. \A d \in Cells : cell'[d].next = cell[d].next
    BY <1>1, <1>3
  <2>2. NextOf(cell') = NextOf(cell)
    BY <2>1 DEF NextOf
  <2>3. len \in [Cells -> Nat] /\ end \in [Cells -> Cells]
    BY DEF AreLists
  <2>. QED BY <2>2, <2>3
<1>4. CASE arcs[c] = 1
  <2>1. IsFiniteSet(retained[c]) /\ arcs[c] = HeldBy(held, c) + Cardinality(retained[c])
    BY DEF AssignmentInvariant, IsCounted, HeldBy
  <2>2. Cardinality(retained[c]) \in Nat /\ (retained[c] # {} => Cardinality(retained[c]) # 0)
    BY <2>1, FS_CardinalityType, FS_EmptySet
  <2>3. \A o, p \in Holders : held[o] # None /\ held[o] = held[p] => o = p
    BY DEF AssignmentInvariant, IsCounted
  <2>4. c # None
    BY Disjoint
  <2>5. (\A t : IsKept(t) => t # c) /\ \A b \in Cells : cell[b].next # c
    <3>1. CASE retained[c] # {} /\ ~Assigning
      <4>1. \A o \in Holders : held[o] # c
        BY <1>4, <2>1, <2>2, <3>1 DEF HeldBy
      <4>. QED BY <3>1, <4>1, HeldAt, HolderKinds DEF IsKept
    <3>2. ASSUME NEW o \in {<<"release", 1>>, <<"var", Target>>} \cap Holders,
                 held[o] = c, o = <<"var", Target>> => Assigning
          PROVE  (\A t : IsKept(t) => t # c) /\ \A b \in Cells : cell[b].next # c
      <4>1. retained[c] = {}
        BY <1>4, <2>1, <2>2, <3>2 DEF HeldBy
      <4>2. ASSUME NEW p \in Holders, held[p] = c
            PROVE  p = o
        BY <2>3, <2>4, <3>2, <4>2
      <4>3. \A t : IsKept(t) => t # c
        BY <3>2, <4>1, <4>2 DEF IsKept
      <4>4. ASSUME NEW b \in Cells, cell[b].next = c
            PROVE  FALSE
        <5>1. held[<<"next", b>>] = c /\ <<"next", b>> \in Holders
          BY <4>4, HeldAt, HolderKinds
        <5>2. <<"next", b>> = o
          BY <4>2, <5>1
        <5>. QED BY <3>2, <5>2
      <4>. QED BY <4>3, <4>4
    <3>. QED BY <3>1, <3>2
  <2>. DEFINE g == [NextOf(cell) EXCEPT ![c] = None]
              l == [len EXCEPT ![c] = 1]
              e == [end EXCEPT ![c] = c]
  <2>6. AreLists(g, l, e)
    BY <1>2, <2>5, ListsAreCut
  <2>7. NextOf(cell') = g
    BY <1>1, <1>2, <1>4 DEF NextOf
  <2>8. l \in [Cells -> Nat] /\ e \in [Cells -> Cells] /\ \A t \in Cells : t # c => l[t] = len[t]
    BY DEF AreLists
  <2>. HIDE DEF g, l, e
  <2>. QED BY <2>5, <2>6, <2>7, <2>8 DEF IsKept
<1>. QED BY <1>3, <1>4

----------------------------------------
(* Steps that neither read nor assign. *)
LEMMA LengthsStay ==
  ASSUME NEW len, NEW end, HasLengths(len, end), NEW len2, NEW end2, AreLists(NextOf(cell'), len2, end2),
         stmt' = stmt, var' = var, at' # "clone",
         \A j \in Positions : IsLater(j)' => IsLater(j) /\ len2[stmt.sources[j]] = len[stmt.sources[j]],
         \A j \in Positions : IsDone(j)' =>
           IsDone(j) /\ len2[var[stmt.targets[j]]] = len[var[stmt.targets[j]]]
  PROVE  HasLengths(len2, end2)'
<1>1. stmt'.wanted = stmt.wanted /\ stmt'.sources = stmt.sources /\ stmt'.targets = stmt.targets
  OBVIOUS
<1>2. stmt.wanted \in Seq(Nat) /\ Len(stmt.wanted) = Len(stmt.sources)
  BY DEF HasLengths
<1>3. \A j \in Positions : IsLater(j)' => len2[stmt'.sources[j]] = stmt'.wanted[j]
  BY <1>1 DEF HasLengths
<1>4. \A j \in Positions : IsDone(j)' => len2[var'[stmt'.targets[j]]] = stmt'.wanted[j]
  BY <1>1 DEF HasLengths
<1>. QED BY <1>1, <1>2, <1>3, <1>4 DEF HasLengths, AreLists, NextOf

(* The states in which a statement is. *)
LEMMA Stages ==
  /\ at = "idle" => /\ \A j \in Positions : IsLater(j) <=> FALSE
                    /\ \A j \in Positions : IsDone(j) <=> FALSE
  /\ at \in {"evaluate", "retain"} => /\ \A j \in Positions : IsLater(j) <=> j \in DOMAIN stmt.sources
                                      /\ \A j \in Positions : IsDone(j) <=> FALSE
  /\ at \in {"free", "freeing"} =>
       /\ \A j \in Positions : IsLater(j) <=> j \in DOMAIN stmt.sources /\ j >= at_target
       /\ \A j \in Positions : IsDone(j) <=> j \in DOMAIN stmt.sources /\ j < at_target
  /\ at = "clone" =>
       /\ \A j \in Positions : IsLater(j) <=> j \in DOMAIN stmt.sources /\ j > at_target
       /\ \A j \in Positions : IsDone(j) <=> j \in DOMAIN stmt.sources /\ j < at_target
  /\ at \in {"release", "releasing"} =>
       /\ \A j \in Positions : IsLater(j) <=> FALSE
       /\ \A j \in Positions : IsDone(j) <=> j \in DOMAIN stmt.sources
  BY DEF IsLater, IsDone, Evaluating, Assigning

(* The same behind a step. *)
LEMMA StagesNext ==
  /\ at' = "idle" => /\ \A j \in Positions : IsLater(j)' <=> FALSE
                     /\ \A j \in Positions : IsDone(j)' <=> FALSE
  /\ at' \in {"evaluate", "retain"} => /\ \A j \in Positions : IsLater(j)' <=> j \in DOMAIN stmt'.sources
                                       /\ \A j \in Positions : IsDone(j)' <=> FALSE
  /\ at' \in {"free", "freeing"} =>
       /\ \A j \in Positions : IsLater(j)' <=> j \in DOMAIN stmt'.sources /\ j >= at_target'
       /\ \A j \in Positions : IsDone(j)' <=> j \in DOMAIN stmt'.sources /\ j < at_target'
  /\ at' = "clone" =>
       /\ \A j \in Positions : IsLater(j)' <=> j \in DOMAIN stmt'.sources /\ j > at_target'
       /\ \A j \in Positions : IsDone(j)' <=> j \in DOMAIN stmt'.sources /\ j < at_target'
  /\ at' \in {"release", "releasing"} =>
       /\ \A j \in Positions : IsLater(j)' <=> FALSE
       /\ \A j \in Positions : IsDone(j)' <=> j \in DOMAIN stmt'.sources
  BY DEF IsLater, IsDone, Evaluating, Assigning

(* Begin, and the steps that leave memory and variables alone. *)
LEMMA BeginLengths ==
  ASSUME NEW len, NEW end, HasLengths(len, end), Begin
  PROVE  HasLengths(len, end)'
<1>1. /\ at' = "evaluate" /\ stmt'.sources = << >> /\ stmt'.wanted = << >> /\ NextOf(cell') = NextOf(cell)
  BY DEF Begin, NoStatement
<1>2. AreLists(NextOf(cell'), len, end)
  BY <1>1 DEF HasLengths
<1>3. \A j \in Positions : IsLater(j)' <=> FALSE
  <2>1. DOMAIN stmt'.sources = {}
    BY <1>1
  <2>. QED BY <1>1, <2>1, StagesNext
<1>4. \A j \in Positions : IsDone(j)' <=> FALSE
  BY <1>1, StagesNext
<1>5. stmt'.wanted \in Seq(Nat) /\ Len(stmt'.wanted) = Len(stmt'.sources)
  BY <1>1
<1>. QED BY <1>1, <1>2, <1>3, <1>4, <1>5 DEF HasLengths, AreLists, NextOf

(* Between statements only the lists matter. *)
LEMMA IdleLengths ==
  ASSUME NEW len, NEW end, AreLists(NextOf(cell'), len, end), at' = "idle", stmt' = NoStatement
  PROVE  HasLengths(len, end)'
<1>1. stmt'.wanted = << >> /\ stmt'.sources = << >>
  BY DEF NoStatement
<1>2. stmt'.wanted \in Seq(Nat) /\ Len(stmt'.wanted) = Len(stmt'.sources)
  BY <1>1
<1>. QED BY <1>2, StagesNext DEF HasLengths, AreLists, NextOf

(* A statement ends: its values are what was read. *)
EndsWhole ==
  at # "idle" /\ at' = "idle" =>
    \E len \in [Cells -> Nat], end \in [Cells -> Cells] :
      /\ AreLists(NextOf(cell'), len, end)
      /\ \A j \in DOMAIN stmt.targets : len[var'[stmt.targets[j]]] = stmt.wanted[j]

(* The last release of a group ends the statement. *)
LEMMA EndReleaseLengths ==
  ASSUME AssignmentInvariant, NEW len \in [Cells -> Nat], NEW end \in [Cells -> Cells], HasLengths(len, end),
         EndRelease
  PROVE  HasLengths(len, end)' /\ EndsWhole
<1>1. /\ at = "releasing" /\ cell' = cell /\ var' = var /\ at' \in {"release", "idle"}
      /\ at' = "release" => stmt' = stmt
      /\ at' = "idle" => stmt' = NoStatement
      /\ AreLists(NextOf(cell'), len, end)
  BY DEF EndRelease, HasLengths
<1>2. \A j \in DOMAIN stmt.targets : j \in Positions /\ len[var[stmt.targets[j]]] = stmt.wanted[j]
  <2>1. \A j \in DOMAIN stmt.targets : j \in Positions /\ j \in DOMAIN stmt.sources
    BY <1>1, StatementFacts, SourceFacts DEF AssignmentInvariant, StatementIsSound, Positions
  <2>. QED BY <1>1, <2>1, Stages DEF HasLengths
<1>3. EndsWhole
  BY <1>1, <1>2 DEF EndsWhole
<1>. SUFFICES HasLengths(len, end)'
  BY <1>3
<1>4. CASE at' = "release"
  BY <1>1, <1>4, Stages, StagesNext, LengthsStay
<1>5. CASE at' = "idle"
  BY <1>1, <1>5, IdleLengths
<1>. QED BY <1>1, <1>4, <1>5

(* A source is evaluated. *)
LEMMA EvaluatedLengths ==
  ASSUME AssignmentInvariant, NEW len, NEW end, HasLengths(len, end), at = "evaluate",
         NEW c \in Memory(Target), NEW producer \in BOOLEAN, Evaluated(c, producer, len[c]),
         NextOf(cell') = NextOf(cell)
  PROVE  HasLengths(len, end)'
<1>1. /\ StatementIsSound /\ stmt.sources \in Seq(Cells) /\ Len(stmt.sources) = at_target - 1 /\ at_target \in Nat
      /\ at_target >= 1 /\ stmt.wanted \in Seq(Nat) /\ Len(stmt.wanted) = Len(stmt.sources)
  BY StatementFacts DEF AssignmentInvariant, StatementIsSound, HasLengths
<1>2. AreLists(NextOf(cell'), len, end) /\ c \in Cells /\ len[c] \in Nat
  BY <1>1, StatementFacts, Disjoint DEF HasLengths, AreLists
<1>3. /\ stmt'.sources = Append(stmt.sources, c) /\ stmt'.wanted = Append(stmt.wanted, len[c])
  BY <1>1 DEF Evaluated, StatementIsSound
<1>4. /\ stmt'.sources \in Seq(Cells) /\ Len(stmt'.sources) = at_target
      /\ stmt'.wanted \in Seq(Nat) /\ Len(stmt'.wanted) = at_target
      /\ DOMAIN stmt.sources = 1 .. (at_target - 1) /\ DOMAIN stmt'.sources = 1 .. at_target
      /\ stmt'.sources[at_target] = c /\ stmt'.wanted[at_target] = len[c]
      /\ \A j \in 1 .. (at_target - 1) : stmt'.sources[j] = stmt.sources[j] /\ stmt'.wanted[j] = stmt.wanted[j]
  BY <1>1, <1>2, <1>3
<1>5. /\ at' \in {"evaluate", "retain", "free"} /\ (at' = "free" => at_target' = 1)
  BY <1>1 DEF Evaluated
<1>6. ASSUME NEW j \in Positions, IsLater(j)'
      PROVE  len[stmt'.sources[j]] = stmt'.wanted[j]
  <2>1. j \in 1 .. at_target
    BY <1>4, <1>5, <1>6, StagesNext
  <2>2. CASE j = at_target
    BY <1>4, <2>2
  <2>3. CASE j # at_target
    <3>1. j \in 1 .. (at_target - 1) /\ j \in DOMAIN stmt.sources
      BY <1>1, <1>4, <2>1, <2>3
    <3>2. IsLater(j)
      BY <3>1, Stages
    <3>. QED BY <1>4, <3>1, <3>2 DEF HasLengths
  <2>. QED BY <2>2, <2>3
<1>7. \A j \in Positions : ~IsDone(j)'
  BY <1>4, <1>5, StagesNext DEF Positions
<1>. QED BY <1>2, <1>4, <1>5, <1>6, <1>7 DEF HasLengths, AreLists, NextOf

(* The length that is wanted is that of the list that is read. *)
LEMMA EvaluateVariableLengths ==
  ASSUME IsFiniteSet(Cells), AssignmentInvariant, NEW len, NEW end, HasLengths(len, end),
         NEW y \in Vars, EvaluateVariable(y)
  PROVE  HasLengths(len, end)'
<1>1. PICK c \in {var[y], cell[var[y]].next} \ {None} : Evaluated(c, FALSE, Length(c))
  BY DEF EvaluateVariable
<1>2. at = "evaluate" /\ cell' = cell /\ Memory(y) = Memory(Target)
  BY DEF EvaluateVariable
<1>3. /\ AreCells(cell) /\ var[y] \in Memory(y) /\ var[y] \in Cells
  BY DEF AssignmentInvariant, CellsAreSound
<1>4. c \in Memory(Target) /\ c \in Cells
  <2>1. cell[var[y]].next \in (IF var[y] \in Slots THEN Slots \cup {None} ELSE {None})
    BY <1>3 DEF AreCells
  <2>2. c = var[y] \/ (c \in Slots /\ var[y] \in Slots)
    BY <1>1, <2>1
  <2>3. Memory(y) = Slots \/ Memory(y) = Buffers
    BY Disjoint
  <2>. QED BY <1>2, <1>3, <2>2, <2>3, Disjoint
<1>5. Length(c) = len[c]
  <2>1. Cardinality(ChainIn(cell, c)) = len[c]
    BY <1>4, Disjoint, LengthsAre DEF HasLengths
  <2>. QED BY <2>1 DEF Length, Chain, ChainIn
<1>. QED BY <1>1, <1>2, <1>4, <1>5, EvaluatedLengths

(* The value of a producer has no next. *)
LEMMA EvaluateProducerLengths ==
  ASSUME AssignmentInvariant, NEW len, NEW end, HasLengths(len, end), EvaluateProducer
  PROVE  HasLengths(len, end)'
<1>. DEFINE c == Fresh(Target)
<1>1. /\ at = "evaluate" /\ HasFresh(Target) /\ cell' = [cell EXCEPT ![c] = NewCell]
      /\ Evaluated(c, TRUE, 1)
  BY DEF EvaluateProducer
<1>2. Target \in Vars /\ CellsAreSound
  BY <1>1, StatementFacts DEF AssignmentInvariant
<1>3. /\ c \in Memory(Target) /\ c \in Cells /\ cell[c] = FreeCell
      /\ \A e \in Cells : cell'[e].next = cell[e].next
  BY <1>1, <1>2, FreshIsFree, NewCells
<1>4. NextOf(cell') = NextOf(cell)
  BY <1>3 DEF NextOf
<1>5. len[c] = 1
  BY <1>3 DEF HasLengths, AreLists, NextOf, FreeCell
<1>. QED BY <1>1, <1>3, <1>4, <1>5, EvaluatedLengths

(* The lists of the program grow between statements. *)
LEMMA ExtendLengths ==
  ASSUME AssignmentInvariant, NEW len, NEW end, HasLengths(len, end), NEW x \in DataVars, Extend(x)
  PROVE  ValuesAreWhole'
<1>. DEFINE c == Fresh(x)
            d == var[x]
<1>1. /\ at = "idle" /\ cell[d].next = None /\ HasFresh(x) /\ x \in Vars
      /\ cell' = [cell EXCEPT ![c] = NewCell, ![d].next = c]
      /\ stmt' = stmt /\ at' = at /\ stmt = NoStatement
  BY Disjoint DEF Extend, AssignmentInvariant, StatementIsSound
<1>2. /\ d \in Slots /\ d \in Cells /\ CellsAreSound
  BY <1>1, Disjoint DEF AssignmentInvariant, CellsAreSound
<1>3. Live(d)
  <2>1. held[<<"var", x>>] = d /\ <<"var", x>> \in Holders
    BY <1>1, HeldAt, HolderKinds DEF Dangles
  <2>. QED BY <1>2, <2>1, HeldIsLive DEF AssignmentInvariant
<1>4. /\ c \in Slots /\ c \in Cells /\ c # d /\ cell[c].next = None
      /\ cell'[c].next = None /\ cell'[d].next = c
      /\ \A b \in Cells : b # c /\ b # d => cell'[b] = cell[b]
  <2>1. NewCell.next = None
    BY DEF NewCell
  <2>. HIDE DEF d
  <2>. QED BY <1>1, <1>2, <1>3, <2>1, NewFieldCells, Disjoint
<1>. HIDE DEF c, d
<1>5. NextOf(cell') = [NextOf(cell) EXCEPT ![d] = c]
  BY <1>2, <1>4 DEF NextOf
<1>6. PICK len2 \in [Cells -> Nat], end2 \in [Cells -> Cells] : AreLists(NextOf(cell'), len2, end2)
  <2>1. NextOf(cell)[d] = None /\ NextOf(cell)[c] = None /\ AreLists(NextOf(cell), len, end)
    BY <1>1, <1>2, <1>4 DEF NextOf, HasLengths
  <2>2. PICK len2, end2 : AreLists([NextOf(cell) EXCEPT ![d] = c], len2, end2)
    BY <1>2, <1>4, <2>1, Disjoint, ListsAreExtended
  <2>3. len2 \in [Cells -> Nat] /\ end2 \in [Cells -> Cells]
    BY <2>2 DEF AreLists
  <2>. QED BY <1>5, <2>2, <2>3
<1>7. HasLengths(len2, end2)'
  BY <1>1, <1>6, IdleLengths
<1>. QED BY <1>6, <1>7 DEF ValuesAreWhole, Cells

----------------------------------------
(* Steps that change counts and give memory back. *)
LEMMA SameFields ==
  ASSUME AssignmentInvariant, NEW len \in [Cells -> Nat], NEW end \in [Cells -> Cells], HasLengths(len, end),
         NextOf(cell') = NextOf(cell), stmt' = stmt, var' = var, at' # "clone",
         \A j \in Positions : (IsLater(j)' => IsLater(j)) /\ (IsDone(j)' => IsDone(j))
  PROVE  ValuesAreWhole'
<1>1. AreLists(NextOf(cell'), len, end)
  BY DEF HasLengths
<1>2. HasLengths(len, end)'
  BY <1>1, LengthsStay
<1>. QED BY <1>2 DEF ValuesAreWhole, Cells

(* Retaining changes counts only. *)
LEMMA RetainSourcesLengths ==
  ASSUME AssignmentInvariant, NEW len \in [Cells -> Nat], NEW end \in [Cells -> Cells], HasLengths(len, end),
         RetainSources
  PROVE  ValuesAreWhole'
<1>1. /\ at = "retain" /\ at' = "free" /\ stmt' = stmt /\ var' = var /\ at_target' = at_target /\ at_target = 1
      /\ cell' = [c \in Cells |-> [cell[c] EXCEPT !.arc = @ + Cardinality({j \in DOMAIN stmt.sources :
                                                 IsData(j) /\ stmt.sources[j] = c})]]
      /\ cell \in [Cells -> Cell] /\ stmt.sources \in Seq(Cells)
  BY DEF RetainSources, AssignmentInvariant, StatementIsSound, CellsAreSound, AreCells
<1>2. \A c \in Cells : cell'[c].next = cell[c].next
  BY <1>1 DEF Cell
<1>3. NextOf(cell') = NextOf(cell)
  BY <1>2 DEF NextOf
<1>4. \A j \in Positions : (IsLater(j)' => IsLater(j)) /\ (IsDone(j)' => IsDone(j))
  <2>1. \A j \in Positions : IsLater(j) <=> j \in DOMAIN stmt.sources
    BY <1>1, Stages
  <2>2. \A j \in Positions : /\ IsLater(j)' => j \in DOMAIN stmt.sources
                             /\ IsDone(j)' => j \in DOMAIN stmt.sources /\ j < 1
    BY <1>1, StagesNext
  <2>3. \A j \in DOMAIN stmt.sources : ~(j < 1)
    BY <1>1
  <2>. QED BY <2>1, <2>2, <2>3
<1>. QED BY <1>1, <1>3, <1>4, SameFields

(* A release on behalf of a statement. *)
LEMMA ReleaseLengths ==
  ASSUME AssignmentInvariant, TargetsDiffer, NEW len, NEW end, HasLengths(len, end),
         NEW c \in Cells, Live(c), Release(c), stmt' = stmt, var' = var, at_target' = at_target,
         \/ at = "free" /\ at' = "freeing"
         \/ at \in {"freeing", "releasing"} /\ at' = at
         \/ at = "release" /\ at' = "releasing",
         \/ \E o \in {<<"release", 1>>, <<"var", Target>>} \cap Holders :
              held[o] = c /\ (o = <<"var", Target>> => Assigning)
         \/ retained[c] # {} /\ ~Assigning
  PROVE  ValuesAreWhole'
<1>1. AreLists(NextOf(cell), len, end)
  BY DEF HasLengths
<1>2. PICK len2 \in [Cells -> Nat], end2 \in [Cells -> Cells] :
        AreLists(NextOf(cell'), len2, end2) /\ \A t : IsKept(t) => len2[t] = len[t]
  BY <1>1, ReleasedLists
<1>3. \A j \in Positions : (IsLater(j)' => IsLater(j)) /\ (IsDone(j)' => IsDone(j))
  BY Stages, StagesNext
<1>4. ASSUME NEW j \in Positions, IsLater(j)
      PROVE  len2[stmt.sources[j]] = len[stmt.sources[j]]
  <2>1. Assigning
    BY <1>4, Stages DEF Assigning
  <2>. QED BY <1>2, <1>4, <2>1, LaterIsKept
<1>5. ASSUME NEW j \in Positions, IsDone(j)
      PROVE  len2[var[stmt.targets[j]]] = len[var[stmt.targets[j]]]
  BY <1>2, <1>5, DoneIsKept
<1>6. at' # "clone"
  OBVIOUS
<1>7. HasLengths(len2, end2)'
  BY <1>2, <1>3, <1>4, <1>5, <1>6, LengthsStay
<1>. QED BY <1>2, <1>7 DEF ValuesAreWhole, Cells

(* The old value of a target is none that is still to be read. *)
LEMMA FreeTargetLengths ==
  ASSUME AssignmentInvariant, TargetsDiffer, NEW len \in [Cells -> Nat], NEW end \in [Cells -> Cells],
         HasLengths(len, end), FreeTarget
  PROVE  ValuesAreWhole'
<1>1. /\ at = "free" /\ at' = "freeing" /\ stmt' = stmt /\ var' = var /\ at_target' = at_target
      /\ Target \in Vars /\ var[Target] \in Memory(Target) /\ var[Target] \in Cells /\ CellsAreSound
  BY StatementFacts DEF FreeTarget, AssignmentInvariant, CellsAreSound
<1>2. CASE IsData(at_target) /\ Release(var[Target])
  <2>1. held[<<"var", Target>>] = var[Target] /\ <<"var", Target>> \in Holders
    BY <1>1, HeldAt, HolderKinds DEF Dangles
  <2>2. Live(var[Target])
    BY <1>1, <2>1, HeldIsLive DEF AssignmentInvariant
  <2>3. Assigning
    BY <1>1 DEF Assigning
  <2>. QED BY <1>1, <1>2, <2>1, <2>2, <2>3, ReleaseLengths
<1>3. CASE ~IsData(at_target) /\ cell' = [cell EXCEPT ![var[Target]] = FreeCell]
  <2>1. var[Target] \notin Slots
    BY <1>1, <1>3, Disjoint DEF IsData, Target
  <2>2. cell[var[Target]].next = None /\ FreeCell.next = None /\ cell \in [Cells -> Cell]
    BY <1>1, <2>1 DEF CellsAreSound, AreCells, FreeCell
  <2>3. \A c \in Cells : cell'[c].next = cell[c].next
    BY <1>3, <2>2
  <2>4. NextOf(cell') = NextOf(cell)
    BY <2>3 DEF NextOf
  <2>5. \A j \in Positions : (IsLater(j)' => IsLater(j)) /\ (IsDone(j)' => IsDone(j))
    BY <1>1, Stages, StagesNext
  <2>6. at' # "clone"
    BY <1>1
  <2>. QED BY <1>1, <2>4, <2>5, <2>6, SameFields
<1>. QED BY <1>2, <1>3 DEF FreeTarget

(* A release goes on with the value in the field. *)
LEMMA ReleaseFieldLengths ==
  ASSUME AssignmentInvariant, TargetsDiffer, NEW len, NEW end, HasLengths(len, end), ReleaseField
  PROVE  ValuesAreWhole'
<1>1. /\ at \in {"freeing", "releasing"} /\ at' = at /\ stmt' = stmt /\ var' = var /\ at_target' = at_target
      /\ pointer.from # None /\ Release(pointer.from)
  BY DEF ReleaseField
<1>2. pointer.from \in Cells
  BY <1>1, Disjoint DEF AssignmentInvariant, PointerIsSound
<1>3. held[<<"release", 1>>] = pointer.from /\ <<"release", 1>> \in Holders
  BY <1>1, HeldAt, HolderKinds
<1>4. Live(pointer.from)
  BY <1>2, <1>3, HeldIsLive DEF AssignmentInvariant
<1>5. <<"release", 1>> # <<"var", Target>>
  OBVIOUS
<1>. QED BY <1>1, <1>2, <1>3, <1>4, <1>5, ReleaseLengths

(* A group releases what it retained, which variables still hold. *)
LEMMA ReleaseSourceLengths ==
  ASSUME AssignmentInvariant, TargetsDiffer, NEW len \in [Cells -> Nat], NEW end \in [Cells -> Cells],
         HasLengths(len, end), ReleaseSource
  PROVE  ValuesAreWhole'
<1>1. /\ at = "release" /\ at' = "releasing" /\ stmt' = stmt /\ var' = var /\ at_target' = at_target
      /\ IsGroup /\ at_target \in DOMAIN stmt.sources /\ Source \in Cells /\ at_target \in Nat
  BY StatementFacts, SourceFacts DEF ReleaseSource, AssignmentInvariant, StatementIsSound, Source
<1>2. CASE IsData(at_target) /\ Release(Source)
  <2>1. at_target \in retained[Source]
    BY <1>1, <1>2 DEF retained, IsRetained, Source
  <2>2. Live(Source)
    BY <1>1, <2>1, HeldIsLive DEF AssignmentInvariant
  <2>3. ~Assigning
    BY <1>1 DEF Assigning
  <2>. QED BY <1>1, <1>2, <2>1, <2>2, <2>3, ReleaseLengths
<1>3. CASE ~IsData(at_target) /\ cell' = cell
  <2>1. NextOf(cell') = NextOf(cell)
    BY <1>3
  <2>2. \A j \in Positions : (IsLater(j)' => IsLater(j)) /\ (IsDone(j)' => IsDone(j))
    BY <1>1, Stages, StagesNext
  <2>3. at' # "clone"
    BY <1>1
  <2>. QED BY <1>1, <2>1, <2>2, <2>3, SameFields
<1>. QED BY <1>2, <1>3 DEF ReleaseSource

(* A copy begins. *)
LEMMA BeginCloneLengths ==
  ASSUME AssignmentInvariant, NEW len, NEW end, HasLengths(len, end), BeginClone
  PROVE  HasLengths(len, end)'
<1>1. /\ at = "freeing" /\ at' = "clone" /\ stmt' = stmt /\ var' = var /\ cell' = cell /\ at_target' = at_target
      /\ pointer'.from = Source /\ pointer'.into = None
      /\ at_target \in DOMAIN stmt.sources /\ at_target \in Nat
  BY StatementFacts, SourceFacts DEF BeginClone, AssignmentInvariant, Nowhere
<1>2. len[Source] = stmt.wanted[at_target]
  BY <1>1, Stages DEF HasLengths, Positions, Source
<1>3. \A j \in Positions : (IsLater(j)' => IsLater(j)) /\ (IsDone(j)' => IsDone(j))
  <2>1. \A j \in DOMAIN stmt.sources : j \in Nat
    BY SourceFacts DEF AssignmentInvariant
  <2>. QED BY <1>1, <2>1, Stages, StagesNext
<1>4. /\ AreLists(NextOf(cell'), len, end)
      /\ stmt'.wanted \in Seq(Nat) /\ Len(stmt'.wanted) = Len(stmt'.sources)
  BY <1>1 DEF HasLengths
<1>5. \A j \in Positions : IsLater(j)' => len[stmt'.sources[j]] = stmt'.wanted[j]
  BY <1>1, <1>3 DEF HasLengths
<1>6. \A j \in Positions : IsDone(j)' => len[var'[stmt'.targets[j]]] = stmt'.wanted[j]
  BY <1>1, <1>3 DEF HasLengths
<1>. QED BY <1>1, <1>2, <1>4, <1>5, <1>6 DEF HasLengths, AreLists, NextOf

----------------------------------------
(* A target has been assigned to. *)
LEMMA AssignedLengths ==
  ASSUME AssignmentInvariant, TargetsDiffer, at \in {"freeing", "clone"}, NextTarget,
         NEW len \in [Cells -> Nat], NEW end \in [Cells -> Cells], AreLists(NextOf(cell'), len, end),
         stmt.wanted \in Seq(Nat), Len(stmt.wanted) = Len(stmt.sources),
         \A x \in Vars : x # Target => var'[x] = var[x],
         len[var'[Target]] = stmt.wanted[at_target],
         \A j \in Positions : j \in DOMAIN stmt.sources /\ j > at_target => len[stmt.sources[j]] = stmt.wanted[j],
         \A j \in Positions : IsDone(j) => len[var[stmt.targets[j]]] = stmt.wanted[j]
  PROVE  ValuesAreWhole' /\ EndsWhole
<1>1. /\ StatementIsSound /\ at # "idle" /\ at_target \in Nat /\ 1 <= at_target /\ at_target <= Len(stmt.targets)
      /\ Len(stmt.targets) \in Nat /\ Len(stmt.sources) = Len(stmt.targets)
      /\ DOMAIN stmt.sources = 1 .. Len(stmt.targets) /\ DOMAIN stmt.targets = 1 .. Len(stmt.targets)
  BY StatementFacts, SourceFacts DEF AssignmentInvariant, StatementIsSound
<1>2. ASSUME NEW j \in DOMAIN stmt.sources, j <= at_target
      PROVE  len[var'[stmt.targets[j]]] = stmt.wanted[j]
  <2>1. j \in Positions
    BY <1>1 DEF Positions
  <2>2. CASE j = at_target
    BY <2>2 DEF Target
  <2>3. CASE j < at_target
    <3>1. IsDone(j)
      BY <2>1, <2>3, Stages
    <3>2. stmt.targets[j] \in Vars /\ stmt.targets[j] # Target
      BY <2>1, <3>1, DoneIsKept DEF Assigning
    <3>. QED BY <2>1, <3>1, <3>2
  <2>. QED BY <1>1, <1>2, <2>1, <2>2, <2>3
<1>3. CASE at_target < Len(stmt.targets)
  <2>1. at_target' = at_target + 1 /\ at' = "free" /\ stmt' = stmt
    BY <1>3 DEF NextTarget
  <2>2. ASSUME NEW j \in Positions, IsLater(j)'
        PROVE  len[stmt'.sources[j]] = stmt'.wanted[j]
    <3>1. j \in DOMAIN stmt.sources /\ j >= at_target + 1 /\ j \in Nat
      BY <2>1, <2>2, StagesNext DEF Positions
    <3>2. j > at_target
      BY <1>1, <3>1
    <3>. QED BY <2>1, <3>1, <3>2
  <2>3. ASSUME NEW j \in Positions, IsDone(j)'
        PROVE  len[var'[stmt'.targets[j]]] = stmt'.wanted[j]
    <3>1. j \in DOMAIN stmt.sources /\ j < at_target + 1 /\ j \in Nat
      BY <2>1, <2>3, StagesNext DEF Positions
    <3>2. j <= at_target
      BY <1>1, <3>1
    <3>. QED BY <1>2, <2>1, <3>1, <3>2
  <2>4. HasLengths(len, end)'
    BY <2>1, <2>2, <2>3 DEF HasLengths, AreLists, NextOf
  <2>5. ValuesAreWhole'
    BY <2>4 DEF ValuesAreWhole, Cells
  <2>. QED BY <2>1, <2>5 DEF EndsWhole
<1>4. CASE ~(at_target < Len(stmt.targets))
  <2>1. at_target' = 1 /\ at' = (IF IsGroup THEN "release" ELSE "idle") /\ stmt' = IF IsGroup THEN stmt ELSE NoStatement
    BY <1>4 DEF NextTarget
  <2>2. \A j \in DOMAIN stmt.sources : j <= at_target
    BY <1>1, <1>4
  <2>3. \A j \in DOMAIN stmt.targets : len[var'[stmt.targets[j]]] = stmt.wanted[j]
    BY <1>1, <1>2, <2>2
  <2>4. EndsWhole
    BY <2>3 DEF EndsWhole
  <2>5. CASE IsGroup
    <3>1. at' = "release" /\ stmt' = stmt
      BY <2>1, <2>5
    <3>2. \A j \in Positions : ~IsLater(j)' /\ (IsDone(j)' => len[var'[stmt'.targets[j]]] = stmt'.wanted[j])
      BY <1>1, <2>3, <3>1, StagesNext
    <3>3. HasLengths(len, end)'
      BY <3>1, <3>2 DEF HasLengths, AreLists, NextOf
    <3>. QED BY <2>4, <3>3 DEF ValuesAreWhole, Cells
  <2>6. CASE ~IsGroup
    <3>1. HasLengths(len, end)'
      BY <2>1, <2>6, IdleLengths
    <3>. QED BY <2>4, <3>1 DEF ValuesAreWhole, Cells
  <2>. QED BY <2>5, <2>6
<1>. QED BY <1>3, <1>4

(* The value of a producer is stored. *)
LEMMA StoreLengths ==
  ASSUME AssignmentInvariant, TargetsDiffer, NEW len \in [Cells -> Nat], NEW end \in [Cells -> Cells],
         HasLengths(len, end), Store
  PROVE  ValuesAreWhole' /\ EndsWhole
<1>1. /\ at = "freeing" /\ cell' = cell /\ var' = [var EXCEPT ![Target] = Source] /\ NextTarget
      /\ at_target \in DOMAIN stmt.sources /\ at_target \in Nat /\ Target \in Vars
      /\ var \in [Vars -> Cells]
  BY StatementFacts, SourceFacts DEF Store, AssignmentInvariant, CellsAreSound
<1>2. var'[Target] = Source /\ \A x \in Vars : x # Target => var'[x] = var[x]
  BY <1>1
<1>3. len[Source] = stmt.wanted[at_target]
  BY <1>1, Stages DEF HasLengths, Positions, Source
<1>4. ASSUME NEW j \in Positions, j \in DOMAIN stmt.sources, j > at_target
      PROVE  len[stmt.sources[j]] = stmt.wanted[j]
  <2>1. j >= at_target
    BY <1>1, <1>4 DEF Positions
  <2>. QED BY <1>1, <1>4, <2>1, Stages DEF HasLengths
<1>5. /\ AreLists(NextOf(cell'), len, end)
      /\ stmt.wanted \in Seq(Nat) /\ Len(stmt.wanted) = Len(stmt.sources)
      /\ \A j \in Positions : IsDone(j) => len[var[stmt.targets[j]]] = stmt.wanted[j]
  BY <1>1 DEF HasLengths
<1>. QED BY <1>1, <1>2, <1>3, <1>4, <1>5, AssignedLengths

(* What a copy needs is not what is allocated for it, nor leads there. *)
LEMMA FreshIsAlone ==
  ASSUME AssignmentInvariant, NEW len, NEW end, AreLists(NextOf(cell), len, end),
         NEW x \in Vars, HasFresh(x)
  PROVE  /\ \A b \in Cells : cell[b].next # Fresh(x)
         /\ \A t \in Cells : Live(t) => t # Fresh(x) /\ end[t] # Fresh(x)
<1>1. Fresh(x) \in Cells /\ ~Live(Fresh(x)) /\ arcs[Fresh(x)] = 0
  BY FreshIsFree DEF AssignmentInvariant
<1>2. \A b \in Cells : cell[b].next # Fresh(x)
  <2>1. \A o \in Holders : held[o] # Fresh(x)
    BY <1>1, NobodyHolds DEF AssignmentInvariant
  <2>. QED BY <2>1, HeldAt, HolderKinds
<1>3. \A b \in Cells : NextOf(cell)[b] # Fresh(x)
  BY <1>2 DEF NextOf
<1>. QED BY <1>1, <1>2, <1>3, EndsAreBehind

(* A value has been copied. *)
LEMMA CloneLengths ==
  ASSUME AssignmentInvariant, TargetsDiffer, NEW len \in [Cells -> Nat], NEW end \in [Cells -> Cells],
         HasLengths(len, end), Clone
  PROVE  ValuesAreWhole' /\ EndsWhole
<1>. DEFINE c == Fresh(Target)
            source == pointer.from
            d == pointer.into
            next == cell[source].next
<1>1. /\ at = "clone" /\ HasFresh(Target) /\ Live(source)
      /\ d # None => d \in Slots /\ Live(d) /\ cell[d].next = None /\ Target \in DataVars
      /\ d \in Cells \cup {None} /\ source \in Memory(Target)
  BY DEF Clone, AssignmentInvariant, PointerIsSound, IsData, Target
<1>2. /\ Target \in Vars /\ at_target \in DOMAIN stmt.sources /\ at_target \in Nat /\ CellsAreSound
      /\ source \in Cells /\ var \in [Vars -> Cells]
      /\ AreLists(NextOf(cell), len, end)
      /\ stmt.wanted \in Seq(Nat) /\ Len(stmt.wanted) = Len(stmt.sources) /\ stmt.wanted[at_target] \in Nat
  BY <1>1, StatementFacts, SourceFacts, Disjoint, SMTT(30) DEF AssignmentInvariant, HasLengths, CellsAreSound
<1>3. /\ c \in Cells /\ c # None /\ cell[c].next = None
      /\ \A b \in Cells : cell[b].next # c
      /\ \A t \in Cells : Live(t) => t # c /\ end[t] # c
  <2>1. c \in Cells /\ cell[c].next = None
    BY <1>1, <1>2, FreshIsFree DEF FreeCell
  <2>. QED BY <1>1, <1>2, <2>1, FreshIsAlone, Disjoint
<1>4. \A b \in Cells : /\ len[b] = IF cell[b].next = None THEN 1 ELSE len[cell[b].next] + 1
                       /\ end[b] = IF cell[b].next = None THEN b ELSE end[cell[b].next]
                       /\ cell[b].next \in Cells \cup {None} /\ end[b] \in Cells /\ len[b] \in Nat
  BY <1>2 DEF AreLists, NextOf
<1>5. /\ d = None => cell' = [cell EXCEPT ![c] = NewCell] /\ var' = [var EXCEPT ![Target] = c]
      /\ d # None => cell' = [cell EXCEPT ![c] = NewCell, ![d].next = c] /\ var' = var
      /\ next = None => NextTarget
      /\ next # None => /\ pointer' = [from |-> next, into |-> c]
                        /\ stmt' = stmt /\ at' = at /\ at_target' = at_target
  BY DEF Clone
<1>. HIDE DEF c, source, d, next
<1>6. /\ d = None => NextOf(cell') = NextOf(cell)
      /\ d # None => d # c /\ NextOf(cell') = [NextOf(cell) EXCEPT ![d] = c]
  <2>1. CASE d = None
    <3>1. \A e \in Cells : cell'[e].next = cell[e].next
      BY <1>1, <1>2, <1>5, <2>1, NewCells DEF c
    <3>. QED BY <2>1, <3>1 DEF NextOf
  <2>2. CASE d # None
    <3>1. /\ c # d /\ NewCell.next = None /\ cell'[c] = NewCell /\ cell'[d].next = c
          /\ \A e \in Cells : e # c /\ e # d => cell'[e] = cell[e]
      BY <1>1, <1>2, <1>5, <2>2, NewFieldCells DEF c, NewCell
    <3>2. \A e \in Cells : cell'[e].next = IF e = d THEN c ELSE cell[e].next
      BY <1>3, <3>1
    <3>3. NextOf(cell') = [NextOf(cell) EXCEPT ![d] = c]
      BY <3>2 DEF NextOf
    <3>. QED BY <2>2, <3>1, <3>3
  <2>. QED BY <2>1, <2>2
<1>7. PICK len2 \in [Cells -> Nat], end2 \in [Cells -> Cells] :
        /\ AreLists(NextOf(cell'), len2, end2)
        /\ \A t \in Cells : end[t] # d => len2[t] = len[t] /\ end2[t] = end[t]
        /\ d # None => \A t \in Cells : end[t] = d => len2[t] = len[t] + 1 /\ end2[t] = c
  <2>1. CASE d = None
    BY <1>2, <1>4, <1>6, <2>1, Disjoint
  <2>2. CASE d # None
    <3>1. d \in Cells /\ d # c /\ NextOf(cell)[d] = None /\ NextOf(cell)[c] = None
      BY <1>1, <1>3, <1>6, <2>2 DEF NextOf
    <3>2. PICK len2, end2 : /\ AreLists([NextOf(cell) EXCEPT ![d] = c], len2, end2)
                            /\ IsExtension(len2, end2, len, end, d, c)
      <4>1. AreLists(NextOf(cell), len, end) /\ c \in Cells /\ None \notin Cells
        BY <1>2, <1>3, Disjoint
      <4>. QED BY <3>1, <4>1, ListsAreExtended
    <3>3. len2 \in [Cells -> Nat] /\ end2 \in [Cells -> Cells]
      BY <3>2 DEF AreLists
    <3>4. /\ \A t \in Cells : end[t] # d => len2[t] = len[t] /\ end2[t] = end[t]
          /\ \A t \in Cells : end[t] = d => len2[t] = len[t] + 1 /\ end2[t] = c
      BY <3>2 DEF IsExtension
    <3>. QED BY <1>6, <2>2, <3>2, <3>3, <3>4
  <2>. QED BY <2>1, <2>2
<1>8. ASSUME NEW t \in Cells, Live(t), d # None => end[t] # d
      PROVE  len2[t] = len[t] /\ end2[t] # c
  <2>1. end[t] # d
    BY <1>4, <1>8, Disjoint
  <2>. QED BY <1>3, <1>7, <1>8, <2>1
<1>9. ASSUME NEW j \in Positions, IsLater(j)
      PROVE  len2[stmt.sources[j]] = stmt.wanted[j] /\ end2[stmt.sources[j]] # c
  <2>1. stmt.sources[j] \in Cells /\ Live(stmt.sources[j])
    BY <1>1, <1>9, LaterIsKept, KeptIsLive DEF Assigning
  <2>2. /\ len[stmt.sources[j]] = stmt.wanted[j]
        /\ d # None => end[stmt.sources[j]] # d
    BY <1>1, <1>9 DEF HasLengths, d
  <2>. QED BY <1>8, <2>1, <2>2
<1>10. ASSUME NEW j \in Positions, IsDone(j)
       PROVE  /\ stmt.targets[j] \in Vars /\ stmt.targets[j] # Target
              /\ len2[var[stmt.targets[j]]] = stmt.wanted[j] /\ end2[var[stmt.targets[j]]] # c
  <2>1. /\ var[stmt.targets[j]] \in Cells /\ Live(var[stmt.targets[j]])
        /\ stmt.targets[j] \in Vars /\ stmt.targets[j] # Target
    BY <1>1, <1>10, DoneIsKept, KeptIsLive DEF Assigning
  <2>2. /\ len[var[stmt.targets[j]]] = stmt.wanted[j]
        /\ d # None => end[var[stmt.targets[j]]] # d
    BY <1>1, <1>10 DEF HasLengths, d
  <2>. QED BY <1>8, <2>1, <2>2
<1>11. d # None => end[source] # d
  BY <1>1 DEF HasLengths, d, source
<1>12. end2[var'[Target]] = c /\ len2[var'[Target]] + len[source] = stmt.wanted[at_target] + 1
       /\ var'[Target] \in Cells
  <2>1. CASE d = None
    <3>1. var'[Target] = c /\ len[source] = stmt.wanted[at_target]
      BY <1>1, <1>2, <1>5, <2>1 DEF HasLengths, d, source
    <3>2. end[c] = c /\ len[c] = 1 /\ end[c] # d
      BY <1>3, <1>4, <2>1
    <3>3. len2[c] = 1 /\ end2[c] = c
      BY <1>3, <1>7, <3>2
    <3>. QED BY <1>2, <1>3, <3>1, <3>3
  <2>2. CASE d # None
    <3>1. var'[Target] = var[Target] /\ var[Target] \in Cells
      BY <1>2, <1>5, <2>2
    <3>2. end[var[Target]] = d /\ len[var[Target]] + len[source] = stmt.wanted[at_target]
      BY <1>1, <2>2 DEF HasLengths, d, source
    <3>3. len2[var[Target]] = len[var[Target]] + 1 /\ end2[var[Target]] = c
      BY <1>7, <2>2, <3>1, <3>2
    <3>4. len[var[Target]] \in Nat /\ len[source] \in Nat
      BY <1>2, <1>4, <3>1
    <3>. QED BY <1>2, <3>1, <3>2, <3>3, <3>4
  <2>. QED BY <2>1, <2>2
<1>13. \A x \in Vars : x # Target => var'[x] = var[x]
  BY <1>2, <1>5
<1>14. CASE next = None
  <2>1. len[source] = 1
    BY <1>2, <1>4, <1>14 DEF next
  <2>2. len2[var'[Target]] = stmt.wanted[at_target]
    <3>1. \A a, w \in Nat : a + 1 = w + 1 => a = w
      OBVIOUS
    <3>2. len2[var'[Target]] \in Nat /\ stmt.wanted[at_target] \in Nat
      BY <1>2, <1>7, <1>12
    <3>3. len2[var'[Target]] + 1 = stmt.wanted[at_target] + 1
      BY <1>12, <2>1
    <3>. QED BY <3>1, <3>2, <3>3, Zenon
  <2>3. \A j \in Positions : j \in DOMAIN stmt.sources /\ j > at_target => len2[stmt.sources[j]] = stmt.wanted[j]
    BY <1>1, <1>9, Stages
  <2>4. \A j \in Positions : IsDone(j) => len2[var[stmt.targets[j]]] = stmt.wanted[j]
    BY <1>10
  <2>. QED BY <1>1, <1>2, <1>5, <1>7, <1>13, <1>14, <2>2, <2>3, <2>4, AssignedLengths
<1>15. CASE next # None
  <2>1. /\ pointer'.from = next /\ pointer'.into = c /\ stmt' = stmt /\ at' = "clone" /\ at_target' = at_target
    BY <1>1, <1>5, <1>15
  <2>2. /\ next \in Cells /\ len[source] = len[next] + 1 /\ end[next] = end[source]
    BY <1>2, <1>4, <1>15 DEF next
  <2>3. len2[next] = len[next] /\ end2[next] # c
    <3>1. end[source] # c /\ end[source] # d
      BY <1>1, <1>2, <1>3, <1>4, <1>11, Disjoint
    <3>. QED BY <1>7, <2>2, <3>1
  <2>4. len2[var'[Target]] + len2[next] = stmt.wanted[at_target]
    <3>1. len[next] \in Nat /\ len2[var'[Target]] \in Nat
      BY <1>4, <1>7, <1>12, <2>2
    <3>2. \A a, b, w \in Nat : a + (b + 1) = w + 1 => a + b = w
      OBVIOUS
    <3>3. len2[var'[Target]] + (len[next] + 1) = stmt.wanted[at_target] + 1 /\ stmt.wanted[at_target] \in Nat
      BY <1>2, <1>12, <2>2
    <3>4. len2[var'[Target]] + len[next] = stmt.wanted[at_target]
      BY <3>1, <3>2, <3>3, Zenon
    <3>. QED BY <2>3, <3>4
  <2>5. \A j \in Positions : (IsLater(j)' <=> IsLater(j)) /\ (IsDone(j)' <=> IsDone(j))
    BY <1>1, <2>1, Stages, StagesNext
  <2>6. \A j \in Positions : IsLater(j)' => len2[stmt'.sources[j]] = stmt'.wanted[j] /\ end2[stmt'.sources[j]] # c
    BY <1>9, <2>1, <2>5
  <2>7. \A j \in Positions : IsDone(j)' =>
          /\ len2[var'[stmt'.targets[j]]] = stmt'.wanted[j] /\ end2[var'[stmt'.targets[j]]] # c
    BY <1>10, <1>13, <2>1, <2>5
  <2>8. Target' = Target
    BY <2>1 DEF Target
  <2>9. HasLengths(len2, end2)'
    <3>1. /\ AreLists(NextOf(cell'), len2, end2)
          /\ stmt'.wanted \in Seq(Nat) /\ Len(stmt'.wanted) = Len(stmt'.sources)
      BY <1>2, <1>7, <2>1
    <3>2. pointer'.into # None
      BY <1>3, <2>1
    <3>3. /\ end2[var'[Target']] = pointer'.into /\ end2[pointer'.from] # pointer'.into
          /\ len2[var'[Target']] + len2[pointer'.from] = stmt'.wanted[at_target']
      BY <1>12, <2>1, <2>3, <2>4, <2>8
    <3>. QED BY <2>1, <2>6, <2>7, <3>1, <3>2, <3>3 DEF HasLengths, AreLists, NextOf
  <2>. QED BY <1>7, <2>1, <2>9 DEF ValuesAreWhole, EndsWhole, Cells
<1>. QED BY <1>14, <1>15

----------------------------------------
(* Every step of a statement keeps its values, the first state has none. *)
LEMMA ValuesInit ==
  ASSUME Init
  PROVE  ValuesAreWhole
<1>. DEFINE len == [c \in Cells |-> 1]
            end == [c \in Cells |-> c]
<1>1. cell = [c \in Cells |-> IF \E x \in Vars : var[x] = c THEN NewCell ELSE FreeCell]
      /\ stmt = NoStatement /\ at = "idle"
  BY DEF Init
<1>2. NewCell.next = None /\ FreeCell.next = None
  BY DEF NewCell, FreeCell
<1>3. \A c \in Cells : cell[c].next = None
  BY <1>1, <1>2
<1>4. NextOf(cell) \in [Cells -> Cells \cup {None}] /\ \A c \in Cells : NextOf(cell)[c] = None
  BY <1>3 DEF NextOf
<1>5. len \in [Cells -> Nat] /\ end \in [Cells -> Cells] /\ \A c \in Cells : len[c] = 1 /\ end[c] = c
  OBVIOUS
<1>. HIDE DEF len, end
<1>6. AreLists(NextOf(cell), len, end)
  BY <1>4, <1>5 DEF AreLists
<1>7. stmt.wanted \in Seq(Nat) /\ Len(stmt.wanted) = Len(stmt.sources)
  BY <1>1 DEF NoStatement
<1>8. HasLengths(len, end)
  BY <1>1, <1>6, <1>7, Stages DEF HasLengths
<1>. QED BY <1>5, <1>8 DEF ValuesAreWhole

(* Every step keeps them, and ends statements with them. *)
LEMMA ValuesNext ==
  ASSUME IsFiniteSet(Cells), TargetsDiffer, Overlapping = {}, AssignmentInvariant, ValuesAreWhole,
         [Next]_vars
  PROVE  ValuesAreWhole' /\ EndsWhole
<1>. PICK len \in [Cells -> Nat], end \in [Cells -> Cells] : HasLengths(len, end)
  BY DEF ValuesAreWhole
<1>1. ASSUME HasLengths(len, end)'
      PROVE  ValuesAreWhole'
  BY <1>1 DEF ValuesAreWhole, Cells
<1>2. ASSUME at = "idle" \/ at' # "idle"
      PROVE  EndsWhole
  BY <1>2 DEF EndsWhole
<1>3. CASE Begin
  <2>1. at = "idle"
    BY <1>3 DEF Begin
  <2>. QED BY <1>1, <1>2, <1>3, <2>1, BeginLengths
<1>4. ASSUME NEW x \in DataVars, Extend(x)
      PROVE  ValuesAreWhole' /\ EndsWhole
  <2>1. at = "idle"
    BY <1>4 DEF Extend
  <2>. QED BY <1>2, <1>4, <2>1, ExtendLengths
<1>5. ASSUME NEW y \in Vars, EvaluateVariable(y)
      PROVE  ValuesAreWhole' /\ EndsWhole
  <2>1. at' # "idle"
    BY <1>5 DEF EvaluateVariable, Evaluated
  <2>. QED BY <1>1, <1>2, <1>5, <2>1, EvaluateVariableLengths
<1>6. CASE EvaluateProducer
  <2>1. at' # "idle"
    BY <1>6 DEF EvaluateProducer, Evaluated
  <2>. QED BY <1>1, <1>2, <1>6, <2>1, EvaluateProducerLengths
<1>7. CASE RetainSources
  <2>1. at' # "idle"
    BY <1>7 DEF RetainSources
  <2>. QED BY <1>2, <1>7, <2>1, RetainSourcesLengths
<1>8. CASE FreeTarget
  <2>1. at' # "idle"
    BY <1>8 DEF FreeTarget
  <2>. QED BY <1>2, <1>8, <2>1, FreeTargetLengths
<1>9. CASE ReleaseField
  <2>1. at' # "idle"
    BY <1>9 DEF ReleaseField
  <2>. QED BY <1>2, <1>9, <2>1, ReleaseFieldLengths
<1>10. CASE Store
  BY <1>10, StoreLengths
<1>11. CASE BeginClone
  <2>1. at' # "idle"
    BY <1>11 DEF BeginClone
  <2>. QED BY <1>1, <1>2, <1>11, <2>1, BeginCloneLengths
<1>12. CASE Clone
  BY <1>12, CloneLengths
<1>13. CASE ReleaseSource
  <2>1. at' # "idle"
    BY <1>13 DEF ReleaseSource
  <2>. QED BY <1>2, <1>13, <2>1, ReleaseSourceLengths
<1>14. CASE EndRelease
  BY <1>1, <1>14, EndReleaseLengths
<1>15. CASE UNCHANGED vars
  <2>1. /\ cell' = cell /\ var' = var /\ stmt' = stmt /\ at' = at /\ at_target' = at_target
        /\ pointer' = pointer
    BY <1>15 DEF vars
  <2>2. \A j \in Positions : (IsLater(j)' <=> IsLater(j)) /\ (IsDone(j)' <=> IsDone(j))
    BY <2>1 DEF IsLater, IsDone, Evaluating, Assigning
  <2>3. Target' = Target
    BY <2>1 DEF Target
  <2>4. HasLengths(len, end)'
    BY <2>1, <2>2, <2>3 DEF HasLengths, AreLists, NextOf
  <2>. QED BY <1>1, <1>2, <2>1, <2>4
<1>. QED BY <1>3, <1>4, <1>5, <1>6, <1>7, <1>8, <1>9, <1>10, <1>11, <1>12, <1>13, <1>14, <1>15 DEF Next

(* The target of a statement that ended has what was read. *)
LEMMA WholeIsWanted ==
  ASSUME IsFiniteSet(Cells), AssignmentInvariant', EndsWhole, at # "idle", at' = "idle",
         NEW x \in Vars, NEW j \in DOMAIN stmt.targets, stmt.targets[j] = x
  PROVE  Length(var[x])' = stmt.wanted[j]
<1>1. PICK len \in [Cells -> Nat], end \in [Cells -> Cells] :
        /\ AreLists(NextOf(cell'), len, end)
        /\ \A i \in DOMAIN stmt.targets : len[var'[stmt.targets[i]]] = stmt.wanted[i]
  BY DEF EndsWhole
<1>2. var'[x] \in Cells /\ None \notin Cells
  BY Disjoint DEF AssignmentInvariant, CellsAreSound, Vars, Cells
<1>3. Cardinality(ChainIn(cell', var'[x])) = len[var'[x]]
  BY <1>1, <1>2, LengthsAre
<1>4. Length(var[x])' = Cardinality(ChainIn(cell', var'[x]))
  BY DEF Length, Chain, ChainIn, Cells
<1>. QED BY <1>1, <1>3, <1>4

(* A statement assigns the values its right hand side had when it began
   (AssignsWhatWasRead), all of each: the old value of a target is given
   back before the new one is copied, and takes no part of it along.  Said
   of finite memory and of groups whose targets differ. *)
THEOREM AssignmentsKeepValues ==
  ASSUME IsFiniteSet(Cells), TargetsDiffer, Overlapping = {}
  PROVE  Spec => AssignsWhatWasRead
<1>1. Init => AssignmentInvariant /\ ValuesAreWhole
  BY AssignmentInit, ValuesInit
<1>2. AssignmentInvariant /\ ValuesAreWhole /\ [Next]_vars => AssignmentInvariant' /\ ValuesAreWhole'
  BY AssignmentNext, ValuesNext
<1>3. AssignmentInvariant /\ ValuesAreWhole /\ [Next]_vars
        => [at # "idle" /\ at' = "idle" =>
              \A x \in Vars : \A j \in DOMAIN stmt.targets :
                stmt.targets[j] = x => Length(var[x])' = stmt.wanted[j]]_vars
  BY AssignmentNext, ValuesNext, WholeIsWanted
<1>. QED BY <1>1, <1>2, <1>3, PTL DEF Spec, AssignsWhatWasRead

----------------------------------------
(* Scopes. *)

(* Paths. *)
Places == Nat \ {0}

(* The levels of paths, by which they are defined. *)
Below(b, path) == {Append(path, i) : i \in DOMAIN BodyAt(b, path)}
Deeper(b, X) == UNION {Below(b, p) : p \in {q \in X : StatementAt(b, q).kind \in Scoped}}
AreLevels(L, b, n) == L = [k \in 0..n |-> IF k = 0 THEN Below(b, <<>>) ELSE Deeper(b, L[k - 1])]

(* There are levels, up to any depth. *)
LEMMA LevelsExist ==
  ASSUME NEW b, NEW n \in Nat
  PROVE  \E L : AreLevels(L, b, n)
<1>. DEFINE T == {k \in Nat : \E L : AreLevels(L, b, k)}
<1>1. 0 \in T
  <2>. DEFINE L == [k \in 0..0 |-> Below(b, <<>>)]
  <2>1. AreLevels(L, b, 0)
    BY DEF AreLevels
  <2>. QED BY <2>1
<1>2. ASSUME NEW k \in Nat, k \in T PROVE k + 1 \in T
  <2>1. PICK L : AreLevels(L, b, k)
    BY <1>2
  <2>. DEFINE M == [j \in 0..(k + 1) |-> IF j = k + 1 THEN Deeper(b, L[k]) ELSE L[j]]
  <2>2. /\ DOMAIN M = 0..(k + 1)
        /\ \A j \in 0..(k + 1) : M[j] = IF j = k + 1 THEN Deeper(b, L[k]) ELSE L[j]
    OBVIOUS
  <2>3. \A j \in 0..k : L[j] = IF j = 0 THEN Below(b, <<>>) ELSE Deeper(b, L[j - 1])
    BY <2>1 DEF AreLevels
  <2>4. M = [j \in 0..(k + 1) |-> M[j]]
    OBVIOUS
  <2>. HIDE DEF M
  <2>5. \A j \in 0..(k + 1) : M[j] = IF j = 0 THEN Below(b, <<>>) ELSE Deeper(b, M[j - 1])
    <3>. SUFFICES ASSUME NEW j \in 0..(k + 1)
                  PROVE  M[j] = IF j = 0 THEN Below(b, <<>>) ELSE Deeper(b, M[j - 1])
      OBVIOUS
    <3>1. CASE j = k + 1
      <4>1. M[j - 1] = L[k] /\ j # 0
        BY <2>2, <3>1
      <4>. QED BY <2>2, <3>1, <4>1
    <3>2. CASE j # k + 1
      <4>1. M[j] = L[j] /\ j \in 0..k
        BY <2>2, <3>2
      <4>2. j # 0 => j - 1 \in 0..(k + 1) /\ j - 1 # k + 1
        BY <4>1
      <4>3. j # 0 => M[j - 1] = L[j - 1]
        BY <2>2, <4>2
      <4>. QED BY <2>3, <4>1, <4>3
    <3>. QED BY <3>1, <3>2
  <2>6. AreLevels(M, b, k + 1)
    BY <2>4, <2>5 DEF AreLevels
  <2>. QED BY <2>6
<1>. HIDE DEF T
<1>3. Nat \subseteq T
  BY <1>1, <1>2, SetInduction
<1>. QED BY <1>3 DEF T

(* The paths of a body are those of its levels. *)
LEMMA PathsAreLevels ==
  ASSUME NEW b
  PROVE  \E L : AreLevels(L, b, Nesting) /\ Paths(b) = UNION {L[n] : n \in 0..Nesting}
<1>. DEFINE L == CHOOSE L : AreLevels(L, b, Nesting)
<1>1. AreLevels(L, b, Nesting)
  BY LevelsExist, ControlAssumption
<1>2. Paths(b) = UNION {L[n] : n \in 0..Nesting}
  BY DEF Paths, AreLevels, Below, Deeper
<1>. QED BY <1>1, <1>2

(* The bodies of a program are sequences, shorter than a scope's segment. *)
IsBody(B) == B \in Seq({B[i] : i \in DOMAIN B}) /\ Len(B) < Whole

(* The statements of a body are counted from 1, and fewer than Whole. *)
LEMMA BodyIs ==
  ASSUME NEW B, IsBody(B)
  PROVE  Len(B) \in Nat /\ DOMAIN B = 1..Len(B) /\ Len(B) < Whole
BY DEF IsBody

(* So are those of every body of a program. *)
LEMMA BodiesAre ==
  ASSUME NEW b, IsProgram(b), NEW s \in Bodied(b)
  PROVE  /\ Len(BodyAt(b, s)) \in Nat /\ DOMAIN BodyAt(b, s) = 1..Len(BodyAt(b, s))
         /\ Len(BodyAt(b, s)) < Whole
<1>1. IsBody(BodyAt(b, s))
  BY DEF IsProgram, IsBody
<1>. QED BY <1>1, BodyIs

(* A path with a place behind it. *)
LEMMA PlaceBehind ==
  ASSUME NEW s \in Seq(Places), NEW i \in Places
  PROVE  /\ Append(s, i) \in Seq(Places) /\ Len(Append(s, i)) = Len(s) + 1
         /\ DropLast(Append(s, i)) = s /\ LastOf(Append(s, i)) = i
         /\ \A j \in 1..Len(s) : Append(s, i)[j] = s[j]
<1>1. /\ Append(s, i) \in Seq(Places) /\ Len(Append(s, i)) = Len(s) + 1
      /\ Append(s, i)[Len(s) + 1] = i /\ \A j \in 1..Len(s) : Append(s, i)[j] = s[j]
  OBVIOUS
<1>. DEFINE a == Append(s, i)
<1>. HIDE DEF a
<1>2. a \in Seq(Places) /\ Len(a) = Len(s) + 1 /\ a[Len(s) + 1] = i /\ \A j \in 1..Len(s) : a[j] = s[j]
  BY <1>1 DEF a
<1>3. SubSeq(a, 1, Len(s)) = s
  <2>1. SubSeq(a, 1, Len(s)) \in Seq(Places) /\ Len(SubSeq(a, 1, Len(s))) = Len(s)
    BY <1>2
  <2>2. \A j \in 1..Len(s) : SubSeq(a, 1, Len(s))[j] = s[j]
    BY <1>2
  <2>. QED BY <2>1, <2>2
<1>4. Len(a) - 1 = Len(s)
  BY <1>2
<1>. QED BY <1>2, <1>3, <1>4 DEF DropLast, LastOf, a

(* Every path leads from the body around it to a statement of that. *)
IsPath(b, p) ==
  /\ p \in Seq(Places) /\ Len(p) \in Nat \ {0}
  /\ DropLast(p) \in Bodied(b) /\ LastOf(p) \in DOMAIN BodyAt(b, DropLast(p))
  /\ LastOf(p) \in Places

(* A path of a level is as long as the level is deep, and the body it is
   in is one of the program. *)
LEMMA LevelsAre ==
  ASSUME NEW b, IsProgram(b), NEW L, AreLevels(L, b, Nesting), Paths(b) = UNION {L[n] : n \in 0..Nesting}
  PROVE  \A n \in 0..Nesting : \A p \in L[n] : IsPath(b, p) /\ Len(p) = n + 1
<1>2. \A n \in 0..Nesting : L[n] = IF n = 0 THEN Below(b, <<>>) ELSE Deeper(b, L[n - 1])
  BY DEF AreLevels
<1>. DEFINE Good(s) == s \in Bodied(b) /\ s \in Seq(Places)
<1>3. ASSUME NEW s, Good(s), NEW q \in Below(b, s) PROVE IsPath(b, q) /\ Len(q) = Len(s) + 1
  <2>1. PICK i \in DOMAIN BodyAt(b, s) : q = Append(s, i)
    BY DEF Below
  <2>2. i \in Places
    BY <1>3, <2>1, BodiesAre DEF Places
  <2>3. Len(s) \in Nat
    BY <1>3
  <2>. QED BY <1>3, <2>1, <2>2, <2>3, PlaceBehind DEF IsPath
<1>4. Good(<<>>)
  BY DEF Bodied
<1>. DEFINE T == {n \in Nat : n \in 0..Nesting => \A q \in L[n] : IsPath(b, q) /\ Len(q) = n + 1}
<1>5. 0 \in T
  <2>1. 0 \in 0..Nesting => L[0] = Below(b, <<>>)
    BY <1>2
  <2>2. Len(<<>>) = 0
    OBVIOUS
  <2>. HIDE DEF Good
  <2>. QED BY <1>3, <1>4, <2>1, <2>2
<1>6. ASSUME NEW n \in Nat, n \in T PROVE n + 1 \in T
  <2>. SUFFICES ASSUME n + 1 \in 0..Nesting, NEW q \in L[n + 1] PROVE IsPath(b, q) /\ Len(q) = n + 1 + 1
    OBVIOUS
  <2>1. n \in 0..Nesting /\ n + 1 # 0 /\ n + 1 - 1 = n
    BY ControlAssumption
  <2>2. L[n + 1] = Deeper(b, L[n])
    BY <1>2, <2>1
  <2>3. PICK s \in L[n] : StatementAt(b, s).kind \in Scoped /\ q \in Below(b, s)
    BY <2>2 DEF Deeper
  <2>4. IsPath(b, s) /\ s \in Paths(b) /\ Len(s) = n + 1
    BY <1>6, <2>1, <2>3
  <2>5. Good(s)
    BY <2>3, <2>4 DEF Bodied, IsPath
  <2>. HIDE DEF Good
  <2>. QED BY <1>3, <2>3, <2>4, <2>5
<1>. HIDE DEF T
<1>7. Nat \subseteq T
  BY <1>5, <1>6, SetInduction
<1>8. \A n \in 0..Nesting : n \in T /\ n \in 0..Nesting
  BY <1>7, ControlAssumption
<1>. QED BY <1>8 DEF T

(* Every path leads to a statement of a body of the program. *)
LEMMA PathsAre ==
  ASSUME NEW b, IsProgram(b), NEW p \in Paths(b)
  PROVE  IsPath(b, p)
BY PathsAreLevels, LevelsAre

(* Every statement of a body has a path. *)
LEMMA StatementsHavePaths ==
  ASSUME NEW b, IsProgram(b), NEW s \in Bodied(b), NEW i \in DOMAIN BodyAt(b, s)
  PROVE  Append(s, i) \in Paths(b)
<1>1. PICK L : AreLevels(L, b, Nesting) /\ Paths(b) = UNION {L[n] : n \in 0..Nesting}
  BY PathsAreLevels
<1>2. \A n \in 0..Nesting : L[n] = IF n = 0 THEN Below(b, <<>>) ELSE Deeper(b, L[n - 1])
  BY <1>1 DEF AreLevels
<1>3. Append(s, i) \in Below(b, s)
  BY DEF Below
<1>4. CASE s = <<>>
  <2>1. 0 \in 0..Nesting
    BY ControlAssumption
  <2>2. L[0] = Below(b, <<>>)
    BY <1>2, <2>1
  <2>. QED BY <1>1, <1>3, <1>4, <2>1, <2>2
<1>5. CASE s # <<>>
  <2>1. s \in Paths(b) /\ StatementAt(b, s).kind \in Scoped
    BY <1>5 DEF Bodied
  <2>2. PICK n \in 0..Nesting : s \in L[n]
    BY <1>1, <2>1
  <2>3. Len(s) = n + 1 /\ Len(s) <= Nesting
    BY <1>1, <2>1, <2>2, LevelsAre DEF IsProgram
  <2>4. n + 1 \in 0..Nesting /\ n + 1 # 0 /\ n + 1 - 1 = n
    BY <2>3, ControlAssumption
  <2>5. L[n + 1] = Deeper(b, L[n])
    BY <1>2, <2>4
  <2>6. Append(s, i) \in L[n + 1]
    BY <1>3, <2>1, <2>2, <2>5 DEF Deeper
  <2>. QED BY <1>1, <2>4, <2>6
<1>. QED BY <1>4, <1>5

----------------------------------------
(* Cuts of paths: the statements around a statement. *)
Cut(p, n) == SubSeq(p, 1, n)

(* What a cut consists of. *)
LEMMA CutIs ==
  ASSUME NEW p \in Seq(Places), NEW n \in 0..Len(p)
  PROVE  Cut(p, n) \in Seq(Places) /\ Len(Cut(p, n)) = n /\ \A j \in 1..n : Cut(p, n)[j] = p[j]
BY DEF Cut

(* Paths of the same places are the same. *)
LEMMA SamePath ==
  ASSUME NEW p \in Seq(Places), NEW q \in Seq(Places), Len(p) = Len(q), \A j \in 1..Len(p) : p[j] = q[j]
  PROVE  p = q
OBVIOUS

(* A cut of a cut is a cut. *)
LEMMA CutOfCut ==
  ASSUME NEW p \in Seq(Places), NEW n \in 0..Len(p), NEW m \in 0..n
  PROVE  Cut(Cut(p, n), m) = Cut(p, m)
<1>1. Cut(p, n) \in Seq(Places) /\ Len(Cut(p, n)) = n /\ \A j \in 1..n : Cut(p, n)[j] = p[j]
  BY CutIs
<1>2. m \in 0..Len(Cut(p, n)) /\ m \in 0..Len(p) /\ m \in Nat /\ n \in Nat
  BY <1>1
<1>3. /\ Cut(Cut(p, n), m) \in Seq(Places) /\ Len(Cut(Cut(p, n), m)) = m
      /\ \A j \in 1..m : Cut(Cut(p, n), m)[j] = Cut(p, n)[j]
  BY <1>1, <1>2, CutIs
<1>4. Cut(p, m) \in Seq(Places) /\ Len(Cut(p, m)) = m /\ \A j \in 1..m : Cut(p, m)[j] = p[j]
  BY <1>2, CutIs
<1>5. \A j \in 1..m : Cut(Cut(p, n), m)[j] = Cut(p, m)[j]
  BY <1>1, <1>2, <1>3, <1>4
<1>. QED BY <1>3, <1>4, <1>5, SamePath

(* The whole path is a cut of itself, the empty path one of every path. *)
LEMMA CutAll ==
  ASSUME NEW p \in Seq(Places)
  PROVE  Cut(p, Len(p)) = p /\ Cut(p, 0) = <<>> /\ Len(p) \in Nat
<1>1. Len(p) \in 0..Len(p) /\ 0 \in 0..Len(p) /\ Len(p) \in Nat
  OBVIOUS
<1>2. Cut(p, Len(p)) = p
  BY <1>1, CutIs, SamePath
<1>3. Cut(p, 0) = <<>>
  BY <1>1, CutIs
<1>. QED BY <1>1, <1>2, <1>3

(* The cuts of a path with a place behind it. *)
LEMMA CutsBehind ==
  ASSUME NEW s \in Seq(Places), NEW i \in Places, NEW n \in 0..Len(s)
  PROVE  Cut(Append(s, i), n) = Cut(s, n)
<1>1. Append(s, i) \in Seq(Places) /\ Len(Append(s, i)) = Len(s) + 1 /\ DropLast(Append(s, i)) = s
  BY PlaceBehind
<1>2. Len(s) \in Nat
  OBVIOUS
<1>. DEFINE a == Append(s, i)
<1>3. Cut(a, Len(s)) = s
  BY <1>1, <1>2 DEF DropLast, Cut
<1>4. Len(s) \in 0..Len(a)
  BY <1>1, <1>2
<1>. HIDE DEF a
<1>5. Cut(Cut(a, Len(s)), n) = Cut(a, n)
  BY <1>1, <1>4, CutOfCut DEF a
<1>. QED BY <1>3, <1>5 DEF a

(* The next cut. *)
LEMMA CutNext ==
  ASSUME NEW p \in Seq(Places), NEW n \in Nat, n < Len(p)
  PROVE  /\ Cut(p, n + 1) = Append(Cut(p, n), p[n + 1]) /\ p[n + 1] \in Places
         /\ DropLast(Cut(p, n + 1)) = Cut(p, n) /\ LastOf(Cut(p, n + 1)) = p[n + 1]
<1>1. n \in 0..Len(p) /\ n + 1 \in 0..Len(p) /\ n + 1 \in 1..Len(p)
  OBVIOUS
<1>2. p[n + 1] \in Places
  BY <1>1
<1>3. Cut(p, n) \in Seq(Places) /\ Len(Cut(p, n)) = n /\ \A j \in 1..n : Cut(p, n)[j] = p[j]
  BY <1>1, CutIs
<1>4. Cut(p, n + 1) \in Seq(Places) /\ Len(Cut(p, n + 1)) = n + 1 /\ \A j \in 1..(n + 1) : Cut(p, n + 1)[j] = p[j]
  BY <1>1, CutIs
<1>5. /\ Append(Cut(p, n), p[n + 1]) \in Seq(Places) /\ Len(Append(Cut(p, n), p[n + 1])) = n + 1
      /\ \A j \in 1..n : Append(Cut(p, n), p[n + 1])[j] = Cut(p, n)[j]
      /\ DropLast(Append(Cut(p, n), p[n + 1])) = Cut(p, n)
      /\ LastOf(Append(Cut(p, n), p[n + 1])) = p[n + 1]
  BY <1>2, <1>3, PlaceBehind
<1>6. Append(Cut(p, n), p[n + 1])[n + 1] = p[n + 1]
  BY <1>5 DEF LastOf
<1>7. \A j \in 1..(n + 1) : Append(Cut(p, n), p[n + 1])[j] = Cut(p, n + 1)[j]
  <2>. TAKE j \in 1..(n + 1)
  <2>1. CASE j = n + 1
    BY <1>4, <1>6, <2>1
  <2>2. CASE j # n + 1
    <3>1. j \in 1..n
      BY <2>2
    <3>. QED BY <1>3, <1>4, <1>5, <3>1
  <2>. QED BY <2>1, <2>2
<1>8. Cut(p, n + 1) = Append(Cut(p, n), p[n + 1])
  BY <1>4, <1>5, <1>7, SamePath
<1>. QED BY <1>2, <1>5, <1>8

(* What is around a path is a cut of it. *)
LEMMA PrefixesAreCuts ==
  ASSUME NEW p \in Seq(Places), NEW s \in Seq(Places)
  PROVE  Prefix(s, p) <=> Len(s) \in 0..Len(p) /\ s = Cut(p, Len(s))
<1>1. Len(s) \in Nat /\ Len(p) \in Nat
  OBVIOUS
<1>. QED BY <1>1 DEF Prefix, Cut

(* A cut is around what it was cut from. *)
LEMMA CutsArePrefixes ==
  ASSUME NEW p \in Seq(Places), NEW n \in 0..Len(p)
  PROVE  Prefix(Cut(p, n), p)
BY CutIs, PrefixesAreCuts

(* Two cuts of a path: the shorter one is around the longer one. *)
LEMMA CutsAreNested ==
  ASSUME NEW p \in Seq(Places), NEW n \in 0..Len(p), NEW m \in 0..Len(p)
  PROVE  Prefix(Cut(p, m), Cut(p, n)) <=> m <= n
<1>1. /\ Cut(p, n) \in Seq(Places) /\ Len(Cut(p, n)) = n
      /\ Cut(p, m) \in Seq(Places) /\ Len(Cut(p, m)) = m /\ m \in Nat /\ n \in Nat
  BY CutIs
<1>2. CASE m <= n
  <2>1. m \in 0..n
    BY <1>1, <1>2
  <2>2. Cut(Cut(p, n), m) = Cut(p, m)
    BY <2>1, CutOfCut
  <2>. QED BY <1>1, <1>2, <2>1, <2>2, PrefixesAreCuts
<1>3. CASE ~(m <= n)
  BY <1>1, <1>3 DEF Prefix
<1>. QED BY <1>2, <1>3

(* What is around a statement is the statement or around its body's scope. *)
LEMMA AroundBehind ==
  ASSUME NEW s \in Seq(Places), NEW i \in Places, NEW r \in Seq(Places)
  PROVE  Prefix(r, Append(s, i)) <=> Prefix(r, s) \/ r = Append(s, i)
<1>. DEFINE a == Append(s, i)
<1>1. a \in Seq(Places) /\ Len(a) = Len(s) + 1
  BY PlaceBehind
<1>2. \A n \in 0..Len(s) : Cut(a, n) = Cut(s, n)
  BY CutsBehind
<1>. HIDE DEF a
<1>3. Len(s) \in Nat /\ Len(r) \in Nat
  OBVIOUS
<1>4. Cut(a, Len(s) + 1) = a
  BY <1>1, CutAll
<1>5. Prefix(r, a) <=> Len(r) \in 0..Len(a) /\ r = Cut(a, Len(r))
  BY <1>1, PrefixesAreCuts
<1>6. Prefix(r, s) <=> Len(r) \in 0..Len(s) /\ r = Cut(s, Len(r))
  BY PrefixesAreCuts
<1>7. CASE Len(r) <= Len(s)
  <2>1. Len(r) \in 0..Len(s) /\ Len(r) \in 0..Len(a)
    BY <1>1, <1>3, <1>7
  <2>2. Cut(a, Len(r)) = Cut(s, Len(r)) /\ r # a
    BY <1>1, <1>2, <1>3, <1>7, <2>1
  <2>. QED BY <1>5, <1>6, <2>1, <2>2 DEF a
<1>8. CASE ~(Len(r) <= Len(s))
  <2>1. ~(Len(r) \in 0..Len(s))
    BY <1>3, <1>8
  <2>2. Len(r) \in 0..Len(a) <=> Len(r) = Len(s) + 1
    BY <1>1, <1>3, <1>8
  <2>3. Prefix(r, a) <=> r = a
    BY <1>1, <1>4, <1>5, <2>2
  <2>. QED BY <1>6, <2>1, <2>3 DEF a
<1>. QED BY <1>7, <1>8

(* Of two scopes around a place, the shorter is around the longer. *)
LEMMA Nested ==
  ASSUME NEW p \in Seq(Places), NEW r \in Seq(Places), NEW s \in Seq(Places), Prefix(r, p), Prefix(s, p)
  PROVE  (Len(r) <= Len(s) <=> Prefix(r, s)) /\ (Len(r) = Len(s) <=> r = s)
<1>1. Len(r) \in 0..Len(p) /\ r = Cut(p, Len(r)) /\ Len(s) \in 0..Len(p) /\ s = Cut(p, Len(s))
  BY PrefixesAreCuts
<1>2. Prefix(Cut(p, Len(r)), Cut(p, Len(s))) <=> Len(r) <= Len(s)
  BY <1>1, CutsAreNested
<1>. QED BY <1>1, <1>2

(* What is around a scope that is around a place is around the place. *)
LEMMA NestedTwice ==
  ASSUME NEW p \in Seq(Places), NEW r \in Seq(Places), NEW s \in Seq(Places), Prefix(r, s), Prefix(s, p)
  PROVE  Prefix(r, p)
<1>1. Len(r) \in 0..Len(s) /\ r = Cut(s, Len(r)) /\ Len(s) \in 0..Len(p) /\ s = Cut(p, Len(s))
  BY PrefixesAreCuts
<1>2. Cut(Cut(p, Len(s)), Len(r)) = Cut(p, Len(r)) /\ Len(r) \in 0..Len(p)
  BY <1>1, CutOfCut
<1>. QED BY <1>1, <1>2, CutsArePrefixes

----------------------------------------
(* The scopes of bodies. *)
LEMMA BodiedAre ==
  ASSUME NEW b, IsProgram(b), NEW s \in Bodied(b)
  PROVE  /\ s \in Seq(Places) /\ ~IsDefinition(s) /\ Owner(s) = s
         /\ s # <<>> => s \in Paths(b) /\ StatementAt(b, s).kind \in Scoped /\ IsPath(b, s)
<1>1. s # <<>> => s \in Paths(b) /\ StatementAt(b, s).kind \in Scoped /\ IsPath(b, s)
  BY PathsAre DEF Bodied
<1>2. s \in Seq(Places)
  <2>1. <<>> \in Seq(Places)
    OBVIOUS
  <2>. QED BY <1>1, <2>1 DEF IsPath
<1>3. ~IsDefinition(s)
  BY <1>1 DEF IsDefinition, IsPath, Places
<1>. QED BY <1>1, <1>2, <1>3 DEF Owner

(* A place in a body, or behind its last statement if control can go there. *)
IsPosition(b, p) ==
  /\ p \in Seq(Places) /\ Len(p) \in Nat \ {0}
  /\ DropLast(p) \in Bodied(b) /\ LastOf(p) \in Places
  /\ LastOf(p) \in 1..(Len(BodyAt(b, DropLast(p))) + 1)
  /\ \A i \in 1..(LastOf(p) - 1) : BodyAt(b, DropLast(p))[i].kind \notin Terminators

(* What is around a body is a body. *)
LEMMA CutsAreBodied ==
  ASSUME NEW b, IsProgram(b), NEW s \in Bodied(b), NEW n \in 0..Len(s)
  PROVE  Cut(s, n) \in Bodied(b)
<1>1. s \in Seq(Places) /\ Len(s) \in Nat /\ Cut(s, Len(s)) = s
  BY BodiedAre, CutAll
<1>. DEFINE T == {k \in Nat : k <= Len(s) => Cut(s, Len(s) - k) \in Bodied(b)}
<1>2. 0 \in T
  BY <1>1
<1>3. ASSUME NEW k \in Nat, k \in T PROVE k + 1 \in T
  <2>. SUFFICES ASSUME k + 1 <= Len(s) PROVE Cut(s, Len(s) - (k + 1)) \in Bodied(b)
    OBVIOUS
  <2>. DEFINE m == Len(s) - (k + 1)
  <2>1. m \in Nat /\ m < Len(s) /\ m + 1 = Len(s) - k /\ m + 1 \in 0..Len(s) /\ k <= Len(s) /\ m + 1 # 0
    BY <1>1
  <2>2. Cut(s, m + 1) \in Bodied(b)
    BY <1>3, <2>1
  <2>. HIDE DEF m
  <2>3. DropLast(Cut(s, m + 1)) = Cut(s, m)
    BY <1>1, <2>1, CutNext
  <2>4. Len(Cut(s, m + 1)) = m + 1
    BY <1>1, <2>1, CutIs
  <2>5. Cut(s, m + 1) # <<>>
    BY <2>1, <2>4
  <2>6. IsPath(b, Cut(s, m + 1))
    BY <2>2, <2>5, BodiedAre
  <2>. QED BY <2>3, <2>6 DEF IsPath, m
<1>. HIDE DEF T
<1>4. Nat \subseteq T
  BY <1>2, <1>3, SetInduction
<1>5. Len(s) - n \in Nat /\ Len(s) - n <= Len(s) /\ Len(s) - (Len(s) - n) = n
  BY <1>1
<1>. QED BY <1>4, <1>5 DEF T

(* Around a place are scopes of bodies, and statements with such a scope. *)
LEMMA CutsOfPlaces ==
  ASSUME NEW b, IsProgram(b), NEW s \in Bodied(b), NEW i \in Places, NEW n \in 0..Len(s)
  PROVE  /\ Cut(Append(s, i), n) = Cut(s, n) /\ Cut(s, n) \in Bodied(b)
         /\ n # 0 => /\ Cut(s, n) \in Paths(b) /\ StatementAt(b, Cut(s, n)).kind \in Scoped
                     /\ DropLast(Cut(s, n)) = Cut(s, n - 1) /\ LastOf(Cut(s, n)) = s[n]
<1>1. s \in Seq(Places)
  BY BodiedAre
<1>2. Cut(Append(s, i), n) = Cut(s, n) /\ Cut(s, n) \in Bodied(b) /\ Len(Cut(s, n)) = n
  BY <1>1, CutsBehind, CutsAreBodied, CutIs
<1>3. ASSUME n # 0
      PROVE  /\ Cut(s, n) \in Paths(b) /\ StatementAt(b, Cut(s, n)).kind \in Scoped
             /\ DropLast(Cut(s, n)) = Cut(s, n - 1) /\ LastOf(Cut(s, n)) = s[n]
  <2>1. Cut(s, n) # <<>>
    BY <1>2, <1>3
  <2>2. Cut(s, n) \in Paths(b) /\ StatementAt(b, Cut(s, n)).kind \in Scoped
    BY <1>2, <2>1, BodiedAre
  <2>3. n - 1 \in Nat /\ n - 1 < Len(s) /\ (n - 1) + 1 = n
    BY <1>1, <1>3
  <2>4. DropLast(Cut(s, n)) = Cut(s, n - 1) /\ LastOf(Cut(s, n)) = s[n]
    BY <1>1, <2>3, CutNext
  <2>. QED BY <2>2, <2>4
<1>. QED BY <1>2, <1>3

(* Positions: the statements, the first places of bodies and the places
   behind statements that go on. *)
LEMMA StatementIs ==
  ASSUME NEW b, IsProgram(b), NEW s \in Bodied(b), NEW i \in Places
  PROVE  StatementAt(b, Append(s, i)) = BodyAt(b, s)[i]
BY BodiedAre, PlaceBehind DEF StatementAt

(* A number before one that is counted is counted too. *)
LEMMA Earlier ==
  ASSUME NEW n \in Nat, NEW k \in 1..n, NEW i \in 1..(k - 1)
  PROVE  i \in 1..n /\ i \in Nat /\ i # 0 /\ i # n
OBVIOUS

(* Before every statement is a place: what is in front of it does not
   leave the body. *)
LEMMA EveryStatementIsAPosition ==
  ASSUME NEW b, IsProgram(b), NEW p \in Paths(b)
  PROVE  IsPosition(b, p)
<1>1. IsPath(b, p)
  BY PathsAre
<1>. DEFINE s == DropLast(p)
            B == BodyAt(b, s)
<1>2. s \in Bodied(b) /\ LastOf(p) \in DOMAIN B /\ LastOf(p) \in Places /\ s \in Seq(Places)
  BY <1>1, BodiedAre DEF IsPath
<1>3. Len(B) \in Nat /\ DOMAIN B = 1..Len(B)
  BY <1>2, BodiesAre
<1>. HIDE DEF s, B
<1>4. ASSUME NEW i \in 1..(LastOf(p) - 1) PROVE B[i].kind \notin Terminators
  <2>. DEFINE k == LastOf(p)
  <2>0. k \in 1..Len(B)
    BY <1>2, <1>3
  <2>. HIDE DEF k
  <2>8. i \in 1..(k - 1)
    BY DEF k
  <2>9. i \in 1..Len(B) /\ i \in Nat /\ i # 0 /\ i # Len(B)
    BY <1>3, <2>0, <2>8, Earlier
  <2>1. i \in DOMAIN B /\ i \in Places /\ i # Len(B)
    BY <1>3, <2>9 DEF Places
  <2>2. Append(s, i) \in Paths(b)
    BY <1>2, <2>1, StatementsHavePaths DEF B
  <2>3. StatementAt(b, Append(s, i)) = B[i]
    BY <1>2, <2>1, StatementIs DEF B
  <2>4. DropLast(Append(s, i)) = s /\ LastOf(Append(s, i)) = i
    BY <1>2, <2>1, PlaceBehind
  <2>5. StatementAt(b, Append(s, i)).kind \in Terminators => LastOf(Append(s, i)) = Len(BodyAt(b, DropLast(Append(s, i))))
    BY <2>2 DEF IsProgram
  <2>. QED BY <2>1, <2>3, <2>4, <2>5 DEF B
<1>5. LastOf(p) \in 1..(Len(B) + 1)
  BY <1>2, <1>3
<1>. QED BY <1>1, <1>4, <1>5 DEF IsPosition, IsPath, s, B

(* Before the first statement of a body is a place. *)
LEMMA FirstPlaces ==
  ASSUME NEW b, IsProgram(b), NEW s \in Bodied(b)
  PROVE  IsPosition(b, FirstOf(s)) /\ DropLast(FirstOf(s)) = s /\ LastOf(FirstOf(s)) = 1 /\ FirstOf(s) \in Seq(Places)
<1>1. s \in Seq(Places) /\ 1 \in Places /\ Len(s) \in Nat
  BY BodiedAre DEF Places
<1>2. /\ FirstOf(s) \in Seq(Places) /\ Len(FirstOf(s)) = Len(s) + 1
      /\ DropLast(FirstOf(s)) = s /\ LastOf(FirstOf(s)) = 1
  BY <1>1, PlaceBehind DEF FirstOf
<1>3. Len(BodyAt(b, s)) \in Nat
  BY BodiesAre
<1>4. 1 \in 1..(Len(BodyAt(b, s)) + 1) /\ 1..(1 - 1) = {}
  BY <1>3
<1>. QED BY <1>1, <1>2, <1>4 DEF IsPosition

(* PlaceBehind a statement that does not leave the body is a place. *)
LEMMA NextPlaces ==
  ASSUME NEW b, IsProgram(b), NEW p \in Paths(b), StatementAt(b, p).kind \notin Terminators
  PROVE  /\ IsPosition(b, Past(p)) /\ DropLast(Past(p)) = DropLast(p) /\ LastOf(Past(p)) = LastOf(p) + 1
         /\ Past(p) = Append(DropLast(p), LastOf(p) + 1)
<1>1. IsPath(b, p) /\ IsPosition(b, p)
  BY PathsAre, EveryStatementIsAPosition
<1>. DEFINE s == DropLast(p)
            i == LastOf(p)
            B == BodyAt(b, s)
<1>2. s \in Bodied(b) /\ i \in DOMAIN B /\ i \in Places /\ s \in Seq(Places) /\ p \in Seq(Places) /\ Len(p) \in Nat \ {0}
  BY <1>1, BodiedAre DEF IsPath
<1>3. Len(B) \in Nat /\ DOMAIN B = 1..Len(B)
  BY <1>2, BodiesAre
<1>4. /\ Past(p) \in Seq(Places) /\ Len(Past(p)) = Len(p) /\ Past(p)[Len(p)] = i + 1
      /\ \A j \in 1..(Len(p) - 1) : Past(p)[j] = p[j]
  BY <1>2 DEF Past, LastOf, Places
<1>5. \A j \in 1..(i - 1) : B[j].kind \notin Terminators
  BY <1>1 DEF IsPosition
<1>6. B[i].kind \notin Terminators
  BY DEF StatementAt
<1>. HIDE DEF s, i, B
<1>7. i + 1 \in Places /\ i + 1 \in 1..(Len(B) + 1) /\ Len(p) - 1 \in 0..Len(p)
  BY <1>2, <1>3 DEF Places
<1>8. s = Cut(p, Len(p) - 1) /\ Len(s) = Len(p) - 1 /\ \A j \in 1..(Len(p) - 1) : s[j] = p[j]
  BY <1>2, <1>7, CutIs DEF s, DropLast, Cut
<1>9. /\ Append(s, i + 1) \in Seq(Places) /\ Len(Append(s, i + 1)) = Len(p)
      /\ DropLast(Append(s, i + 1)) = s /\ LastOf(Append(s, i + 1)) = i + 1
      /\ \A j \in 1..(Len(p) - 1) : Append(s, i + 1)[j] = s[j]
  BY <1>2, <1>7, <1>8, PlaceBehind
<1>10. \A j \in 1..Len(p) : Past(p)[j] = Append(s, i + 1)[j]
  <2>. TAKE j \in 1..Len(p)
  <2>1. CASE j = Len(p)
    BY <1>4, <1>9, <2>1 DEF LastOf
  <2>2. CASE j # Len(p)
    <3>1. j \in 1..(Len(p) - 1)
      BY <1>2, <2>2
    <3>. QED BY <1>4, <1>8, <1>9, <3>1
  <2>. QED BY <2>1, <2>2
<1>11. Past(p) = Append(s, i + 1)
  BY <1>4, <1>9, <1>10, SamePath
<1>12. \A j \in 1..((i + 1) - 1) : B[j].kind \notin Terminators
  BY <1>2, <1>5, <1>6 DEF Places
<1>. QED BY <1>2, <1>4, <1>7, <1>9, <1>11, <1>12 DEF IsPosition, s, i, B

----------------------------------------
(* Programs without any of the things that are generated wrongly. *)
Sound(b) == IsProgram(b) /\ Carelessness(b) = {}

(* In a sound program, no for declares a variable in its definition. *)
LEMMA NoDefinitionVariable ==
  ASSUME NEW b, Sound(b), NEW p \in Paths(b), StatementAt(b, p).kind = "for"
  PROVE  StatementAt(b, p).var = NoVariable
<1>1. "definition" \notin Carelessness(b)
  BY DEF Sound
<1>. QED BY <1>1 DEF Carelessness

(* In a sound program, every enhanced for loops over a variable. *)
LEMMA EveryIterableHasAVariable ==
  ASSUME NEW b, Sound(b), NEW p \in Paths(b), StatementAt(b, p).kind = "enh_for"
  PROVE  StatementAt(b, p).var # NoVariable
<1>1. "iterable" \notin Carelessness(b)
  BY DEF Sound
<1>. QED BY <1>1 DEF Carelessness

(* In a sound program, no loop assigns the variable it loops over. *)
LEMMA IterablesStay ==
  ASSUME NEW b, Sound(b), NEW p \in Paths(b), NEW q \in Paths(b), Prefix(p, q),
         StatementAt(b, p).kind = "enh_for", StatementAt(b, q).kind = "assign"
  PROVE  StatementAt(b, p).var # StatementAt(b, q).var
<1>1. "changed" \notin Carelessness(b)
  BY DEF Sound
<1>. QED BY <1>1 DEF Carelessness

(* In a sound program, no break leaves a switch from the body of a while
   loop that is in it. *)
LEMMA SwitchesAreLeftOutsideLoops ==
  ASSUME NEW b, Sound(b), NEW p \in Paths(b), StatementAt(b, p).kind = "break",
         StatementAt(b, Around(b, p, Breakable)).kind = "switch",
         NEW loop \in Paths(b), StatementAt(b, loop).kind \in Loops \ {"for"}
  PROVE  loop # DropLast(Around(b, p, Breakable))
<1>1. "break" \notin Carelessness(b)
  BY DEF Sound
<1>. QED BY <1>1 DEF Carelessness

(* In a sound program, no variable is declared again below where it is
   declared. *)
LEMMA NoShadows ==
  ASSUME NEW b, Sound(b), NEW p \in Paths(b), StatementAt(b, p).kind = "declare",
         NEW s \in DeclaringScopes(b, StatementAt(b, p).var), NEW t \in DeclaringScopes(b, StatementAt(b, p).var),
         Prefix(s, t)
  PROVE  s = t
<1>1. "shadow" \notin Carelessness(b)
  BY DEF Sound
<1>. QED BY <1>1 DEF Carelessness

(* In a sound program, a catch with a scope in front of it is not left
   from inside another scope. *)
LEMMA CatchesAreLeftFirst ==
  ASSUME NEW b, Sound(b), NEW p \in Paths(b), StatementAt(b, p).kind = "catch",
         NEW q \in Paths(b), StatementAt(b, q).kind \in Terminators, Prefix(p, q), Len(q) > Len(p) + 1
  PROVE  ~(Segment(b, p) > 0)
<1>1. "caught" \notin Carelessness(b)
  BY DEF Sound
<1>. QED BY <1>1 DEF Carelessness

(* In a sound program, the returned variable is one of the scope of the
   return, and no other statement leaves that scope with it. *)
LEMMA ReturnsAreAlone ==
  ASSUME NEW b, Sound(b), NEW p \in Paths(b), StatementAt(b, p).kind = "return", StatementAt(b, p).var # NoVariable
  PROVE  /\ DropLast(p) \in DeclaringScopes(b, StatementAt(b, p).var)
         /\ \A q \in Paths(b) :
              Prefix(DropLast(p), q) /\ q # p /\ StatementAt(b, q).kind \in Terminators
                => \/ StatementAt(b, q).kind = "break" /\ ~(Len(Around(b, q, Breakable)) < Len(p))
                   \/ StatementAt(b, q).kind = "continue" /\ ~(Len(Around(b, q, Loops)) < Len(p))
<1>1. "returned" \notin Carelessness(b)
  BY DEF Sound
<1>. QED BY <1>1 DEF Carelessness

(* The definition scopes of for loops are empty. *)
LEMMA ZeroBehind ==
  ASSUME NEW s \in Seq(Places)
  PROVE  /\ IsDefinition(Append(s, 0)) /\ Owner(Append(s, 0)) = s /\ Append(s, 0) # <<>>
         /\ Append(s, 0) \notin Seq(Places)
<1>. DEFINE a == Append(s, 0)
<1>1. Len(s) \in Nat /\ s \in Seq(Nat)
  <2>1. Seq(Places) \subseteq Seq(Nat)
    BY DEF Places
  <2>. QED BY <2>1
<1>2. /\ a \in Seq(Nat) /\ Len(a) = Len(s) + 1 /\ a[Len(s) + 1] = 0 /\ \A j \in 1..Len(s) : a[j] = s[j]
  BY <1>1
<1>. HIDE DEF a
<1>3. SubSeq(a, 1, Len(s)) = s
  <2>1. SubSeq(a, 1, Len(s)) \in Seq(Nat) /\ Len(SubSeq(a, 1, Len(s))) = Len(s)
    BY <1>1, <1>2
  <2>2. \A j \in 1..Len(s) : SubSeq(a, 1, Len(s))[j] = s[j]
    BY <1>1, <1>2
  <2>. QED BY <1>1, <2>1, <2>2
<1>4. Len(a) - 1 = Len(s) /\ a # <<>>
  BY <1>1, <1>2
<1>5. IsDefinition(a) /\ DropLast(a) = s
  BY <1>2, <1>3, <1>4 DEF IsDefinition, DropLast, LastOf
<1>6. a \notin Seq(Places)
  <2>1. Len(s) + 1 \in 1..(Len(s) + 1)
    BY <1>1
  <2>2. a \in Seq(Places) => a[Len(s) + 1] \in Places
    BY <1>2, <2>1
  <2>. QED BY <1>2, <2>2 DEF Places
<1>. QED BY <1>4, <1>5, <1>6 DEF Owner, a

(* A scope that is no body, the definition of a for, declares and frees
   nothing. *)
LEMMA ScopesAre ==
  ASSUME NEW b, Sound(b), NEW s \in Scopes(b), s \notin Bodied(b)
  PROVE  /\ Declared(b, s) = {} /\ Names(b, s) = {} /\ s \notin Seq(Places)
         /\ \A segment : Freed(b, s, segment) = {}
<1>1. PICK p \in Paths(b) : s = Append(p, 0) /\ StatementAt(b, p).kind \in {"for", "enh_for"}
  BY DEF Scopes
<1>2. p \in Seq(Places)
  BY <1>1, PathsAre DEF IsPath, Sound
<1>3. IsDefinition(s) /\ Owner(s) = p /\ s \notin Seq(Places)
  BY <1>1, <1>2, ZeroBehind
<1>4. StatementAt(b, p).kind = "for" => StatementAt(b, p).var = NoVariable
  BY NoDefinitionVariable
<1>5. Declared(b, s) = {}
  BY <1>3, <1>4 DEF Declared
<1>6. Names(b, s) = {}
  BY <1>5 DEF Names
<1>7. \A segment : get_unique_variables(b, s, segment) = {}
  BY <1>5 DEF get_unique_variables
<1>8. \A segment : Freed(b, s, segment) = {}
  BY <1>7 DEF Freed
<1>. QED BY <1>3, <1>5, <1>6, <1>8

(* Nothing is visible of the definitions of the loops around a place. *)
LEMMA NoDefinitions ==
  ASSUME NEW b, Sound(b), NEW p \in Paths(b)
  PROVE  Definition(b, p) = {}
<1>1. p \in Seq(Places)
  BY PathsAre DEF IsPath, Sound
<1>2. CASE StatementAt(b, p).kind = "for"
  <2>1. Append(p, 0) \in Scopes(b)
    BY <1>2 DEF Scopes
  <2>2. Append(p, 0) \notin Bodied(b)
    BY <1>1, ZeroBehind, BodiedAre DEF Sound
  <2>3. Names(b, Append(p, 0)) = {}
    BY <2>1, <2>2, ScopesAre
  <2>. QED BY <1>2, <2>3 DEF Definition
<1>3. CASE StatementAt(b, p).kind # "for"
  BY <1>3 DEF Definition
<1>. QED BY <1>2, <1>3

----------------------------------------
(* The names that scopes declare. *)
Caught(b, s) == IF s # <<>> /\ StatementAt(b, s).kind = "catch" THEN {StatementAt(b, s).var} ELSE {}
New(b, s, i) == IF BodyAt(b, s)[i].kind = "declare" THEN {BodyAt(b, s)[i].var} ELSE {}

(* A variable has its name. *)
LEMMA OneName ==
  ASSUME NEW n, NEW g
  PROVE  {v.name : v \in {[name |-> n, segment |-> g]}} = {n}
OBVIOUS

(* The names of a scope: that of the error a catch is for, and those its
   statements declare. *)
LEMMA NamesAre ==
  ASSUME NEW b, IsProgram(b), NEW s \in Bodied(b)
  PROVE  /\ Names(b, s) = DeclaredBefore(b, s, Len(BodyAt(b, s)) + 1)
         /\ \A x \in Names(b, s) : x \in Caught(b, s) \/ \E i \in DOMAIN BodyAt(b, s) : x \in New(b, s, i)
<1>. DEFINE B == BodyAt(b, s)
<1>1. ~IsDefinition(s) /\ Len(B) \in Nat /\ DOMAIN B = 1..Len(B)
  BY BodiedAre, BodiesAre
<1>2. (Len(B) + 1) - 1 = Len(B)
  BY <1>1
<1>. DEFINE D == {[name |-> B[i].var, segment |-> Segment(b, Append(s, i))] :
                    i \in {j \in DOMAIN B : B[j].kind = "declare"}}
            C == IF s # <<>> /\ StatementAt(b, s).kind = "catch"
                   THEN {[name |-> StatementAt(b, s).var, segment |-> ParentSegment(b, s)]} ELSE {}
<1>3. Declared(b, s) = D \union C
  BY <1>1 DEF Declared
<1>4. {v.name : v \in C} = Caught(b, s)
  <2>1. CASE s # <<>> /\ StatementAt(b, s).kind = "catch"
    <3>1. C = {[name |-> StatementAt(b, s).var, segment |-> ParentSegment(b, s)]}
      BY <2>1
    <3>2. Caught(b, s) = {StatementAt(b, s).var}
      BY <2>1 DEF Caught
    <3>. HIDE DEF C
    <3>. QED BY <3>1, <3>2, OneName
  <2>2. CASE ~(s # <<>> /\ StatementAt(b, s).kind = "catch")
    BY <2>2 DEF Caught
  <2>. QED BY <2>1, <2>2
<1>. DEFINE I == {j \in DOMAIN B : B[j].kind = "declare"}
<1>5. {v.name : v \in D} = {B[i].var : i \in I}
  <2>1. D = {[name |-> B[i].var, segment |-> Segment(b, Append(s, i))] : i \in I}
    OBVIOUS
  <2>. HIDE DEF D, I, B
  <2>2. ASSUME NEW x \in {v.name : v \in D} PROVE x \in {B[i].var : i \in I}
    <3>1. PICK v \in D : x = v.name
      OBVIOUS
    <3>2. PICK i \in I : v = [name |-> B[i].var, segment |-> Segment(b, Append(s, i))]
      BY <2>1
    <3>3. x = B[i].var
      BY <3>1, <3>2
    <3>. QED BY <3>3
  <2>3. ASSUME NEW x \in {B[i].var : i \in I} PROVE x \in {v.name : v \in D}
    <3>1. PICK i \in I : x = B[i].var
      OBVIOUS
    <3>2. [name |-> x, segment |-> Segment(b, Append(s, i))] \in D
      BY <2>1, <3>1
    <3>. QED BY <3>2
  <2>. QED BY <2>2, <2>3
<1>6. Names(b, s) = {v.name : v \in D} \union {v.name : v \in C}
  <2>. HIDE DEF D, C
  <2>. QED BY <1>3 DEF Names
<1>7. DeclaredBefore(b, s, Len(B) + 1) = {B[i].var : i \in {j \in DOMAIN B : B[j].kind = "declare"}} \union Caught(b, s)
  BY <1>1, <1>2 DEF DeclaredBefore, Caught
<1>8. ASSUME NEW x \in {B[i].var : i \in {j \in DOMAIN B : B[j].kind = "declare"}}
      PROVE  \E i \in DOMAIN B : x \in New(b, s, i)
  BY DEF New
<1>. QED BY <1>4, <1>5, <1>6, <1>7, <1>8

(* What is declared before the next statement: what was, and what this
   one declares. *)
LEMMA BeforeNext ==
  ASSUME NEW b, NEW s, NEW i \in Places
  PROVE  DeclaredBefore(b, s, i + 1) = DeclaredBefore(b, s, i) \union New(b, s, i)
<1>1. (i + 1) - 1 = i /\ 1..i = 1..(i - 1) \union {i}
  BY DEF Places
<1>. DEFINE N(J) == {BodyAt(b, s)[k].var : k \in {j \in J : BodyAt(b, s)[j].kind = "declare"}}
<1>2. N(1..i) = N(1..(i - 1)) \union New(b, s, i)
  BY <1>1 DEF New
<1>. QED BY <1>1, <1>2 DEF DeclaredBefore

(* Before the first statement only the error is declared. *)
LEMMA BeforeFirst ==
  ASSUME NEW b, NEW s
  PROVE  DeclaredBefore(b, s, 1) = Caught(b, s)
BY DEF DeclaredBefore, Caught

(* What is declared before a statement is declared in the scope. *)
LEMMA BeforeIn ==
  ASSUME NEW b, IsProgram(b), NEW s \in Bodied(b), NEW i \in 1..(Len(BodyAt(b, s)) + 1)
  PROVE  DeclaredBefore(b, s, i) \subseteq Names(b, s)
<1>1. Names(b, s) = DeclaredBefore(b, s, Len(BodyAt(b, s)) + 1)
  BY NamesAre
<1>2. 1..(i - 1) \subseteq 1..((Len(BodyAt(b, s)) + 1) - 1)
  BY BodiesAre
<1>. QED BY <1>1, <1>2 DEF DeclaredBefore

(* What a statement sees, scope by scope. *)
VisibleAt(b, p, n) == {[scope |-> Cut(p, n), name |-> x] : x \in DeclaredBefore(b, Cut(p, n), p[n + 1])}

(* What is visible at a place: what is declared before it in each scope
   around it. *)
LEMMA VisibleIs ==
  ASSUME NEW b, Sound(b), NEW s \in Bodied(b), NEW i \in Places
  PROVE  Visible(b, Append(s, i)) = UNION {VisibleAt(b, Append(s, i), n) : n \in 0..Len(s)}
<1>. DEFINE p == Append(s, i)
<1>1. s \in Seq(Places) /\ Len(s) \in Nat /\ Len(p) - 1 = Len(s)
  BY BodiedAre, PlaceBehind DEF Sound
<1>2. ASSUME NEW n \in 0..Len(s), n > 0 PROVE Definition(b, Cut(p, n)) = {}
  <2>1. Cut(p, n) = Cut(s, n) /\ (n # 0 => Cut(s, n) \in Paths(b))
    BY CutsOfPlaces DEF Sound
  <2>2. n # 0
    BY <1>2
  <2>. HIDE DEF p
  <2>. QED BY <2>1, <2>2, NoDefinitions
<1>. HIDE DEF p
<1>3. Visible(b, p) = UNION {VisibleAt(b, p, n) \union (IF n > 0 THEN Definition(b, Cut(p, n)) ELSE {}) : n \in 0..Len(s)}
  BY <1>1 DEF Visible, VisibleAt, Cut
<1>4. \A n \in 0..Len(s) : VisibleAt(b, p, n) \union (IF n > 0 THEN Definition(b, Cut(p, n)) ELSE {}) = VisibleAt(b, p, n)
  BY <1>2
<1>. QED BY <1>3, <1>4 DEF p

(* Seen at p in s: declared around s, in front of p. *)
IsSeenIn(b, s, p, a) ==
  \E r \in Bodied(b) :
    /\ Prefix(r, s) /\ r \in Seq(Places)
    /\ \E x \in DeclaredBefore(b, r, p[Len(r) + 1]) : a = [scope |-> r, name |-> x]

(* What is visible was declared in a scope around the place, and in front
   of it. *)
LEMMA VisibleFrom ==
  ASSUME NEW b, Sound(b), NEW s \in Bodied(b), NEW i \in Places, NEW a \in Visible(b, Append(s, i))
  PROVE  IsSeenIn(b, s, Append(s, i), a)
<1>. DEFINE p == Append(s, i)
<1>1. PICK n \in 0..Len(s) : a \in VisibleAt(b, p, n)
  BY VisibleIs
<1>2. Cut(p, n) = Cut(s, n) /\ Cut(s, n) \in Bodied(b)
  BY CutsOfPlaces DEF Sound
<1>3. s \in Seq(Places)
  BY BodiedAre DEF Sound
<1>4. Len(Cut(s, n)) = n /\ Prefix(Cut(s, n), s) /\ Cut(s, n) \in Seq(Places)
  BY <1>3, CutIs, CutsArePrefixes
<1>. HIDE DEF p
<1>5. \E x \in DeclaredBefore(b, Cut(s, n), p[Len(Cut(s, n)) + 1]) : a = [scope |-> Cut(s, n), name |-> x]
  BY <1>1, <1>2, <1>4 DEF VisibleAt, p
<1>. QED BY <1>2, <1>4, <1>5 DEF p, IsSeenIn

(* What was declared in a scope around the place, and in front of it, is
   visible. *)
LEMMA VisibleTo ==
  ASSUME NEW b, Sound(b), NEW s \in Bodied(b), NEW i \in Places, NEW r \in Bodied(b), Prefix(r, s),
         NEW x \in DeclaredBefore(b, r, Append(s, i)[Len(r) + 1])
  PROVE  [scope |-> r, name |-> x] \in Visible(b, Append(s, i))
<1>1. s \in Seq(Places) /\ r \in Seq(Places)
  BY BodiedAre DEF Sound
<1>2. Len(r) \in 0..Len(s) /\ r = Cut(s, Len(r))
  BY <1>1, PrefixesAreCuts
<1>3. Cut(Append(s, i), Len(r)) = r
  BY <1>1, <1>2, CutsBehind
<1>4. [scope |-> r, name |-> x] \in VisibleAt(b, Append(s, i), Len(r))
  BY <1>3 DEF VisibleAt
<1>. QED BY <1>2, <1>4, VisibleIs

(* A path is what it is behind, and its last place. *)
LEMMA Reassembled ==
  ASSUME NEW p \in Seq(Places), p # <<>>
  PROVE  /\ p = Append(DropLast(p), LastOf(p)) /\ DropLast(p) \in Seq(Places) /\ LastOf(p) \in Places
         /\ Len(p) \in Nat /\ Len(DropLast(p)) = Len(p) - 1 /\ Len(p) > 0
         /\ \A j \in 1..(Len(p) - 1) : p[j] = DropLast(p)[j]
<1>1. Len(p) \in Nat /\ Len(p) > 0
  OBVIOUS
<1>. DEFINE n == Len(p) - 1
<1>2. n \in Nat /\ n < Len(p) /\ n + 1 = Len(p) /\ n \in 0..Len(p)
  BY <1>1
<1>. HIDE DEF n
<1>3. /\ Cut(p, n + 1) = Append(Cut(p, n), p[n + 1]) /\ p[n + 1] \in Places
  BY <1>2, CutNext
<1>4. Cut(p, n + 1) = p
  BY <1>2, CutAll
<1>5. Cut(p, n) = DropLast(p) /\ p[n + 1] = LastOf(p)
  BY <1>2 DEF Cut, DropLast, LastOf, n
<1>6. Cut(p, n) \in Seq(Places) /\ Len(Cut(p, n)) = n /\ \A j \in 1..n : Cut(p, n)[j] = p[j]
  BY <1>2, CutIs
<1>. QED BY <1>1, <1>3, <1>4, <1>5, <1>6 DEF n

(* A position, taken apart. *)
LEMMA PositionIs ==
  ASSUME NEW b, IsProgram(b), NEW p, IsPosition(b, p)
  PROVE  /\ p = Append(DropLast(p), LastOf(p)) /\ DropLast(p) \in Bodied(b) /\ LastOf(p) \in Places
         /\ DropLast(p) \in Seq(Places) /\ p \in Seq(Places) /\ p # <<>>
         /\ Len(DropLast(p)) \in Nat /\ Len(p) = Len(DropLast(p)) + 1
         /\ \A j \in 1..Len(DropLast(p)) : p[j] = DropLast(p)[j]
<1>1. p \in Seq(Places) /\ p # <<>> /\ DropLast(p) \in Bodied(b)
  BY DEF IsPosition
<1>. QED BY <1>1, Reassembled

(* The places of the statements around a position. *)
LEMMA PlacesAround ==
  ASSUME NEW b, IsProgram(b), NEW p, IsPosition(b, p), NEW r \in Bodied(b), Prefix(r, DropLast(p))
  PROVE  /\ p[Len(r) + 1] \in Places /\ p[Len(r) + 1] \in 1..(Len(BodyAt(b, r)) + 1)
         /\ r # DropLast(p) =>
              /\ p[Len(r) + 1] \in DOMAIN BodyAt(b, r)
              /\ Cut(p, Len(r) + 1) = Append(r, p[Len(r) + 1])
              /\ Cut(p, Len(r) + 1) \in Paths(b) /\ BodyAt(b, r)[p[Len(r) + 1]].kind \in Scoped
<1>. DEFINE s == DropLast(p)
            n == Len(r)
<1>1. /\ p = Append(s, LastOf(p)) /\ s \in Bodied(b) /\ LastOf(p) \in Places /\ s \in Seq(Places) /\ p \in Seq(Places)
      /\ Len(s) \in Nat /\ Len(p) = Len(s) + 1 /\ \A j \in 1..Len(s) : p[j] = s[j]
  BY PositionIs
<1>2. r \in Seq(Places)
  BY BodiedAre
<1>3. n \in 0..Len(s) /\ r = Cut(s, n)
  BY <1>1, <1>2, PrefixesAreCuts
<1>4. CASE r = s
  <2>1. p[n + 1] = LastOf(p)
    BY <1>1, <1>4 DEF LastOf
  <2>. QED BY <1>1, <1>4, <2>1 DEF IsPosition
<1>5. CASE r # s
  <2>. HIDE DEF s, n
  <2>1. n # Len(s) /\ n \in Nat
    BY <1>1, <1>3, <1>5, CutAll
  <2>2. n + 1 \in 0..Len(s) /\ n + 1 # 0 /\ (n + 1) - 1 = n /\ n + 1 \in 1..Len(s) /\ n < Len(p)
    BY <1>1, <1>3, <2>1
  <2>. DEFINE c == Cut(s, n + 1)
  <2>3. /\ Cut(p, n + 1) = c /\ c \in Paths(b) /\ StatementAt(b, c).kind \in Scoped
        /\ DropLast(c) = r /\ LastOf(c) = s[n + 1]
    BY <1>1, <1>3, <2>2, CutsOfPlaces
  <2>4. IsPath(b, c)
    BY <2>3, PathsAre
  <2>5. s[n + 1] = p[n + 1]
    BY <1>1, <2>2
  <2>. HIDE DEF c
  <2>6. p[n + 1] \in DOMAIN BodyAt(b, r) /\ p[n + 1] \in Places
    BY <2>3, <2>4, <2>5 DEF IsPath
  <2>7. BodyAt(b, r)[p[n + 1]].kind \in Scoped
    BY <2>3, <2>5 DEF StatementAt
  <2>8. Len(BodyAt(b, r)) \in Nat /\ DOMAIN BodyAt(b, r) = 1..Len(BodyAt(b, r))
    BY BodiesAre
  <2>9. p[n + 1] \in 1..(Len(BodyAt(b, r)) + 1)
    BY <2>6, <2>8
  <2>10. Cut(p, n) = r
    BY <1>1, <1>3, CutsBehind
  <2>11. Cut(p, n + 1) = Append(r, p[n + 1])
    BY <1>1, <2>1, <2>2, <2>10, CutNext
  <2>. QED BY <2>3, <2>6, <2>7, <2>9, <2>11 DEF n
<1>. QED BY <1>4, <1>5

(* An alloca is visible where its scope is around, behind its declaration. *)
LEMMA InVisible ==
  ASSUME NEW b, Sound(b), NEW p, IsPosition(b, p)
  PROVE  /\ \A a \in Visible(b, p) : \E r \in Bodied(b) : \E x : a = [scope |-> r, name |-> x]
         /\ \A r \in Bodied(b) : \A x :
              [scope |-> r, name |-> x] \in Visible(b, p)
                <=> Prefix(r, DropLast(p)) /\ x \in DeclaredBefore(b, r, p[Len(r) + 1])
<1>1. p = Append(DropLast(p), LastOf(p)) /\ DropLast(p) \in Bodied(b) /\ LastOf(p) \in Places
  BY PositionIs DEF Sound
<1>. DEFINE s == DropLast(p)
            i == LastOf(p)
<1>. HIDE DEF s, i
<1>2. p = Append(s, i) /\ s \in Bodied(b) /\ i \in Places
  BY <1>1 DEF s, i
<1>3. ASSUME NEW a \in Visible(b, p)
      PROVE  \E r \in Bodied(b) : Prefix(r, s) /\ \E x \in DeclaredBefore(b, r, p[Len(r) + 1]) : a = [scope |-> r, name |-> x]
  <2>1. a \in Visible(b, Append(s, i))
    BY <1>2
  <2>2. PICK r \in Bodied(b) :
          /\ Prefix(r, s)
          /\ \E x \in DeclaredBefore(b, r, Append(s, i)[Len(r) + 1]) : a = [scope |-> r, name |-> x]
    <3>1. s \in Bodied(b) /\ i \in Places
      BY <1>2
    <3>2. IsSeenIn(b, s, Append(s, i), a)
      BY <2>1, <3>1, VisibleFrom
    <3>. QED BY <3>2 DEF IsSeenIn
  <2>. QED BY <1>2, <2>2
<1>4. ASSUME NEW r \in Bodied(b), Prefix(r, s), NEW x \in DeclaredBefore(b, r, p[Len(r) + 1])
      PROVE  [scope |-> r, name |-> x] \in Visible(b, p)
  BY <1>2, <1>4, VisibleTo
<1>5. ASSUME NEW r \in Bodied(b), NEW x, [scope |-> r, name |-> x] \in Visible(b, p)
      PROVE  Prefix(r, s) /\ x \in DeclaredBefore(b, r, p[Len(r) + 1])
  <2>1. PICK q \in Bodied(b) : Prefix(q, s) /\ \E y \in DeclaredBefore(b, q, p[Len(q) + 1]) : [scope |-> r, name |-> x] = [scope |-> q, name |-> y]
    BY <1>3, <1>5
  <2>2. PICK y \in DeclaredBefore(b, q, p[Len(q) + 1]) : [scope |-> r, name |-> x] = [scope |-> q, name |-> y]
    BY <2>1
  <2>3. q = r /\ y = x
    BY <2>2
  <2>. QED BY <2>1, <2>2, <2>3
<1>. QED BY <1>3, <1>4, <1>5 DEF s

(* What is visible has an alloca. *)
LEMMA VisibleAreAllocas ==
  ASSUME NEW b, Sound(b), NEW p, IsPosition(b, p), NEW r \in Bodied(b), NEW x, [scope |-> r, name |-> x] \in Visible(b, p)
  PROVE  x \in Names(b, r) /\ [scope |-> r, name |-> x] \in Allocas(b)
<1>1. Prefix(r, DropLast(p)) /\ x \in DeclaredBefore(b, r, p[Len(r) + 1])
  BY InVisible
<1>2. p[Len(r) + 1] \in 1..(Len(BodyAt(b, r)) + 1)
  BY <1>1, PlacesAround DEF Sound
<1>3. x \in Names(b, r)
  BY <1>1, <1>2, BeforeIn DEF Sound
<1>. QED BY <1>3 DEF Allocas, Scopes

(* A name is declared once on the way to a statement. *)
LEMMA DeclaredOnce ==
  ASSUME NEW b, Sound(b), NEW s \in Bodied(b), NEW t \in Bodied(b), Prefix(s, t),
         NEW x, x \in Names(b, s), x \in Names(b, t)
  PROVE  s = t
<1>1. s \in DeclaringScopes(b, x) /\ t \in DeclaringScopes(b, x)
  BY DEF DeclaringScopes, Scopes
<1>2. ASSUME NEW r \in Bodied(b), NEW i \in DOMAIN BodyAt(b, r), x \in New(b, r, i) PROVE s = t
  <2>1. Append(r, i) \in Paths(b) /\ i \in Places
    BY StatementsHavePaths, BodiesAre DEF Sound, Places
  <2>2. StatementAt(b, Append(r, i)) = BodyAt(b, r)[i]
    BY <2>1, StatementIs DEF Sound
  <2>3. StatementAt(b, Append(r, i)).kind = "declare" /\ StatementAt(b, Append(r, i)).var = x
    BY <1>2, <2>2 DEF New
  <2>. QED BY <1>1, <2>1, <2>3, NoShadows
<1>3. CASE \E i \in DOMAIN BodyAt(b, s) : x \in New(b, s, i)
  BY <1>2, <1>3
<1>4. CASE \E i \in DOMAIN BodyAt(b, t) : x \in New(b, t, i)
  BY <1>2, <1>4
<1>5. CASE x \in Caught(b, s) /\ x \in Caught(b, t)
  <2>. SUFFICES ASSUME s # t PROVE FALSE
    OBVIOUS
  <2>1. s \in Seq(Places) /\ t \in Seq(Places) /\ t \in Paths(b) /\ t # <<>>
    BY <1>5, BodiedAre DEF Caught, Sound
  <2>2. StatementAt(b, t).kind = "catch" /\ StatementAt(b, t).var = x
    BY <1>5 DEF Caught
  <2>3. ~\E a \in Visible(b, t) : a.name = x
    BY <2>1, <2>2 DEF Sound, IsProgram
  <2>4. IsPosition(b, t)
    BY <2>1, EveryStatementIsAPosition DEF Sound
  <2>5. t = Append(DropLast(t), LastOf(t)) /\ DropLast(t) \in Seq(Places) /\ LastOf(t) \in Places
    BY <2>1, Reassembled
  <2>6. Prefix(s, DropLast(t))
    BY <2>1, <2>5, AroundBehind
  <2>7. x \in DeclaredBefore(b, s, t[Len(s) + 1])
    BY <1>5 DEF DeclaredBefore, Caught
  <2>8. [scope |-> s, name |-> x] \in Visible(b, t)
    BY <2>4, <2>6, <2>7, InVisible
  <2>. QED BY <2>3, <2>8
<1>. QED BY <1>3, <1>4, <1>5, NamesAre DEF Sound

(* How what is visible changes on the way. *)
Own(s, names) == {[scope |-> s, name |-> x] : x \in names}

(* PlaceBehind a statement, what it declares is visible too. *)
LEMMA VisibleBehind ==
  ASSUME NEW b, Sound(b), NEW p \in Paths(b), StatementAt(b, p).kind \notin Terminators
  PROVE  Visible(b, Past(p)) = Visible(b, p) \union Own(DropLast(p), New(b, DropLast(p), LastOf(p)))
<1>. DEFINE s == DropLast(p)
            i == LastOf(p)
            q == Past(p)
<1>1. IsPosition(b, p) /\ IsPosition(b, q) /\ DropLast(q) = s /\ LastOf(q) = i + 1
  BY EveryStatementIsAPosition, NextPlaces DEF Sound
<1>. HIDE DEF q
<1>2. /\ s \in Bodied(b) /\ i \in Places /\ Len(s) \in Nat
      /\ p = Append(s, i) /\ Len(p) = Len(s) + 1 /\ \A j \in 1..Len(s) : p[j] = s[j]
  BY <1>1, PositionIs DEF Sound
<1>3. q = Append(s, i + 1) /\ Len(q) = Len(s) + 1 /\ \A j \in 1..Len(s) : q[j] = s[j]
  BY <1>1, PositionIs DEF Sound
<1>4. ASSUME NEW r \in Bodied(b), NEW x
      PROVE  [scope |-> r, name |-> x] \in Visible(b, q) <=> [scope |-> r, name |-> x] \in Visible(b, p) \/ (r = s /\ x \in New(b, s, i))
  <2>1. [scope |-> r, name |-> x] \in Visible(b, q) <=> Prefix(r, s) /\ x \in DeclaredBefore(b, r, q[Len(r) + 1])
    BY <1>1, InVisible
  <2>2. [scope |-> r, name |-> x] \in Visible(b, p) <=> Prefix(r, s) /\ x \in DeclaredBefore(b, r, p[Len(r) + 1])
    BY <1>1, InVisible
  <2>3. r \in Seq(Places) /\ s \in Seq(Places)
    BY <1>2, BodiedAre DEF Sound
  <2>4. CASE r = s
    <3>1. q[Len(r) + 1] = i + 1 /\ p[Len(r) + 1] = i
      BY <1>1, <1>2, <1>3, <2>4 DEF LastOf
    <3>2. DeclaredBefore(b, s, i + 1) = DeclaredBefore(b, s, i) \union New(b, s, i)
      BY <1>2, BeforeNext
    <3>3. Prefix(s, s)
      BY <2>3, CutAll, PrefixesAreCuts
    <3>. QED BY <2>1, <2>2, <2>4, <3>1, <3>2, <3>3
  <2>5. CASE r # s
    <3>1. Prefix(r, s) => q[Len(r) + 1] = p[Len(r) + 1]
      <4>. SUFFICES ASSUME Prefix(r, s) PROVE q[Len(r) + 1] = p[Len(r) + 1]
        OBVIOUS
      <4>1. Len(r) \in 0..Len(s) /\ r = Cut(s, Len(r))
        BY <2>3, PrefixesAreCuts
      <4>2. Len(r) # Len(s)
        BY <2>3, <2>5, <4>1, CutAll
      <4>3. Len(r) + 1 \in 1..Len(s)
        BY <1>2, <4>1, <4>2
      <4>. QED BY <1>2, <1>3, <4>3
    <3>. QED BY <2>1, <2>2, <2>5, <3>1
  <2>. QED BY <2>4, <2>5
<1>5. \A a \in Visible(b, q) : \E r \in Bodied(b) : \E x : a = [scope |-> r, name |-> x]
  BY <1>1, InVisible
<1>6. \A a \in Visible(b, p) : \E r \in Bodied(b) : \E x : a = [scope |-> r, name |-> x]
  BY <1>1, InVisible
<1>. HIDE DEF s, i
<1>7. ASSUME NEW a \in Visible(b, q) PROVE a \in Visible(b, p) \union Own(s, New(b, s, i))
  <2>1. PICK r, x : r \in Bodied(b) /\ a = [scope |-> r, name |-> x]
    BY <1>5
  <2>. r \in Bodied(b)
    BY <2>1
  <2>. QED BY <1>4, <2>1 DEF Own
<1>8. ASSUME NEW a \in Visible(b, p) PROVE a \in Visible(b, q)
  <2>1. PICK r, x : r \in Bodied(b) /\ a = [scope |-> r, name |-> x]
    BY <1>6
  <2>. r \in Bodied(b)
    BY <2>1
  <2>. QED BY <1>4, <2>1
<1>9. ASSUME NEW a \in Own(s, New(b, s, i)) PROVE a \in Visible(b, q)
  <2>1. PICK x \in New(b, s, i) : a = [scope |-> s, name |-> x]
    BY DEF Own
  <2>. QED BY <1>2, <1>4, <2>1
<1>. QED BY <1>7, <1>8, <1>9 DEF s, i, q

(* In a body, the error it is to catch is visible too. *)
LEMMA VisibleInside ==
  ASSUME NEW b, Sound(b), NEW p \in Bodied(b), p # <<>>
  PROVE  Visible(b, FirstOf(p)) = Visible(b, p) \union Own(p, Caught(b, p))
<1>. DEFINE s == DropLast(p)
            q == FirstOf(p)
<1>1. p \in Paths(b) /\ p \in Seq(Places)
  BY BodiedAre DEF Sound
<1>2. IsPosition(b, p) /\ IsPosition(b, q) /\ DropLast(q) = p /\ LastOf(q) = 1
  BY <1>1, EveryStatementIsAPosition, FirstPlaces DEF Sound
<1>. HIDE DEF q
<1>3. /\ s \in Bodied(b) /\ Len(s) \in Nat /\ s \in Seq(Places) /\ LastOf(p) \in Places
      /\ p = Append(s, LastOf(p)) /\ Len(p) = Len(s) + 1
  BY <1>2, PositionIs DEF Sound
<1>4. Len(q) = Len(p) + 1 /\ \A j \in 1..Len(p) : q[j] = p[j]
  BY <1>2, PositionIs DEF Sound
<1>. HIDE DEF s
<1>5. ASSUME NEW r \in Bodied(b), NEW x
      PROVE  [scope |-> r, name |-> x] \in Visible(b, q) <=> [scope |-> r, name |-> x] \in Visible(b, p) \/ (r = p /\ x \in Caught(b, p))
  <2>1. [scope |-> r, name |-> x] \in Visible(b, q) <=> Prefix(r, p) /\ x \in DeclaredBefore(b, r, q[Len(r) + 1])
    BY <1>2, InVisible
  <2>2. [scope |-> r, name |-> x] \in Visible(b, p) <=> Prefix(r, s) /\ x \in DeclaredBefore(b, r, p[Len(r) + 1])
    BY <1>2, InVisible DEF s
  <2>3. r \in Seq(Places)
    BY BodiedAre DEF Sound
  <2>4. Prefix(r, p) <=> Prefix(r, s) \/ r = p
    <3>. DEFINE i == LastOf(p)
    <3>1. i \in Places /\ p = Append(s, i)
      BY <1>3
    <3>. HIDE DEF i
    <3>2. Prefix(r, Append(s, i)) <=> Prefix(r, s) \/ r = Append(s, i)
      BY <1>3, <2>3, <3>1, AroundBehind
    <3>. QED BY <3>1, <3>2
  <2>5. CASE r = p
    <3>1. q[Len(r) + 1] = 1
      BY <1>2, <1>4, <2>5 DEF LastOf
    <3>2. ~Prefix(r, s)
      BY <1>3, <2>5 DEF Prefix
    <3>. QED BY <2>1, <2>2, <2>4, <2>5, <3>1, <3>2, BeforeFirst
  <2>6. CASE r # p
    <3>1. Prefix(r, s) => q[Len(r) + 1] = p[Len(r) + 1]
      <4>. SUFFICES ASSUME Prefix(r, s) PROVE q[Len(r) + 1] = p[Len(r) + 1]
        OBVIOUS
      <4>1. Len(r) \in 0..Len(s)
        BY <1>3, <2>3, PrefixesAreCuts
      <4>2. Len(r) + 1 \in 1..Len(p)
        BY <1>3, <4>1
      <4>. QED BY <1>4, <4>2
    <3>. QED BY <2>1, <2>2, <2>4, <2>6, <3>1
  <2>. QED BY <2>5, <2>6
<1>6. \A a \in Visible(b, q) : \E r \in Bodied(b) : \E x : a = [scope |-> r, name |-> x]
  BY <1>2, InVisible
<1>7. \A a \in Visible(b, p) : \E r \in Bodied(b) : \E x : a = [scope |-> r, name |-> x]
  BY <1>2, InVisible
<1>8. ASSUME NEW a \in Visible(b, q) PROVE a \in Visible(b, p) \union Own(p, Caught(b, p))
  <2>1. PICK r, x : r \in Bodied(b) /\ a = [scope |-> r, name |-> x]
    BY <1>6
  <2>. r \in Bodied(b)
    BY <2>1
  <2>. QED BY <1>5, <2>1 DEF Own
<1>9. ASSUME NEW a \in Visible(b, p) PROVE a \in Visible(b, q)
  <2>1. PICK r, x : r \in Bodied(b) /\ a = [scope |-> r, name |-> x]
    BY <1>7
  <2>. r \in Bodied(b)
    BY <2>1
  <2>. QED BY <1>5, <2>1
<1>10. ASSUME NEW a \in Own(p, Caught(b, p)) PROVE a \in Visible(b, q)
  <2>1. PICK x \in Caught(b, p) : a = [scope |-> p, name |-> x]
    BY DEF Own
  <2>. QED BY <1>5, <2>1
<1>. QED BY <1>8, <1>9, <1>10 DEF q

(* What a statement around another one sees: what is declared outside it. *)
LEMMA VisibleAround ==
  ASSUME NEW b, Sound(b), NEW p, IsPosition(b, p), NEW t \in Bodied(b), t # <<>>, Prefix(t, DropLast(p))
  PROVE  Visible(b, t) = {a \in Visible(b, p) : Len(a.scope) < Len(t)}
<1>. DEFINE s == DropLast(p)
            u == DropLast(t)
<1>1. t \in Paths(b) /\ t \in Seq(Places)
  BY BodiedAre DEF Sound
<1>2. IsPosition(b, t)
  BY <1>1, EveryStatementIsAPosition DEF Sound
<1>3. /\ s \in Bodied(b) /\ Len(s) \in Nat /\ s \in Seq(Places)
      /\ Len(p) = Len(s) + 1 /\ \A j \in 1..Len(s) : p[j] = s[j]
  BY PositionIs DEF Sound
<1>4. /\ u \in Bodied(b) /\ Len(u) \in Nat /\ u \in Seq(Places) /\ LastOf(t) \in Places
      /\ Len(t) = Len(u) + 1 /\ t = Append(u, LastOf(t))
  BY <1>2, PositionIs DEF Sound
<1>5. Len(t) \in 0..Len(s) /\ t = Cut(s, Len(t))
  BY <1>1, <1>3, PrefixesAreCuts
<1>6. \A j \in 1..Len(t) : t[j] = s[j]
  BY <1>3, <1>5, CutIs
<1>7. \A j \in 1..Len(t) : t[j] = p[j]
  BY <1>3, <1>5, <1>6
<1>8. ASSUME NEW r \in Bodied(b), NEW x
      PROVE  [scope |-> r, name |-> x] \in Visible(b, t) <=> [scope |-> r, name |-> x] \in Visible(b, p) /\ Len(r) < Len(t)
  <2>1. [scope |-> r, name |-> x] \in Visible(b, t) <=> Prefix(r, u) /\ x \in DeclaredBefore(b, r, t[Len(r) + 1])
    BY <1>2, InVisible
  <2>2. [scope |-> r, name |-> x] \in Visible(b, p) <=> Prefix(r, s) /\ x \in DeclaredBefore(b, r, p[Len(r) + 1])
    BY InVisible
  <2>3. r \in Seq(Places) /\ Len(r) \in Nat
    BY BodiedAre DEF Sound
  <2>. HIDE DEF s, u
  <2>4. Prefix(u, t)
    <3>1. Prefix(u, u)
      BY <1>4, CutAll, PrefixesAreCuts
    <3>. QED BY <1>4, <3>1, AroundBehind
  <2>5. Prefix(u, s)
    BY <1>1, <1>3, <1>4, <2>4, NestedTwice DEF s
  <2>6. Prefix(r, u) <=> Prefix(r, s) /\ Len(r) < Len(t)
    <3>1. Prefix(r, u) => Prefix(r, s) /\ Len(r) <= Len(u)
      BY <1>3, <1>4, <2>3, <2>5, NestedTwice DEF Prefix
    <3>2. Prefix(r, s) => (Len(r) <= Len(u) <=> Prefix(r, u))
      BY <1>3, <1>4, <2>3, <2>5, Nested
    <3>3. Len(r) <= Len(u) <=> Len(r) < Len(t)
      BY <1>4, <2>3
    <3>. QED BY <3>1, <3>2, <3>3
  <2>7. Prefix(r, u) => t[Len(r) + 1] = p[Len(r) + 1]
    <3>1. Len(r) < Len(t) => Len(r) + 1 \in 1..Len(t)
      BY <1>4, <2>3
    <3>. QED BY <1>7, <2>6, <3>1
  <2>. QED BY <2>1, <2>2, <2>6, <2>7
<1>9. \A a \in Visible(b, p) : \E r \in Bodied(b) : \E x : a = [scope |-> r, name |-> x]
  BY InVisible
<1>10. \A a \in Visible(b, t) : \E r \in Bodied(b) : \E x : a = [scope |-> r, name |-> x]
  BY <1>2, InVisible
<1>11. ASSUME NEW a \in Visible(b, t) PROVE a \in Visible(b, p) /\ Len(a.scope) < Len(t)
  <2>1. PICK r, x : r \in Bodied(b) /\ a = [scope |-> r, name |-> x]
    BY <1>10
  <2>. r \in Bodied(b)
    BY <2>1
  <2>. QED BY <1>8, <2>1
<1>12. ASSUME NEW a \in Visible(b, p), Len(a.scope) < Len(t) PROVE a \in Visible(b, t)
  <2>1. PICK r, x : r \in Bodied(b) /\ a = [scope |-> r, name |-> x]
    BY <1>9
  <2>. r \in Bodied(b)
    BY <2>1
  <2>. QED BY <1>8, <1>12, <2>1
<1>. QED BY <1>11, <1>12

----------------------------------------
(* What the end of a scope frees. *)
ScopedBefore(b, s, i) == {j \in 1..(i - 1) : BodyAt(b, s)[j].kind \in Scoped}

(* The segment of a place is the number of scopes in front of it in its
   body. *)
LEMMA SegmentIs ==
  ASSUME NEW b, IsProgram(b), NEW s \in Bodied(b), NEW i \in Places
  PROVE  /\ Segment(b, Append(s, i)) = Cardinality(ScopedBefore(b, s, i)) /\ IsFiniteSet(ScopedBefore(b, s, i))
         /\ Segment(b, Append(s, i)) \in Nat /\ Segment(b, Append(s, i)) < i
<1>1. LastOf(Append(s, i)) = i /\ DropLast(Append(s, i)) = s
  BY BodiedAre, PlaceBehind
<1>2. Segment(b, Append(s, i)) = Cardinality(ScopedBefore(b, s, i))
  BY <1>1 DEF Segment, ScopedBefore
<1>3. IsFiniteSet(1..(i - 1)) /\ Cardinality(1..(i - 1)) = i - 1
  <2>1. 1 \in Int /\ i - 1 \in Int /\ (1 > i - 1 => i - 1 = 0) /\ (i - 1) - 1 + 1 = i - 1
    BY DEF Places
  <2>. QED BY <2>1, FS_Interval
<1>4. ScopedBefore(b, s, i) \in SUBSET (1..(i - 1))
  BY DEF ScopedBefore
<1>5. IsFiniteSet(ScopedBefore(b, s, i)) /\ Cardinality(ScopedBefore(b, s, i)) <= i - 1
  BY <1>3, <1>4, FS_Subset
<1>6. Cardinality(ScopedBefore(b, s, i)) \in Nat
  BY <1>5, FS_CardinalityType
<1>7. Cardinality(ScopedBefore(b, s, i)) < i
  BY <1>5, <1>6 DEF Places
<1>. QED BY <1>2, <1>5, <1>6, <1>7

(* Segments tell what is declared in front of a scoped statement. *)
LEMMA SegmentsAreOrdered ==
  ASSUME NEW b, IsProgram(b), NEW s \in Bodied(b), NEW i \in Places, NEW k \in Places,
         BodyAt(b, s)[i].kind = "declare", BodyAt(b, s)[k].kind \in Scoped
  PROVE  Segment(b, Append(s, i)) <= Segment(b, Append(s, k)) <=> i < k
<1>. DEFINE I == ScopedBefore(b, s, i)
            K == ScopedBefore(b, s, k)
<1>1. /\ Segment(b, Append(s, i)) = Cardinality(I) /\ IsFiniteSet(I) /\ Cardinality(I) \in Nat
      /\ Segment(b, Append(s, k)) = Cardinality(K) /\ IsFiniteSet(K) /\ Cardinality(K) \in Nat
  BY SegmentIs
<1>2. i # k
  BY DEF Scoped, Branches, Loops
<1>3. CASE i < k
  <2>1. I \in SUBSET K
    BY <1>3 DEF ScopedBefore, Places
  <2>. HIDE DEF I, K
  <2>2. Cardinality(I) <= Cardinality(K)
    BY <1>1, <2>1, FS_Subset
  <2>. QED BY <1>1, <1>3, <2>2
<1>4. CASE k < i
  <2>1. K \in SUBSET I /\ k \in I /\ k \notin K
    BY <1>4 DEF ScopedBefore, Places
  <2>. HIDE DEF I, K
  <2>2. Cardinality(K) <= Cardinality(I) /\ (Cardinality(I) = Cardinality(K) => I = K)
    BY <1>1, <2>1, FS_Subset
  <2>3. Cardinality(K) < Cardinality(I)
    BY <1>1, <2>1, <2>2
  <2>4. ~(Cardinality(I) <= Cardinality(K)) /\ ~(i < k)
    BY <1>1, <1>4, <2>3 DEF Places
  <2>. QED BY <1>1, <2>4
<1>5. i < k \/ k < i
  BY <1>2 DEF Places
<1>. QED BY <1>3, <1>4, <1>5

(* A scope declares no name its parent does. *)
LEMMA NamesOutside ==
  ASSUME NEW b, Sound(b), NEW s \in Bodied(b), s # <<>>, NEW x \in Names(b, s)
  PROVE  x \notin Names(b, Parent(b, s))
<1>1. s \in Paths(b) /\ s \in Seq(Places) /\ ~IsDefinition(s) /\ Owner(s) = s /\ IsPath(b, s)
  BY BodiedAre DEF Sound
<1>2. CASE StatementAt(b, s).kind \in {"for", "enh_for"}
  <2>1. Parent(b, s) = Append(s, 0) /\ Append(s, 0) \in Scopes(b)
    BY <1>1, <1>2 DEF Parent, Scopes
  <2>2. Append(s, 0) \notin Bodied(b)
    BY <1>1, ZeroBehind, BodiedAre DEF Sound
  <2>. QED BY <2>1, <2>2, ScopesAre
<1>3. CASE StatementAt(b, s).kind \notin {"for", "enh_for"}
  <2>. DEFINE u == DropLast(s)
  <2>1. Parent(b, s) = u
    BY <1>1, <1>3 DEF Parent
  <2>2. u \in Bodied(b) /\ u \in Seq(Places) /\ LastOf(s) \in Places
    BY <1>1, BodiedAre DEF IsPath, Sound
  <2>3. s = Append(u, LastOf(s)) /\ Len(u) = Len(s) - 1 /\ Len(s) \in Nat
    BY <1>1, Reassembled
  <2>. HIDE DEF u
  <2>4. u # s
    BY <2>3
  <2>5. Prefix(u, s)
    <3>. DEFINE i == LastOf(s)
    <3>1. i \in Places /\ s = Append(u, i)
      BY <2>2, <2>3
    <3>. HIDE DEF i
    <3>2. Prefix(u, u)
      BY <2>2, CutAll, PrefixesAreCuts
    <3>3. Prefix(u, Append(u, i))
      BY <2>2, <3>1, <3>2, AroundBehind
    <3>. QED BY <3>1, <3>3
  <2>. QED BY <2>1, <2>2, <2>4, <2>5, DeclaredOnce
<1>. QED BY <1>2, <1>3

(* The unique variables of a scope are those it declares up to the
   segment. *)
LEMMA UniqueAre ==
  ASSUME NEW b, Sound(b), NEW s \in Bodied(b), NEW segment
  PROVE  get_unique_variables(b, s, segment) = {v.name : v \in {w \in Declared(b, s) : w.segment <= segment}}
<1>1. \A w \in Declared(b, s) : s = <<>> \/ w.name \notin Names(b, Parent(b, s))
  <2>1. \A w \in Declared(b, s) : w.name \in Names(b, s)
    BY DEF Names
  <2>. QED BY <2>1, NamesOutside
<1>2. {w \in Declared(b, s) : w.segment <= segment /\ (s = <<>> \/ w.name \notin Names(b, Parent(b, s)))}
        = {w \in Declared(b, s) : w.segment <= segment}
  BY <1>1
<1>. QED BY <1>2 DEF get_unique_variables

(* The declarations of a scope, one by one. *)
LEMMA DeclarationsAre ==
  ASSUME NEW b, IsProgram(b), NEW s \in Bodied(b), NEW x, NEW segment
  PROVE  (\E w \in Declared(b, s) : w.name = x /\ w.segment <= segment)
           <=> \/ \E i \in DOMAIN BodyAt(b, s) : x \in New(b, s, i) /\ Segment(b, Append(s, i)) <= segment
               \/ x \in Caught(b, s) /\ Segment(b, s) <= segment
<1>. DEFINE B == BodyAt(b, s)
            I == {j \in DOMAIN B : B[j].kind = "declare"}
            D == {[name |-> B[i].var, segment |-> Segment(b, Append(s, i))] : i \in I}
            C == IF s # <<>> /\ StatementAt(b, s).kind = "catch"
                   THEN {[name |-> StatementAt(b, s).var, segment |-> Segment(b, s)]} ELSE {}
<1>1. ~IsDefinition(s) /\ Owner(s) = s
  BY BodiedAre
<1>2. Declared(b, s) = D \union C
  BY <1>1 DEF Declared, ParentSegment
<1>3. \A i \in DOMAIN B : x \in New(b, s, i) <=> i \in I /\ x = B[i].var
  BY DEF New
<1>4. (\E w \in D : w.name = x /\ w.segment <= segment)
        <=> \E i \in DOMAIN B : x \in New(b, s, i) /\ Segment(b, Append(s, i)) <= segment
  <2>1. ASSUME NEW w \in D, w.name = x, w.segment <= segment
        PROVE  \E i \in DOMAIN B : x \in New(b, s, i) /\ Segment(b, Append(s, i)) <= segment
    <3>1. PICK i \in I : w = [name |-> B[i].var, segment |-> Segment(b, Append(s, i))]
      OBVIOUS
    <3>2. x = B[i].var /\ Segment(b, Append(s, i)) <= segment /\ i \in DOMAIN B
      BY <2>1, <3>1
    <3>. QED BY <1>3, <3>1, <3>2
  <2>2. ASSUME NEW i \in DOMAIN B, x \in New(b, s, i), Segment(b, Append(s, i)) <= segment
        PROVE  \E w \in D : w.name = x /\ w.segment <= segment
    <3>1. i \in I /\ x = B[i].var
      BY <1>3, <2>2
    <3>2. [name |-> B[i].var, segment |-> Segment(b, Append(s, i))] \in D
      BY <3>1
    <3>. DEFINE w == [name |-> B[i].var, segment |-> Segment(b, Append(s, i))]
    <3>3. w.name = x /\ w.segment = Segment(b, Append(s, i))
      BY <3>1
    <3>. QED BY <2>2, <3>2, <3>3
  <2>. QED BY <2>1, <2>2
<1>5. (\E w \in C : w.name = x /\ w.segment <= segment) <=> x \in Caught(b, s) /\ Segment(b, s) <= segment
  <2>1. CASE s # <<>> /\ StatementAt(b, s).kind = "catch"
    <3>. DEFINE w == [name |-> StatementAt(b, s).var, segment |-> Segment(b, s)]
    <3>1. C = {w} /\ w.name = StatementAt(b, s).var /\ w.segment = Segment(b, s)
      BY <2>1
    <3>2. Caught(b, s) = {StatementAt(b, s).var}
      BY <2>1 DEF Caught
    <3>. HIDE DEF w, C
    <3>. QED BY <3>1, <3>2
  <2>2. CASE ~(s # <<>> /\ StatementAt(b, s).kind = "catch")
    BY <2>2 DEF Caught
  <2>. QED BY <2>1, <2>2
<1>. HIDE DEF B, D, C, I
<1>. QED BY <1>2, <1>4, <1>5 DEF B

(* At its end, the unique variables of a scope are all it declares. *)
LEMMA UniqueWhole ==
  ASSUME NEW b, Sound(b), NEW s \in Bodied(b)
  PROVE  get_unique_variables(b, s, Whole) = Names(b, s)
<1>1. ASSUME NEW x \in Names(b, s) PROVE \E w \in Declared(b, s) : w.name = x /\ w.segment <= Whole
  <2>1. CASE x \in Caught(b, s)
    <3>1. s # <<>> /\ IsPath(b, s) /\ s \in Seq(Places)
      BY <2>1, BodiedAre DEF Caught, Sound
    <3>2. s = Append(DropLast(s), LastOf(s)) /\ LastOf(s) \in Places
      BY <3>1, Reassembled
    <3>3. DropLast(s) \in Bodied(b) /\ LastOf(s) \in DOMAIN BodyAt(b, DropLast(s))
      BY <3>1 DEF IsPath
    <3>4. LastOf(s) < Whole
      <4>1. /\ Len(BodyAt(b, DropLast(s))) \in Nat /\ DOMAIN BodyAt(b, DropLast(s)) = 1..Len(BodyAt(b, DropLast(s)))
            /\ Len(BodyAt(b, DropLast(s))) < Whole
        BY <3>3, BodiesAre DEF Sound
      <4>. QED BY <3>3, <4>1 DEF Whole
    <3>. DEFINE i == LastOf(s)
                u == DropLast(s)
    <3>. HIDE DEF i, u
    <3>5. Segment(b, Append(u, i)) \in Nat /\ Segment(b, Append(u, i)) < i /\ i \in Places /\ i < Whole /\ s = Append(u, i)
      BY <3>2, <3>3, <3>4, SegmentIs DEF i, u, Sound
    <3>6. Segment(b, s) <= Whole
      BY <3>5 DEF Whole, Places
    <3>. QED BY <2>1, <3>6, DeclarationsAre DEF Sound
  <2>2. CASE \E i \in DOMAIN BodyAt(b, s) : x \in New(b, s, i)
    <3>1. PICK i \in DOMAIN BodyAt(b, s) : x \in New(b, s, i)
      BY <2>2
    <3>2. Len(BodyAt(b, s)) \in Nat /\ DOMAIN BodyAt(b, s) = 1..Len(BodyAt(b, s)) /\ Len(BodyAt(b, s)) < Whole
      BY BodiesAre DEF Sound
    <3>3. i \in Places /\ i < Whole
      BY <3>1, <3>2 DEF Whole, Places
    <3>4. Segment(b, Append(s, i)) \in Nat /\ Segment(b, Append(s, i)) < i
      BY <3>3, SegmentIs DEF Sound
    <3>5. Segment(b, Append(s, i)) <= Whole
      BY <3>3, <3>4 DEF Whole, Places
    <3>. QED BY <3>1, <3>5, DeclarationsAre DEF Sound
  <2>. QED BY <2>1, <2>2, NamesAre DEF Sound
<1>2. ASSUME NEW w \in Declared(b, s) PROVE w.name \in Names(b, s)
  BY DEF Names
<1>3. get_unique_variables(b, s, Whole) = {v.name : v \in {w \in Declared(b, s) : w.segment <= Whole}}
  BY UniqueAre
<1>. QED BY <1>1, <1>2, <1>3

(* A scope that is left by a statement inside it is freed up to there. *)
LEMMA UniqueUpTo ==
  ASSUME NEW b, Sound(b), NEW s \in Bodied(b), NEW k \in DOMAIN BodyAt(b, s), BodyAt(b, s)[k].kind \in Scoped,
         Caught(b, s) # {} => ~(Segment(b, s) > 0)
  PROVE  get_unique_variables(b, s, Segment(b, Append(s, k))) = DeclaredBefore(b, s, k)
<1>. DEFINE B == BodyAt(b, s)
            g == Segment(b, Append(s, k))
<1>1. Len(B) \in Nat /\ DOMAIN B = 1..Len(B)
  BY BodiesAre DEF Sound
<1>2. k \in Places
  BY <1>1 DEF Places
<1>3. g \in Nat
  BY <1>2, SegmentIs DEF Sound
<1>4. ASSUME NEW i \in DOMAIN B, NEW x \in New(b, s, i) PROVE Segment(b, Append(s, i)) <= g <=> i < k
  <2>1. i \in Places /\ B[i].kind = "declare"
    BY <1>1, <1>4 DEF New, Places
  <2>. QED BY <1>2, <2>1, SegmentsAreOrdered DEF Sound
<1>5. ASSUME Caught(b, s) # {} PROVE Segment(b, s) <= g
  <2>1. s # <<>> /\ IsPath(b, s) /\ s \in Seq(Places)
    BY <1>5, BodiedAre DEF Caught, Sound
  <2>2. s = Append(DropLast(s), LastOf(s)) /\ LastOf(s) \in Places /\ DropLast(s) \in Bodied(b)
    BY <2>1, Reassembled DEF IsPath
  <2>. DEFINE i == LastOf(s)
              u == DropLast(s)
  <2>. HIDE DEF i, u
  <2>3. Segment(b, Append(u, i)) \in Nat /\ s = Append(u, i)
    BY <2>2, SegmentIs DEF i, u, Sound
  <2>4. Segment(b, s) \in Nat /\ ~(Segment(b, s) > 0)
    BY <1>5, <2>3
  <2>. HIDE DEF g
  <2>. QED BY <1>3, <2>4
<1>6. \A x : x \in DeclaredBefore(b, s, k) <=> x \in Caught(b, s) \/ \E i \in DOMAIN B : x \in New(b, s, i) /\ i < k
  <2>1. \A i \in 1..(k - 1) : i \in DOMAIN B /\ i < k
    BY <1>1, <1>2 DEF Places
  <2>2. \A i \in DOMAIN B : i < k => i \in 1..(k - 1)
    BY <1>1, <1>2 DEF Places
  <2>. QED BY <2>1, <2>2 DEF DeclaredBefore, Caught, New
<1>. HIDE DEF g
<1>7. get_unique_variables(b, s, g) = {v.name : v \in {w \in Declared(b, s) : w.segment <= g}}
  BY UniqueAre
<1>8. \A x : x \in get_unique_variables(b, s, g) <=> \E w \in Declared(b, s) : w.name = x /\ w.segment <= g
  BY <1>7
<1>9. \A x : x \in get_unique_variables(b, s, g) <=> x \in DeclaredBefore(b, s, k)
  <2>. TAKE x
  <2>1. (\E w \in Declared(b, s) : w.name = x /\ w.segment <= g)
           <=> \/ \E i \in DOMAIN BodyAt(b, s) : x \in New(b, s, i) /\ Segment(b, Append(s, i)) <= g
               \/ x \in Caught(b, s) /\ Segment(b, s) <= g
    BY DeclarationsAre DEF Sound
  <2>. QED BY <1>4, <1>5, <1>6, <1>8, <2>1
<1>. QED BY <1>9 DEF g

----------------------------------------
(* What is returned is not freed. *)
LEMMA NamesAreVariables ==
  ASSUME NEW b, IsProgram(b), NEW s \in Bodied(b), NEW x \in Names(b, s)
  PROVE  x # NoVariable
<1>1. CASE x \in Caught(b, s)
  <2>1. s \in Paths(b) /\ StatementAt(b, s).kind = "catch" /\ StatementAt(b, s).var = x
    BY <1>1, BodiedAre DEF Caught
  <2>. QED BY <2>1 DEF IsProgram
<1>2. CASE \E i \in DOMAIN BodyAt(b, s) : x \in New(b, s, i)
  <2>1. PICK i \in DOMAIN BodyAt(b, s) : x \in New(b, s, i)
    BY <1>2
  <2>2. Append(s, i) \in Paths(b) /\ i \in Places
    BY StatementsHavePaths, BodiesAre DEF Places
  <2>3. StatementAt(b, Append(s, i)) = BodyAt(b, s)[i]
    BY <2>2, StatementIs
  <2>4. StatementAt(b, Append(s, i)).kind = "declare" /\ StatementAt(b, Append(s, i)).var = x
    BY <2>1, <2>3 DEF New
  <2>. QED BY <2>2, <2>4 DEF IsProgram
<1>. QED BY <1>1, <1>2, NamesAre

(* A variable that is returned is so by a return of its scope, and
   nothing else leaves the scope without it. *)
LEMMA ReturnedIs ==
  ASSUME NEW b, Sound(b), NEW s \in Bodied(b), NEW x \in Names(b, s), IsReturned(b, s, x)
  PROVE  \E q \in Paths(b) :
           /\ DropLast(q) = s /\ StatementAt(b, q).kind = "return" /\ StatementAt(b, q).var = x
           /\ Len(q) = Len(s) + 1
           /\ \A p \in Paths(b) :
                Prefix(s, p) /\ p # q /\ StatementAt(b, p).kind \in Terminators
                  => \/ StatementAt(b, p).kind = "break" /\ ~(Len(Around(b, p, Breakable)) < Len(q))
                     \/ StatementAt(b, p).kind = "continue" /\ ~(Len(Around(b, p, Loops)) < Len(q))
<1>1. PICK q \in Paths(b) : Prefix(Owner(s), q) /\ StatementAt(b, q).kind = "return" /\ StatementAt(b, q).var = x
  BY DEF IsReturned
<1>2. s \in Seq(Places) /\ Owner(s) = s /\ (s # <<>> => s \in Paths(b) /\ StatementAt(b, s).kind \in Scoped)
  BY BodiedAre DEF Sound
<1>3. x # NoVariable
  BY NamesAreVariables DEF Sound
<1>4. DropLast(q) \in DeclaringScopes(b, x)
  BY <1>1, <1>3, ReturnsAreAlone
<1>5. IsPath(b, q) /\ q # <<>>
  BY PathsAre DEF Sound, IsPath
<1>6. /\ q = Append(DropLast(q), LastOf(q)) /\ DropLast(q) \in Seq(Places) /\ LastOf(q) \in Places
      /\ Len(q) \in Nat /\ Len(DropLast(q)) = Len(q) - 1
  BY <1>5, Reassembled DEF IsPath
<1>7. s # q
  BY <1>1, <1>2, <1>5 DEF Scoped, Branches, Loops
<1>8. Prefix(s, DropLast(q))
  <2>. DEFINE u == DropLast(q)
              i == LastOf(q)
  <2>. HIDE DEF u, i
  <2>1. q = Append(u, i) /\ u \in Seq(Places) /\ i \in Places
    BY <1>6 DEF u, i
  <2>2. Prefix(s, Append(u, i)) <=> Prefix(s, u) \/ s = Append(u, i)
    BY <1>2, <2>1, AroundBehind
  <2>. QED BY <1>1, <1>2, <1>7, <2>1, <2>2 DEF u
<1>9. DropLast(q) \in Bodied(b) /\ x \in Names(b, DropLast(q))
  BY <1>4, <1>5 DEF IsPath, DeclaringScopes
<1>10. s = DropLast(q)
  BY <1>8, <1>9, DeclaredOnce
<1>11. Len(q) = Len(s) + 1
  BY <1>6, <1>10
<1>. QED BY <1>1, <1>3, <1>10, <1>11, ReturnsAreAlone

(* Whoever comes to the end of a scope does not return one of its
   variables. *)
LEMMA NothingReturnedBehind ==
  ASSUME NEW b, Sound(b), NEW p, IsPosition(b, p), LastOf(p) = Len(BodyAt(b, DropLast(p))) + 1,
         NEW x \in Names(b, DropLast(p))
  PROVE  ~IsReturned(b, DropLast(p), x)
<1>. SUFFICES ASSUME IsReturned(b, DropLast(p), x) PROVE FALSE
  OBVIOUS
<1>. DEFINE s == DropLast(p)
            B == BodyAt(b, s)
<1>1. s \in Bodied(b)
  BY DEF IsPosition
<1>2. PICK q \in Paths(b) : DropLast(q) = s /\ StatementAt(b, q).kind = "return"
  BY <1>1, ReturnedIs
<1>3. LastOf(q) \in DOMAIN B
  BY <1>2, PathsAre DEF IsPath, Sound
<1>4. Len(B) \in Nat /\ DOMAIN B = 1..Len(B)
  BY <1>1, BodiesAre DEF Sound
<1>5. LastOf(q) \in 1..(LastOf(p) - 1)
  BY <1>3, <1>4
<1>6. B[LastOf(q)].kind \in Terminators
  BY <1>2 DEF StatementAt, Terminators
<1>. QED BY <1>5, <1>6 DEF IsPosition

(* What a statement that leaves scopes frees in one of them: what is
   visible of it and not returned. *)
Unreturned(b, s, names) == {x \in names : ~IsReturned(b, s, x)}

(* What the end of a scope frees: its unique variables, without the
   returned ones. *)
LEMMA FreedAre ==
  ASSUME NEW b, NEW s, NEW segment
  PROVE  Freed(b, s, segment) = Own(s, Unreturned(b, s, get_unique_variables(b, s, segment)))
BY DEF Freed, Own, Unreturned

(* A statement that leaves scopes frees of each what is declared there in
   front of it, without the returned ones. *)
LEMMA FreedOnTheWay ==
  ASSUME NEW b, Sound(b), NEW p \in Paths(b), StatementAt(b, p).kind \in Terminators,
         NEW r \in Bodied(b), Prefix(r, DropLast(p))
  PROVE  Freed(b, r, SegmentOf(b, DropLast(p), r)) = Own(r, Unreturned(b, r, DeclaredBefore(b, r, p[Len(r) + 1])))
<1>. DEFINE s == DropLast(p)
            k == p[Len(r) + 1]
<1>1. IsPosition(b, p)
  BY EveryStatementIsAPosition DEF Sound
<1>2. /\ s \in Bodied(b) /\ Len(s) \in Nat /\ s \in Seq(Places) /\ LastOf(p) \in Places
      /\ p = Append(s, LastOf(p)) /\ Len(p) = Len(s) + 1 /\ p \in Seq(Places)
  BY <1>1, PositionIs DEF Sound
<1>3. r \in Seq(Places) /\ Len(r) \in Nat /\ ~IsDefinition(r)
  BY BodiedAre DEF Sound
<1>4. get_unique_variables(b, r, SegmentOf(b, s, r)) = DeclaredBefore(b, r, k)
  <2>1. CASE r = s
    <3>1. k = LastOf(p)
      BY <1>2, <2>1 DEF LastOf
    <3>2. LastOf(p) = Len(BodyAt(b, s))
      BY DEF Sound, IsProgram
    <3>3. BodyAt(b, s)[LastOf(p)].kind \in Terminators
      BY DEF StatementAt
    <3>4. New(b, s, LastOf(p)) = {}
      BY <3>3 DEF New, Terminators
    <3>5. DeclaredBefore(b, s, LastOf(p) + 1) = DeclaredBefore(b, s, LastOf(p))
      <4>1. DeclaredBefore(b, s, LastOf(p) + 1) = DeclaredBefore(b, s, LastOf(p)) \union New(b, s, LastOf(p))
        <5>. DEFINE i == LastOf(p)
        <5>1. i \in Places
          BY <1>2
        <5>. HIDE DEF i, s
        <5>2. DeclaredBefore(b, s, i + 1) = DeclaredBefore(b, s, i) \union New(b, s, i)
          BY <5>1, BeforeNext
        <5>. QED BY <5>2 DEF i
      <4>. QED BY <3>4, <4>1
    <3>6. Names(b, s) = DeclaredBefore(b, s, LastOf(p) + 1)
      BY <1>2, <3>2, NamesAre DEF Sound
    <3>7. SegmentOf(b, s, r) = Whole
      BY <2>1 DEF SegmentOf
    <3>. HIDE DEF s, k
    <3>. QED BY <1>2, <2>1, <3>1, <3>5, <3>6, <3>7, UniqueWhole
  <2>2. CASE r # s
    <3>1. /\ k \in DOMAIN BodyAt(b, r) /\ Cut(p, Len(r) + 1) = Append(r, k)
          /\ BodyAt(b, r)[k].kind \in Scoped
      BY <1>1, <2>2, PlacesAround DEF Sound
    <3>2. Len(r) \in 0..Len(s) /\ r = Cut(s, Len(r))
      BY <1>2, <1>3, PrefixesAreCuts
    <3>3. Len(r) # Len(s)
      BY <1>2, <2>2, <3>2, CutAll
    <3>4. Len(r) + 1 \in 0..Len(s) /\ Len(p) > Len(r) + 1
      BY <1>2, <1>3, <3>2, <3>3
    <3>5. Cut(p, Len(r) + 1) = Cut(s, Len(r) + 1)
      <4>. DEFINE i == LastOf(p)
      <4>1. i \in Places /\ p = Append(s, i)
        BY <1>2
      <4>. HIDE DEF i, s
      <4>2. Cut(Append(s, i), Len(r) + 1) = Cut(s, Len(r) + 1)
        BY <1>2, <3>4, <4>1, CutsBehind
      <4>. QED BY <4>1, <4>2
    <3>6. SegmentOf(b, s, r) = Segment(b, Append(r, k))
      BY <1>3, <2>2, <3>1, <3>5 DEF SegmentOf, LeftStatement, Cut
    <3>7. Caught(b, r) # {} => ~(Segment(b, r) > 0)
      <4>. SUFFICES ASSUME Caught(b, r) # {} PROVE ~(Segment(b, r) > 0)
        OBVIOUS
      <4>1. r \in Paths(b) /\ StatementAt(b, r).kind = "catch"
        BY BodiedAre DEF Caught, Sound
      <4>2. Prefix(r, p)
        <5>. DEFINE i == LastOf(p)
        <5>1. i \in Places /\ p = Append(s, i)
          BY <1>2
        <5>. HIDE DEF i
        <5>2. Prefix(r, Append(s, i))
          BY <1>2, <1>3, <5>1, AroundBehind
        <5>. QED BY <5>1, <5>2
      <4>. QED BY <3>4, <4>1, <4>2, CatchesAreLeftFirst
    <3>. HIDE DEF s, k
    <3>. QED BY <3>1, <3>6, <3>7, UniqueUpTo
  <2>. QED BY <2>1, <2>2
<1>. HIDE DEF s, k
<1>5. Freed(b, r, SegmentOf(b, s, r)) = Own(r, Unreturned(b, r, DeclaredBefore(b, r, k)))
  BY <1>4, FreedAre
<1>. QED BY <1>5 DEF s, k

----------------------------------------
(* What the statements that leave several scopes free. *)
LeftBehind(b, p, m) == {a \in Visible(b, p) : m <= Len(a.scope) /\ ~IsReturned(b, a.scope, a.name)}

(* What is freed of the scopes that are left: what is visible of them,
   without the returned variables. *)
LEMMA LeftScopesAreFreed ==
  ASSUME NEW b, Sound(b), NEW p \in Paths(b), StatementAt(b, p).kind \in Terminators, NEW m \in Nat,
         NEW X \in SUBSET Scopes(b),
         \A r \in Bodied(b) : r \in X <=> Prefix(r, DropLast(p)) /\ m <= Len(r)
  PROVE  FreedIn(b, DropLast(p), X) = LeftBehind(b, p, m)
<1>. DEFINE s == DropLast(p)
            F(r) == Freed(b, r, SegmentOf(b, s, r))
<1>1. IsPosition(b, p)
  BY EveryStatementIsAPosition DEF Sound
<1>2. ASSUME NEW r \in X, r \notin Bodied(b) PROVE F(r) = {}
  BY <1>2, ScopesAre
<1>3. ASSUME NEW r \in Bodied(b), Prefix(r, s)
      PROVE  F(r) = Own(r, Unreturned(b, r, DeclaredBefore(b, r, p[Len(r) + 1])))
  BY <1>3, FreedOnTheWay
<1>4. /\ \A a \in Visible(b, p) : \E r \in Bodied(b) : \E x : a = [scope |-> r, name |-> x]
      /\ \A r \in Bodied(b) : \A x :
           [scope |-> r, name |-> x] \in Visible(b, p) <=> Prefix(r, s) /\ x \in DeclaredBefore(b, r, p[Len(r) + 1])
  BY <1>1, InVisible
<1>5. FreedIn(b, s, X) = UNION {F(r) : r \in X}
  BY DEF FreedIn
<1>. HIDE DEF F, s
<1>6. ASSUME NEW a \in FreedIn(b, s, X) PROVE a \in LeftBehind(b, p, m)
  <2>1. PICK r \in X : a \in F(r)
    BY <1>5
  <2>2. r \in Bodied(b)
    BY <1>2, <2>1
  <2>3. Prefix(r, s) /\ m <= Len(r)
    BY <2>2 DEF s
  <2>4. PICK x \in Unreturned(b, r, DeclaredBefore(b, r, p[Len(r) + 1])) : a = [scope |-> r, name |-> x]
    BY <1>3, <2>1, <2>2, <2>3 DEF Own
  <2>5. x \in DeclaredBefore(b, r, p[Len(r) + 1]) /\ ~IsReturned(b, r, x)
    BY DEF Unreturned
  <2>6. a \in Visible(b, p)
    BY <1>4, <2>2, <2>3, <2>4, <2>5
  <2>7. a.scope = r /\ a.name = x
    BY <2>4
  <2>. QED BY <2>3, <2>5, <2>6, <2>7 DEF LeftBehind
<1>7. ASSUME NEW a \in LeftBehind(b, p, m) PROVE a \in FreedIn(b, s, X)
  <2>1. a \in Visible(b, p) /\ m <= Len(a.scope) /\ ~IsReturned(b, a.scope, a.name)
    BY DEF LeftBehind
  <2>2. PICK r, x : r \in Bodied(b) /\ a = [scope |-> r, name |-> x]
    BY <1>4, <2>1
  <2>. r \in Bodied(b)
    BY <2>2
  <2>3. a.scope = r /\ a.name = x
    BY <2>2
  <2>4. Prefix(r, s) /\ x \in DeclaredBefore(b, r, p[Len(r) + 1])
    BY <1>4, <2>1, <2>2
  <2>5. r \in X
    BY <2>1, <2>3, <2>4 DEF s
  <2>6. x \in Unreturned(b, r, DeclaredBefore(b, r, p[Len(r) + 1]))
    BY <2>1, <2>3, <2>4 DEF Unreturned
  <2>7. a \in F(r)
    BY <1>3, <2>2, <2>4, <2>6 DEF Own
  <2>. QED BY <1>5, <2>5, <2>7
<1>. QED BY <1>6, <1>7 DEF s

(* The innermost statement of some kinds around another. *)
IsInnermost(b, p, kinds, n) ==
  /\ n \in 1..(Len(p) - 1) /\ StatementAt(b, Cut(p, n)).kind \in kinds
  /\ \A k \in (n + 1)..(Len(p) - 1) : StatementAt(b, Cut(p, k)).kind \notin kinds

(* The target of a statement is the innermost of its kinds around it. *)
LEMMA AroundIs ==
  ASSUME NEW b, NEW p, Len(p) \in Nat, NEW kinds, IsInside(b, p, kinds)
  PROVE  \E n \in 1..(Len(p) - 1) : IsInnermost(b, p, kinds, n) /\ Around(b, p, kinds) = Cut(p, n)
<1>. DEFINE T == {k \in Nat : \E n \in 1..(Len(p) - 1) : n + k = Len(p) /\ StatementAt(b, Cut(p, n)).kind \in kinds}
<1>1. PICK l \in 1..(Len(p) - 1) : StatementAt(b, Cut(p, l)).kind \in kinds
  BY DEF IsInside, Cut
<1>2. Len(p) - l \in Nat /\ l + (Len(p) - l) = Len(p)
  BY <1>1
<1>3. Len(p) - l \in T
  BY <1>1, <1>2
<1>4. T \subseteq Nat /\ T # {}
  BY <1>3
<1>5. PICK k \in T : \A j \in T : k <= j
  <2>. HIDE DEF T
  <2>. QED BY <1>4, LeastNatural
<1>6. PICK n \in 1..(Len(p) - 1) : n + k = Len(p) /\ StatementAt(b, Cut(p, n)).kind \in kinds
  BY <1>5
<1>7. ASSUME NEW i \in (n + 1)..(Len(p) - 1), StatementAt(b, Cut(p, i)).kind \in kinds PROVE FALSE
  <2>1. i \in 1..(Len(p) - 1) /\ Len(p) - i \in Nat /\ i + (Len(p) - i) = Len(p) /\ ~(k <= Len(p) - i)
    BY <1>5, <1>6
  <2>2. Len(p) - i \in T
    BY <1>7, <2>1
  <2>. HIDE DEF T
  <2>. QED BY <1>5, <2>1, <2>2
<1>8. IsInnermost(b, p, kinds, n)
  BY <1>6, <1>7 DEF IsInnermost
<1>. DEFINE c == CHOOSE c \in 1..(Len(p) - 1) : IsInnermost(b, p, kinds, c)
<1>9. c \in 1..(Len(p) - 1) /\ IsInnermost(b, p, kinds, c)
  BY <1>8
<1>10. Around(b, p, kinds) = Cut(p, c)
  <2>1. c = CHOOSE d \in 1..(Len(p) - 1) :
                  /\ StatementAt(b, SubSeq(p, 1, d)).kind \in kinds
                  /\ \A k1 \in (d + 1)..(Len(p) - 1) : StatementAt(b, SubSeq(p, 1, k1)).kind \notin kinds
    BY DEF IsInnermost, Cut
  <2>. QED BY <2>1 DEF Around, Cut
<1>. QED BY <1>9, <1>10

(* There is one innermost. *)
LEMMA InnermostOnce ==
  ASSUME NEW b, NEW p, Len(p) \in Nat, NEW kinds, NEW n, NEW l, IsInnermost(b, p, kinds, n), IsInnermost(b, p, kinds, l)
  PROVE  n = l
<1>1. n \in Nat /\ l \in Nat /\ n <= Len(p) - 1 /\ l <= Len(p) - 1
  BY DEF IsInnermost
<1>2. ~(n < l)
  BY <1>1 DEF IsInnermost
<1>3. ~(l < n)
  BY <1>1 DEF IsInnermost
<1>. QED BY <1>1, <1>2, <1>3

(* A statement around another one is that of a body around it. *)
LEMMA TargetIs ==
  ASSUME NEW b, IsProgram(b), NEW p \in Paths(b), NEW kinds, IsInside(b, p, kinds)
  PROVE  LET t == Around(b, p, kinds)
         IN  /\ t \in Bodied(b) /\ t \in Paths(b) /\ t \in Seq(Places) /\ t # <<>>
             /\ Prefix(t, DropLast(p)) /\ StatementAt(b, t).kind \in kinds
<1>1. IsPosition(b, p)
  BY EveryStatementIsAPosition
<1>2. /\ DropLast(p) \in Bodied(b) /\ Len(DropLast(p)) \in Nat /\ DropLast(p) \in Seq(Places) /\ LastOf(p) \in Places
      /\ p = Append(DropLast(p), LastOf(p)) /\ Len(p) = Len(DropLast(p)) + 1
  BY <1>1, PositionIs
<1>3. Len(p) \in Nat
  BY <1>2
<1>4. PICK n \in 1..(Len(p) - 1) : IsInnermost(b, p, kinds, n) /\ Around(b, p, kinds) = Cut(p, n)
  BY <1>3, AroundIs
<1>. DEFINE s == DropLast(p)
            i == LastOf(p)
<1>. HIDE DEF s, i
<1>5. s \in Bodied(b) /\ s \in Seq(Places) /\ Len(s) \in Nat /\ i \in Places /\ p = Append(s, i) /\ Len(p) = Len(s) + 1
  BY <1>2 DEF s, i
<1>6. n \in 0..Len(s) /\ n # 0
  BY <1>4, <1>5
<1>7. /\ Cut(Append(s, i), n) = Cut(s, n) /\ Cut(s, n) \in Bodied(b) /\ Cut(s, n) \in Paths(b)
  BY <1>5, <1>6, CutsOfPlaces
<1>8. Cut(p, n) = Cut(s, n)
  BY <1>5, <1>7
<1>9. Prefix(Cut(s, n), s) /\ Len(Cut(s, n)) = n /\ Cut(s, n) \in Seq(Places)
  BY <1>5, <1>6, CutsArePrefixes, CutIs
<1>10. Cut(s, n) # <<>>
  BY <1>6, <1>9
<1>11. StatementAt(b, Cut(p, n)).kind \in kinds
  BY <1>4 DEF IsInnermost
<1>. QED BY <1>4, <1>7, <1>8, <1>9, <1>10, <1>11 DEF s

(* The scopes from one to another around it. *)
LEMMA ScopesUpToAre ==
  ASSUME NEW b, IsProgram(b), NEW s \in Bodied(b), NEW outermost
  PROVE  /\ ScopesUpTo(b, s, outermost) \in SUBSET Scopes(b)
         /\ \A r \in Bodied(b) :
              r \in ScopesUpTo(b, s, outermost) <=> Prefix(r, s) /\ Prefix(Owner(outermost), r)
<1>1. ASSUME NEW r \in Bodied(b)
      PROVE  r \in ScopesUpTo(b, s, outermost) <=> Prefix(r, s) /\ Prefix(Owner(outermost), r)
  <2>1. Owner(r) = r /\ Owner(s) = s /\ ~IsDefinition(r) /\ ~IsDefinition(s) /\ r \in Scopes(b)
    BY BodiedAre DEF Scopes
  <2>. QED BY <2>1 DEF ScopesUpTo, IsAround
<1>. QED BY <1>1 DEF ScopesUpTo

(* The scope of a loop is its body. *)
LEMMA LoopScopeIs ==
  ASSUME NEW b, IsProgram(b), NEW t \in Bodied(b)
  PROVE  Owner(LoopScope(b, t)) = t /\ (LoopScope(b, t) \in Seq(Places) => StatementAt(b, t).kind # "for" /\ LoopScope(b, t) = t)
<1>1. t \in Seq(Places) /\ Owner(t) = t
  BY BodiedAre
<1>2. Owner(Append(t, 0)) = t /\ Append(t, 0) \notin Seq(Places)
  BY <1>1, ZeroBehind
<1>. QED BY <1>1, <1>2 DEF LoopScope

(* The scopes inside a statement, as those of some depth. *)
LEMMA InsideOf ==
  ASSUME NEW b, IsProgram(b), NEW s \in Bodied(b), NEW t \in Seq(Places), Prefix(t, s), NEW r \in Bodied(b)
  PROVE  Prefix(r, s) /\ Prefix(t, r) <=> Prefix(r, s) /\ Len(t) <= Len(r)
<1>1. s \in Seq(Places) /\ r \in Seq(Places)
  BY BodiedAre
<1>. QED BY <1>1, Nested

(* A continue frees what is visible in the loop. *)
LEMMA ContinueFrees ==
  ASSUME NEW b, Sound(b), NEW p \in Paths(b), StatementAt(b, p).kind = "continue"
  PROVE  FreedByContinue(b, p) = LeftBehind(b, p, Len(Around(b, p, Loops)))
<1>. DEFINE s == DropLast(p)
            t == Around(b, p, Loops)
            X == ScopesUpTo(b, s, LoopScope(b, t))
<1>1. IsInside(b, p, Loops) /\ StatementAt(b, p).kind \in Terminators
  BY DEF Sound, IsProgram, Terminators
<1>2. t \in Bodied(b) /\ t \in Seq(Places) /\ Prefix(t, s)
  BY <1>1, TargetIs DEF Sound
<1>3. s \in Bodied(b) /\ Len(t) \in Nat
  BY <1>2, PathsAre DEF IsPath, Sound
<1>. HIDE DEF s, t
<1>4. X \in SUBSET Scopes(b) /\ \A r \in Bodied(b) : r \in X <=> Prefix(r, s) /\ Prefix(t, r)
  BY <1>2, <1>3, ScopesUpToAre, LoopScopeIs DEF Sound
<1>5. \A r \in Bodied(b) : r \in X <=> Prefix(r, s) /\ Len(t) <= Len(r)
  BY <1>2, <1>3, <1>4, InsideOf DEF Sound
<1>. HIDE DEF X
<1>6. FreedIn(b, s, X) = LeftBehind(b, p, Len(t))
  BY <1>1, <1>3, <1>4, <1>5, LeftScopesAreFreed DEF s
<1>. QED BY <1>6 DEF FreedByContinue, s, t, X

(* A return or throw frees all that is visible, without what is returned. *)
LEMMA ReturnFrees ==
  ASSUME NEW b, Sound(b), NEW p \in Paths(b), StatementAt(b, p).kind \in {"return", "throw"}
  PROVE  FreedByReturn(b, p) = LeftBehind(b, p, 0)
<1>. DEFINE s == DropLast(p)
            X == ScopesUpTo(b, s, <<>>)
<1>1. StatementAt(b, p).kind \in Terminators
  BY DEF Terminators
<1>2. s \in Bodied(b) /\ <<>> \in Bodied(b)
  BY PathsAre DEF IsPath, Sound, Bodied
<1>3. s \in Seq(Places) /\ Owner(<<>>) = <<>> /\ <<>> \in Seq(Places) /\ Len(<<>>) = 0
  BY <1>2, BodiedAre DEF Sound
<1>4. Prefix(<<>>, s)
  BY <1>3, CutAll DEF Cut, Prefix
<1>. HIDE DEF s
<1>5. X \in SUBSET Scopes(b) /\ \A r \in Bodied(b) : r \in X <=> Prefix(r, s) /\ Prefix(<<>>, r)
  BY <1>2, <1>3, ScopesUpToAre DEF Sound
<1>6. \A r \in Bodied(b) : r \in X <=> Prefix(r, s) /\ 0 <= Len(r)
  BY <1>2, <1>3, <1>4, <1>5, InsideOf DEF Sound
<1>. HIDE DEF X
<1>7. FreedIn(b, s, X) = LeftBehind(b, p, 0)
  BY <1>1, <1>5, <1>6, LeftScopesAreFreed DEF s
<1>. QED BY <1>7 DEF FreedByReturn, s, X

(* A break frees what is visible in the loop or switch. *)
LEMMA BreakFrees ==
  ASSUME NEW b, Sound(b), NEW p \in Paths(b), StatementAt(b, p).kind = "break"
  PROVE  FreedByBreak(b, p) = LeftBehind(b, p, Len(Around(b, p, Breakable)))
<1>. DEFINE s == DropLast(p)
            t == Around(b, p, Breakable)
            o == BreakScope(b, t)
            also == IsInside(b, p, Loops) /\ o = LoopScope(b, Around(b, p, Loops))
            X == IF also THEN ScopesUpTo(b, s, o) ELSE ScopesUpTo(b, s, o) \ {o}
<1>1. IsInside(b, p, Breakable) /\ StatementAt(b, p).kind \in Terminators
  BY DEF Sound, IsProgram, Terminators
<1>2. t \in Bodied(b) /\ t \in Paths(b) /\ t \in Seq(Places) /\ t # <<>> /\ Prefix(t, s) /\ StatementAt(b, t).kind \in Breakable
  BY <1>1, TargetIs DEF Sound
<1>3. s \in Bodied(b) /\ Len(t) \in Nat /\ s \in Seq(Places)
  BY <1>2, PathsAre, BodiedAre DEF IsPath, Sound
<1>4. IsInside(b, p, Loops) =>
        /\ Around(b, p, Loops) \in Paths(b) /\ Around(b, p, Loops) \in Bodied(b)
        /\ StatementAt(b, Around(b, p, Loops)).kind \in Loops
  BY TargetIs DEF Sound
<1>5. X \in SUBSET Scopes(b) /\ \A r \in Bodied(b) : r \in X <=> Prefix(r, s) /\ Len(t) <= Len(r)
  <2>1. CASE StatementAt(b, t).kind = "switch"
    <3>. DEFINE u == DropLast(t)
    <3>1. o = u
      BY <2>1 DEF BreakScope
    <3>2. u \in Bodied(b) /\ u \in Seq(Places) /\ LastOf(t) \in Places
      BY <1>2, PathsAre, BodiedAre DEF IsPath, Sound
    <3>3. t = Append(u, LastOf(t)) /\ Len(u) = Len(t) - 1
      BY <1>2, Reassembled
    <3>4. ~also
      <4>. SUFFICES ASSUME also PROVE FALSE
        OBVIOUS
      <4>. DEFINE l == Around(b, p, Loops)
      <4>1. l \in Paths(b) /\ l \in Bodied(b) /\ StatementAt(b, l).kind \in Loops /\ u = LoopScope(b, l)
        BY <1>4, <3>1
      <4>2. StatementAt(b, l).kind # "for" /\ LoopScope(b, l) = l
        BY <3>2, <4>1, LoopScopeIs DEF Sound
      <4>. QED BY <2>1, <4>1, <4>2, SwitchesAreLeftOutsideLoops
    <3>5. Prefix(u, t)
      <4>. DEFINE i == LastOf(t)
      <4>1. i \in Places /\ t = Append(u, i)
        BY <3>2, <3>3
      <4>. HIDE DEF i, u
      <4>2. Prefix(u, u)
        BY <3>2, CutAll, PrefixesAreCuts
      <4>3. Prefix(u, Append(u, i))
        BY <3>2, <4>1, <4>2, AroundBehind
      <4>. QED BY <4>1, <4>3
    <3>6. Prefix(u, s)
      BY <1>2, <1>3, <3>2, <3>5, NestedTwice
    <3>7. X = ScopesUpTo(b, s, u) \ {u}
      BY <3>1, <3>4
    <3>8. Owner(u) = u
      BY <3>2, BodiedAre DEF Sound
    <3>. HIDE DEF u, X, s, o, also
    <3>9. ScopesUpTo(b, s, u) \in SUBSET Scopes(b) /\ \A r \in Bodied(b) : r \in ScopesUpTo(b, s, u) <=> Prefix(r, s) /\ Prefix(u, r)
      BY <1>3, <3>8, ScopesUpToAre DEF Sound
    <3>10. ASSUME NEW r \in Bodied(b) PROVE r \in X <=> Prefix(r, s) /\ Len(t) <= Len(r)
      <4>1. Prefix(r, s) /\ Prefix(u, r) <=> Prefix(r, s) /\ Len(u) <= Len(r)
        BY <1>3, <3>2, <3>6, InsideOf DEF Sound
      <4>2. r \in Seq(Places) /\ Len(r) \in Nat
        BY BodiedAre DEF Sound
      <4>3. Prefix(r, s) => (r = u <=> Len(r) = Len(u))
        BY <1>3, <3>2, <3>6, <4>2, Nested
      <4>4. Len(t) <= Len(r) <=> Len(u) <= Len(r) /\ Len(r) # Len(u)
        BY <1>3, <3>2, <3>3, <4>2
      <4>. QED BY <3>7, <3>9, <4>1, <4>3, <4>4
    <3>. QED BY <3>7, <3>9, <3>10
  <2>2. CASE StatementAt(b, t).kind # "switch"
    <3>1. StatementAt(b, t).kind \in Loops /\ o = LoopScope(b, t)
      BY <1>2, <2>2 DEF Breakable, BreakScope
    <3>2. Len(p) \in Nat
      BY PathsAre DEF Sound, IsPath
    <3>3. PICK n \in 1..(Len(p) - 1) : IsInnermost(b, p, Breakable, n) /\ t = Cut(p, n)
      BY <1>1, <3>2, AroundIs
    <3>4. IsInside(b, p, Loops)
      BY <3>1, <3>3 DEF IsInside, Cut
    <3>5. PICK l \in 1..(Len(p) - 1) : IsInnermost(b, p, Loops, l) /\ Around(b, p, Loops) = Cut(p, l)
      BY <3>2, <3>4, AroundIs
    <3>6. IsInnermost(b, p, Loops, n)
      BY <3>1, <3>3 DEF IsInnermost, Breakable
    <3>7. n = l
      BY <3>2, <3>5, <3>6, InnermostOnce
    <3>8. also
      BY <3>1, <3>3, <3>4, <3>5, <3>7
    <3>9. X = ScopesUpTo(b, s, LoopScope(b, t))
      BY <3>1, <3>8
    <3>. HIDE DEF s, t, X
    <3>10. X \in SUBSET Scopes(b) /\ \A r \in Bodied(b) : r \in X <=> Prefix(r, s) /\ Prefix(t, r)
      BY <1>2, <1>3, <3>9, ScopesUpToAre, LoopScopeIs DEF Sound
    <3>. QED BY <1>2, <1>3, <3>10, InsideOf DEF Sound
  <2>. QED BY <2>1, <2>2
<1>6. FreedByBreak(b, p) = FreedIn(b, s, X)
  BY DEF FreedByBreak
<1>. HIDE DEF s, t, X
<1>7. FreedIn(b, s, X) = LeftBehind(b, p, Len(t))
  BY <1>1, <1>3, <1>5, LeftScopesAreFreed DEF s
<1>. QED BY <1>6, <1>7 DEF t

----------------------------------------
(* What leaving a scope, or several, leaves alive. *)
LEMMA Leaves ==
  ASSUME NEW b, Sound(b), NEW p, IsPosition(b, p), NEW t \in Bodied(b), t # <<>>, Prefix(t, DropLast(p)),
         \A a \in Visible(b, p) : Len(t) <= Len(a.scope) => ~IsReturned(b, a.scope, a.name)
  PROVE  Visible(b, p) \ LeftBehind(b, p, Len(t)) = Visible(b, t)
<1>1. Visible(b, t) = {a \in Visible(b, p) : Len(a.scope) < Len(t)}
  BY VisibleAround
<1>2. Len(t) \in Nat /\ \A a \in Visible(b, p) : Len(a.scope) \in Nat
  <2>1. \A r \in Bodied(b) : Len(r) \in Nat
    <3>1. \A r \in Bodied(b) : r \in Seq(Places)
      BY BodiedAre DEF Sound
    <3>. QED BY <3>1
  <2>2. ASSUME NEW a \in Visible(b, p) PROVE Len(a.scope) \in Nat
    <3>1. PICK r, x : r \in Bodied(b) /\ a = [scope |-> r, name |-> x]
      BY InVisible
    <3>. r \in Bodied(b)
      BY <3>1
    <3>. QED BY <2>1, <3>1
  <2>. QED BY <2>1, <2>2
<1>3. ASSUME NEW a \in Visible(b, p) PROVE a \notin LeftBehind(b, p, Len(t)) <=> Len(a.scope) < Len(t)
  BY <1>2 DEF LeftBehind
<1>. QED BY <1>1, <1>3

(* What a break or continue leaves is not returned. *)
LEMMA NothingReturnedInside ==
  ASSUME NEW b, Sound(b), NEW p \in Paths(b), NEW m \in Nat,
         \/ StatementAt(b, p).kind = "break" /\ m = Len(Around(b, p, Breakable))
         \/ StatementAt(b, p).kind = "continue" /\ m = Len(Around(b, p, Loops)),
         NEW a \in Visible(b, p), m <= Len(a.scope)
  PROVE  ~IsReturned(b, a.scope, a.name)
<1>1. IsPosition(b, p)
  BY EveryStatementIsAPosition DEF Sound
<1>2. PICK r, x : r \in Bodied(b) /\ a = [scope |-> r, name |-> x]
  BY <1>1, InVisible
<1>. r \in Bodied(b)
  BY <1>2
<1>3. a.scope = r /\ a.name = x
  BY <1>2
<1>. SUFFICES ASSUME IsReturned(b, r, x) PROVE FALSE
  BY <1>3
<1>4. Prefix(r, DropLast(p)) /\ x \in Names(b, r)
  BY <1>1, <1>2, InVisible, VisibleAreAllocas
<1>5. PICK q \in Paths(b) :
        /\ DropLast(q) = r /\ StatementAt(b, q).kind = "return" /\ StatementAt(b, q).var = x
        /\ Len(q) = Len(r) + 1
        /\ \A u \in Paths(b) :
             Prefix(r, u) /\ u # q /\ StatementAt(b, u).kind \in Terminators
               => \/ StatementAt(b, u).kind = "break" /\ ~(Len(Around(b, u, Breakable)) < Len(q))
                  \/ StatementAt(b, u).kind = "continue" /\ ~(Len(Around(b, u, Loops)) < Len(q))
  BY <1>4, ReturnedIs
<1>6. Prefix(r, p)
  <2>. DEFINE s == DropLast(p)
              i == LastOf(p)
  <2>1. s \in Seq(Places) /\ i \in Places /\ p = Append(s, i) /\ r \in Seq(Places)
    BY <1>1, PositionIs, BodiedAre DEF Sound
  <2>. HIDE DEF i
  <2>2. Prefix(r, Append(s, i))
    BY <1>4, <2>1, AroundBehind
  <2>. QED BY <2>1, <2>2
<1>7. p # q /\ StatementAt(b, p).kind \in Terminators
  BY <1>5 DEF Terminators
<1>8. \/ StatementAt(b, p).kind = "break" /\ ~(Len(Around(b, p, Breakable)) < Len(q))
      \/ StatementAt(b, p).kind = "continue" /\ ~(Len(Around(b, p, Loops)) < Len(q))
  BY <1>5, <1>6, <1>7
<1>9. ~(m < Len(q))
  BY <1>8
<1>10. Len(r) \in Nat
  <2>1. r \in Seq(Places)
    BY BodiedAre DEF Sound
  <2>. QED BY <2>1
<1>. QED BY <1>3, <1>5, <1>9, <1>10

(* The end of a body frees what the body declares, and what is visible
   behind is what was visible in front. *)
LEMMA EndsOfBodiesFree ==
  ASSUME NEW b, Sound(b), NEW p, IsPosition(b, p), LastOf(p) = Len(BodyAt(b, DropLast(p))) + 1
  PROVE  /\ Freed(b, DropLast(p), Whole) = Own(DropLast(p), Names(b, DropLast(p)))
         /\ Freed(b, DropLast(p), Whole) \subseteq Visible(b, p)
         /\ DropLast(p) # <<>> => Visible(b, p) \ Freed(b, DropLast(p), Whole) = Visible(b, DropLast(p))
         /\ DropLast(p) = <<>> => Visible(b, p) \ Freed(b, DropLast(p), Whole) = {}
<1>. DEFINE t == DropLast(p)
            F == Freed(b, t, Whole)
<1>1. t \in Bodied(b) /\ t \in Seq(Places) /\ Len(t) \in Nat /\ Len(p) = Len(t) + 1
  BY PositionIs DEF Sound
<1>2. Prefix(t, t)
  BY <1>1, CutAll, PrefixesAreCuts
<1>3. Unreturned(b, t, Names(b, t)) = Names(b, t)
  BY NothingReturnedBehind DEF Unreturned
<1>4. F = Own(t, Names(b, t))
  BY <1>1, <1>3, FreedAre, UniqueWhole
<1>5. DeclaredBefore(b, t, p[Len(t) + 1]) = Names(b, t)
  <2>1. p[Len(t) + 1] = Len(BodyAt(b, t)) + 1
    BY <1>1 DEF LastOf
  <2>. QED BY <1>1, <2>1, NamesAre DEF Sound
<1>6. \A r \in Bodied(b) : \A x :
        [scope |-> r, name |-> x] \in Visible(b, p) <=> Prefix(r, t) /\ x \in DeclaredBefore(b, r, p[Len(r) + 1])
  BY InVisible
<1>. HIDE DEF t, F
<1>7. ASSUME NEW a \in F PROVE a \in Visible(b, p)
  <2>1. PICK x \in Names(b, t) : a = [scope |-> t, name |-> x]
    BY <1>4 DEF Own
  <2>. QED BY <1>1, <1>2, <1>5, <1>6, <2>1
<1>8. ASSUME NEW a \in Visible(b, p) PROVE a \in F <=> ~(Len(a.scope) < Len(t))
  <2>1. PICK r, x : r \in Bodied(b) /\ a = [scope |-> r, name |-> x]
    BY InVisible
  <2>. r \in Bodied(b)
    BY <2>1
  <2>2. Prefix(r, t) /\ x \in DeclaredBefore(b, r, p[Len(r) + 1])
    BY <1>6, <2>1
  <2>3. r \in Seq(Places) /\ Len(r) \in Nat
    BY BodiedAre DEF Sound
  <2>4. Len(r) <= Len(t)
    BY <2>2 DEF Prefix
  <2>5. Len(r) = Len(t) <=> r = t
    BY <1>1, <1>2, <2>2, <2>3, Nested
  <2>6. a \in F <=> r = t
    <3>1. a \in F => r = t
      BY <1>4, <2>1 DEF Own
    <3>2. r = t => a \in F
      BY <1>4, <1>5, <2>1, <2>2 DEF Own
    <3>. QED BY <3>1, <3>2
  <2>7. a.scope = r
    BY <2>1
  <2>. QED BY <1>1, <2>3, <2>4, <2>5, <2>6, <2>7
<1>9. ASSUME t # <<>> PROVE Visible(b, p) \ F = Visible(b, t)
  <2>1. Visible(b, t) = {a \in Visible(b, p) : Len(a.scope) < Len(t)}
    BY <1>1, <1>2, <1>9, VisibleAround DEF t
  <2>. QED BY <1>8, <2>1
<1>10. ASSUME t = <<>> PROVE Visible(b, p) \ F = {}
  <2>1. ASSUME NEW a \in Visible(b, p) PROVE a \in F
    <3>1. PICK r, x : r \in Bodied(b) /\ a = [scope |-> r, name |-> x]
      BY InVisible
    <3>. r \in Bodied(b)
      BY <3>1
    <3>2. a.scope = r /\ Len(r) \in Nat
      <4>1. r \in Seq(Places)
        BY BodiedAre DEF Sound
      <4>. QED BY <3>1, <4>1
    <3>3. ~(Len(r) < Len(t))
      <4>1. Len(t) = 0
        BY <1>10
      <4>. QED BY <3>2, <4>1
    <3>. QED BY <1>8, <3>2, <3>3
  <2>. QED BY <2>1
<1>. QED BY <1>4, <1>7, <1>9, <1>10 DEF t, F

----------------------------------------
(* The invariant: while the function runs, the values that are visible are
   alive, and the enhanced for loops that go on borrow what they iterate. *)
States == {"unset", "alive", "stale"}
Alive(sl) == {a \in DOMAIN sl : sl[a] = "alive"}
GoingOn(b, p, when) ==
  {l \in Paths(b) : StatementAt(b, l).kind = "enh_for" /\ (Prefix(l, DropLast(p)) \/ (l = p /\ when = "test"))}

(* The function runs well: control is at a place, the values of what is
   visible there are alive and no others, and the loops around the place
   have what they borrowed. *)
RunsWell(b, p, when, sl, bo) ==
  /\ IsPosition(b, p)
  /\ when \in {"start", "test"}
  /\ when = "test" => p \in Paths(b) /\ StatementAt(b, p).kind \in Loops
  /\ sl \in [Allocas(b) -> States] /\ Alive(sl) = Visible(b, p)
  /\ bo \subseteq Paths(b) /\ GoingOn(b, p, when) \subseteq bo

(* The function has ended well: no value is alive but the returned one. *)
EndedWell(b, when, sl, bo, re) ==
  /\ when \in {"start", "test"}
  /\ sl \in [Allocas(b) -> States] /\ Alive(sl) \subseteq {re} /\ re \in Alive(sl) \union {NoAlloca}
  /\ bo \subseteq Paths(b)

(* The invariant. *)
ControlInvariant ==
  /\ Sound(program) /\ misused = FALSE /\ lost = FALSE
  /\ Running => RunsWell(program, place, phase, slots, borrows) /\ returned = NoAlloca
  /\ ~Running => EndedWell(program, phase, slots, borrows, returned)

(* Positions are not outside. *)
LEMMA PositionsAreInside ==
  ASSUME NEW b, NEW p, IsPosition(b, p)
  PROVE  p # Outside
<1>1. p \in Seq(Places) /\ Len(p) \in Nat \ {0}
  BY DEF IsPosition
<1>2. ASSUME p = << 0 >> PROVE FALSE
  <2>1. p[1] \in Places
    BY <1>1
  <2>2. p[1] = 0
    BY <1>2
  <2>. QED BY <2>1, <2>2 DEF Places
<1>. QED BY <1>2 DEF Outside

(* A place that is not behind the statements of its body is before one. *)
LEMMA HereIs ==
  ASSUME NEW b, IsProgram(b), NEW p, IsPosition(b, p), ~(LastOf(p) > Len(BodyAt(b, DropLast(p))))
  PROVE  p \in Paths(b)
<1>. DEFINE s == DropLast(p)
            i == LastOf(p)
<1>1. s \in Bodied(b) /\ p = Append(s, i)
  BY PositionIs
<1>2. Len(BodyAt(b, s)) \in Nat /\ DOMAIN BodyAt(b, s) = 1..Len(BodyAt(b, s))
  BY <1>1, BodiesAre
<1>3. i \in 1..(Len(BodyAt(b, s)) + 1)
  BY DEF IsPosition
<1>4. i \in DOMAIN BodyAt(b, s)
  BY <1>2, <1>3
<1>. HIDE DEF s, i
<1>5. Append(s, i) \in Paths(b)
  BY <1>1, <1>4, StatementsHavePaths
<1>. QED BY <1>1, <1>5

(* The alloca of a name that is declared in a scope around. *)
LEMMA AllocaIs ==
  ASSUME Sound(program), NEW path, DropLast(path) \in Bodied(program), NEW r \in Bodied(program),
         Prefix(r, DropLast(path)), NEW n \in Names(program, r)
  PROVE  Alloca(path, n) = [scope |-> r, name |-> n]
<1>. DEFINE s == DropLast(path)
            declaring == {u \in ScopesUpTo(program, s, <<>>) : n \in Names(program, u)}
<1>1. s \in Seq(Places) /\ r \in Seq(Places) /\ Owner(r) = r /\ ~IsDefinition(r) /\ <<>> \in Seq(Places) /\ Owner(<<>>) = <<>>
  BY BodiedAre DEF Sound, Owner, IsDefinition
<1>2. /\ ScopesUpTo(program, s, <<>>) \in SUBSET Scopes(program)
      /\ \A u \in Bodied(program) : u \in ScopesUpTo(program, s, <<>>) <=> Prefix(u, s) /\ Prefix(<<>>, u)
  BY <1>1, ScopesUpToAre DEF Sound
<1>3. Prefix(<<>>, r)
  BY <1>1, CutAll DEF Prefix, Cut
<1>4. r \in declaring
  BY <1>2, <1>3
<1>5. ASSUME NEW u \in declaring PROVE u = r
  <2>1. u \in Scopes(program) /\ n \in Names(program, u)
    BY <1>2
  <2>2. u \in Bodied(program)
    BY <2>1, ScopesAre
  <2>3. Prefix(u, s) /\ u \in Seq(Places)
    BY <1>2, <2>2, BodiedAre DEF Sound
  <2>4. Len(u) \in Nat /\ Len(r) \in Nat
    BY <1>1, <2>3
  <2>5. Prefix(u, r) \/ Prefix(r, u)
    <3>1. Len(u) <= Len(r) \/ Len(r) <= Len(u)
      BY <2>4
    <3>2. (Len(u) <= Len(r) <=> Prefix(u, r)) /\ (Len(r) <= Len(u) <=> Prefix(r, u))
      BY <1>1, <2>3, Nested
    <3>. QED BY <3>1, <3>2
  <2>. QED BY <2>1, <2>2, <2>5, DeclaredOnce
<1>6. IsAround(r, r)
  <2>1. Prefix(r, r)
    BY <1>1, CutAll, PrefixesAreCuts
  <2>. QED BY <1>1, <2>1 DEF IsAround
<1>. HIDE DEF declaring
<1>7. declaring = {r}
  BY <1>4, <1>5
<1>8. (CHOOSE u \in declaring : \A t \in declaring : IsAround(t, u)) = r
  BY <1>6, <1>7
<1>. QED BY <1>8 DEF Alloca, declaring

(* The alloca of what is visible is found by its name. *)
LEMMA SeenAlloca ==
  ASSUME Sound(program), NEW p, IsPosition(program, p), NEW a \in Visible(program, p)
  PROVE  Alloca(p, a.name) = a
<1>1. PICK r, x : r \in Bodied(program) /\ a = [scope |-> r, name |-> x]
  BY InVisible
<1>. r \in Bodied(program)
  BY <1>1
<1>2. Prefix(r, DropLast(p)) /\ x \in Names(program, r) /\ DropLast(p) \in Bodied(program)
  BY <1>1, InVisible, VisibleAreAllocas DEF IsPosition
<1>3. Alloca(p, x) = [scope |-> r, name |-> x]
  BY <1>2, AllocaIs
<1>. QED BY <1>1, <1>3

(* What is visible has a slot. *)
LEMMA VisibleInAllocas ==
  ASSUME NEW b, Sound(b), NEW p, IsPosition(b, p)
  PROVE  Visible(b, p) \subseteq Allocas(b)
<1>1. ASSUME NEW a \in Visible(b, p) PROVE a \in Allocas(b)
  <2>1. PICK r, x : r \in Bodied(b) /\ a = [scope |-> r, name |-> x]
    BY InVisible
  <2>. r \in Bodied(b)
    BY <2>1
  <2>. QED BY <2>1, VisibleAreAllocas
<1>. QED BY <1>1

(* Freeing and writing. *)
Freeing(sl, F) == [a \in DOMAIN sl |-> IF a \in F /\ sl[a] = "alive" THEN "stale" ELSE sl[a]]

(* What freeing does to the slots. *)
LEMMA FreeingIs ==
  ASSUME NEW A, NEW sl \in [A -> States], NEW F
  PROVE  /\ Freeing(sl, F) \in [A -> States] /\ Alive(Freeing(sl, F)) = Alive(sl) \ F
         /\ F \subseteq Alive(sl) => \A a \in F : sl[a] # "stale"
<1>1. Freeing(sl, F) \in [A -> States]
  BY DEF Freeing, States
<1>. QED BY <1>1 DEF Freeing, Alive

(* What writing does to a slot. *)
LEMMA WritingIs ==
  ASSUME NEW A, NEW sl \in [A -> States], NEW a \in A
  PROVE  /\ [sl EXCEPT ![a] = "alive"] \in [A -> States]
         /\ Alive([sl EXCEPT ![a] = "alive"]) = Alive(sl) \union {a}
         /\ sl[a] = "alive" <=> a \in Alive(sl)
BY DEF States, Alive

(* Where a step leads. *)
LEMMA GoesPast ==
  ASSUME NEW b, Sound(b), NEW p \in Paths(b), StatementAt(b, p).kind \notin Terminators,
         NEW sl \in [Allocas(b) -> States],
         Alive(sl) = Visible(b, p) \union Own(DropLast(p), New(b, DropLast(p), LastOf(p))),
         NEW bo, bo \subseteq Paths(b), GoingOn(b, p, "start") \subseteq bo
  PROVE  RunsWell(b, Past(p), "start", sl, bo)
<1>1. IsPosition(b, Past(p)) /\ DropLast(Past(p)) = DropLast(p)
  BY NextPlaces DEF Sound
<1>2. Visible(b, Past(p)) = Alive(sl)
  BY VisibleBehind
<1>3. GoingOn(b, Past(p), "start") \subseteq bo
  BY <1>1 DEF GoingOn
<1>. QED BY <1>1, <1>2, <1>3 DEF RunsWell

(* A statement that is no declaration declares nothing. *)
LEMMA NothingNew ==
  ASSUME NEW b, IsProgram(b), NEW p \in Paths(b), StatementAt(b, p).kind # "declare"
  PROVE  Own(DropLast(p), New(b, DropLast(p), LastOf(p))) = {}
BY DEF New, Own, StatementAt

(* A loop or branch begins with what is visible in front of it. *)
LEMMA GoesInside ==
  ASSUME NEW b, Sound(b), NEW p \in Paths(b), StatementAt(b, p).kind \in Scoped,
         NEW sl \in [Allocas(b) -> States], Alive(sl) = Visible(b, p) \union Own(p, Caught(b, p)),
         NEW bo, bo \subseteq Paths(b), GoingOn(b, p, "test") \subseteq bo
  PROVE  RunsWell(b, FirstOf(p), "start", sl, bo)
<1>1. p \in Bodied(b) /\ IsPosition(b, p)
  BY EveryStatementIsAPosition DEF Bodied, Sound
<1>2. p = Append(DropLast(p), LastOf(p)) /\ DropLast(p) \in Seq(Places) /\ LastOf(p) \in Places /\ p \in Seq(Places) /\ p # <<>>
  BY <1>1, PositionIs DEF Sound
<1>3. IsPosition(b, FirstOf(p)) /\ DropLast(FirstOf(p)) = p
  BY <1>1, FirstPlaces DEF Sound
<1>4. Visible(b, FirstOf(p)) = Alive(sl)
  BY <1>1, <1>2, VisibleInside
<1>5. ASSUME NEW l \in GoingOn(b, FirstOf(p), "start") PROVE l \in bo
  <2>1. l \in Paths(b) /\ StatementAt(b, l).kind = "enh_for" /\ Prefix(l, p)
    BY <1>3 DEF GoingOn
  <2>2. l \in Seq(Places)
    BY <2>1, PathsAre DEF IsPath, Sound
  <2>3. Prefix(l, DropLast(p)) \/ l = p
    <3>. DEFINE s == DropLast(p)
                i == LastOf(p)
    <3>1. s \in Seq(Places) /\ i \in Places /\ p = Append(s, i)
      BY <1>2
    <3>. HIDE DEF s, i
    <3>2. Prefix(l, Append(s, i)) <=> Prefix(l, s) \/ l = Append(s, i)
      BY <2>2, <3>1, AroundBehind
    <3>. QED BY <2>1, <3>1, <3>2 DEF s
  <2>. QED BY <2>1, <2>3 DEF GoingOn
<1>. QED BY <1>3, <1>4, <1>5 DEF RunsWell

----------------------------------------
(* The steps. *)
LEMMA Arrives ==
  ASSUME Sound(program), program' = program, misused' = FALSE, lost' = FALSE, returned' = NoAlloca,
         RunsWell(program, place', phase', slots', borrows')
  PROVE  ControlInvariant'
<1>1. place' # Outside
  BY PositionsAreInside DEF RunsWell
<1>2. Running'
  BY <1>1 DEF Running
<1>. QED BY <1>2 DEF ControlInvariant

(* The end of a function, with what it has returned. *)
LEMMA Ends ==
  ASSUME Sound(program), program' = program, misused' = FALSE, lost' = FALSE, place' = Outside,
         EndedWell(program, phase', slots', borrows', returned')
  PROVE  ControlInvariant'
<1>1. ~Running'
  BY DEF Running
<1>. QED BY <1>1 DEF ControlInvariant

(* While the function runs, it does so well. *)
LEMMA RunningIs ==
  ASSUME ControlInvariant, Running
  PROVE  /\ Sound(program) /\ misused = FALSE /\ lost = FALSE /\ returned = NoAlloca
         /\ IsPosition(program, place) /\ RunsWell(program, place, phase, slots, borrows)
         /\ slots \in [Allocas(program) -> States] /\ Alive(slots) = Visible(program, place)
         /\ borrows \subseteq Paths(program) /\ GoingOn(program, place, phase) \subseteq borrows
BY DEF ControlInvariant, RunsWell

(* What a step at a statement knows of it. *)
LEMMA AtIs ==
  ASSUME ControlInvariant, NEW kinds, At(kinds)
  PROVE  Running /\ place \in Paths(program) /\ StatementAt(program, place).kind \in kinds
<1>1. Running /\ ~(LastOf(place) > Len(BodyAt(program, DropLast(place)))) /\ StatementAt(program, place).kind \in kinds
  BY DEF At, AtEnd, Here
<1>2. IsPosition(program, place) /\ IsProgram(program)
  BY <1>1, RunningIs DEF Sound
<1>. QED BY <1>1, <1>2, HereIs

(* Freeing what is alive, and reading what is, misuses and loses nothing. *)
LEMMA FreesAndReads ==
  ASSUME slots \in [Allocas(program) -> States], misused = FALSE,
         NEW F, NEW R, F \subseteq Alive(slots), R \subseteq Alive(slots) \ F,
         slots' = Freeing(slots, F),
         misused' = \/ misused
                    \/ \E a \in F : slots[a] = "stale"
                    \/ \E a \in R : a \in F \/ slots[a] = "stale"
  PROVE  slots' \in [Allocas(program) -> States] /\ Alive(slots') = Alive(slots) \ F /\ misused' = FALSE
<1>1. Freeing(slots, F) \in [Allocas(program) -> States] /\ Alive(Freeing(slots, F)) = Alive(slots) \ F
  BY FreeingIs
<1>2. \A a \in Alive(slots) : slots[a] # "stale"
  BY DEF Alive
<1>3. misused' = FALSE
  BY <1>2
<1>. QED BY <1>1, <1>3

(* What a statement names is declared around it, and alive. *)
LEMMA NamedIsAlive ==
  ASSUME ControlInvariant, Running, \E a \in Visible(program, place) : a.name = Here.var
  PROVE  Alloca(place, Here.var) \in Alive(slots) /\ Alloca(place, Here.var) \in Allocas(program)
<1>1. Sound(program) /\ IsPosition(program, place) /\ Alive(slots) = Visible(program, place)
  BY RunningIs
<1>2. PICK a \in Visible(program, place) : a.name = Here.var
  OBVIOUS
<1>3. Alloca(place, Here.var) = a
  BY <1>1, <1>2, SeenAlloca
<1>4. a \in Allocas(program)
  BY <1>1, VisibleInAllocas
<1>. QED BY <1>1, <1>3, <1>4

(* A declaration runs well. *)
LEMMA Declares ==
  ASSUME ControlInvariant, generate_declaration
  PROVE  ControlInvariant'
<1>1. At({"declare"}) /\ Write(Alloca(place, Here.var)) /\ Goto(Past(place), "start")
      /\ program' = program /\ borrows' = borrows /\ misused' = misused /\ returned' = returned
  BY DEF generate_declaration
<1>2. Running /\ place \in Paths(program) /\ StatementAt(program, place).kind = "declare"
  BY <1>1, AtIs
<1>3. /\ Sound(program) /\ misused = FALSE /\ lost = FALSE /\ returned = NoAlloca /\ IsPosition(program, place)
      /\ slots \in [Allocas(program) -> States] /\ Alive(slots) = Visible(program, place)
      /\ borrows \subseteq Paths(program) /\ GoingOn(program, place, phase) \subseteq borrows
  BY <1>2, RunningIs
<1>. DEFINE s == DropLast(place)
            i == LastOf(place)
            x == StatementAt(program, place).var
            a == [scope |-> s, name |-> x]
<1>4. s \in Bodied(program) /\ i \in DOMAIN BodyAt(program, s)
  BY <1>2, <1>3, PathsAre DEF IsPath, Sound
<1>5. New(program, s, i) = {x}
  BY <1>2 DEF New, StatementAt
<1>6. x \in Names(program, s)
  <2>1. i \in Places /\ i + 1 \in 1..(Len(BodyAt(program, s)) + 1)
    BY <1>3, <1>4, BodiesAre DEF Sound, Places
  <2>2. DeclaredBefore(program, s, i + 1) = DeclaredBefore(program, s, i) \union New(program, s, i)
    BY <2>1, BeforeNext
  <2>3. DeclaredBefore(program, s, i + 1) \subseteq Names(program, s)
    BY <1>3, <1>4, <2>1, BeforeIn DEF Sound
  <2>. QED BY <1>5, <2>2, <2>3
<1>7. Alloca(place, x) = a
  <2>1. s \in Seq(Places)
    BY <1>3, <1>4, BodiedAre DEF Sound
  <2>2. Prefix(s, s)
    BY <2>1, CutAll, PrefixesAreCuts
  <2>. QED BY <1>3, <1>4, <1>6, <2>2, AllocaIs
<1>8. a \in Allocas(program)
  BY <1>4, <1>6 DEF Allocas, Scopes
<1>9. a \notin Visible(program, place)
  <2>1. ~\E c \in Visible(program, place) : c.name = x
    BY <1>2, <1>3 DEF Sound, IsProgram
  <2>2. a.name = x
    OBVIOUS
  <2>. QED BY <2>1, <2>2
<1>10. Own(s, New(program, s, i)) = {a}
  BY <1>5 DEF Own
<1>. HIDE DEF a, s, i, x
<1>11. slots' = [slots EXCEPT ![a] = "alive"] /\ lost' = (lost \/ slots[a] = "alive")
  BY <1>1, <1>7 DEF Write, Here, x
<1>12. slots' \in [Allocas(program) -> States] /\ Alive(slots') = Alive(slots) \union {a} /\ lost' = FALSE
  <2>1. PICK A : A = Allocas(program)
    OBVIOUS
  <2>2. slots \in [A -> States] /\ a \in A
    BY <1>3, <1>8, <2>1
  <2>3. /\ [slots EXCEPT ![a] = "alive"] \in [A -> States]
        /\ Alive([slots EXCEPT ![a] = "alive"]) = Alive(slots) \union {a}
        /\ slots[a] = "alive" <=> a \in Alive(slots)
    BY <2>2, WritingIs
  <2>4. ~(slots[a] = "alive")
    BY <1>3, <1>9, <2>3
  <2>. QED BY <1>3, <1>11, <2>1, <2>3, <2>4
<1>13. Alive(slots') = Visible(program, place) \union Own(s, New(program, s, i))
  BY <1>3, <1>10, <1>12
<1>14. GoingOn(program, place, "start") \subseteq borrows'
  BY <1>1, <1>3 DEF GoingOn
<1>15. StatementAt(program, place).kind \notin Terminators
  BY <1>2 DEF Terminators
<1>16. RunsWell(program, Past(place), "start", slots', borrows')
  BY <1>1, <1>2, <1>3, <1>12, <1>13, <1>14, <1>15, GoesPast DEF s, i
<1>17. RunsWell(program, place', phase', slots', borrows')
  BY <1>1, <1>16 DEF Goto
<1>. QED BY <1>1, <1>3, <1>12, <1>17, Arrives

(* A use runs well. *)
LEMMA Uses ==
  ASSUME ControlInvariant, Use
  PROVE  ControlInvariant'
<1>1. At({"use"}) /\ FreeAndRead({}, {Alloca(place, Here.var)}) /\ Goto(Past(place), "start")
      /\ program' = program /\ borrows' = borrows /\ lost' = lost /\ returned' = returned
  BY DEF Use
<1>2. Running /\ place \in Paths(program) /\ StatementAt(program, place).kind = "use"
  BY <1>1, AtIs
<1>3. /\ Sound(program) /\ misused = FALSE /\ lost = FALSE /\ returned = NoAlloca /\ IsPosition(program, place)
      /\ slots \in [Allocas(program) -> States] /\ Alive(slots) = Visible(program, place)
      /\ borrows \subseteq Paths(program) /\ GoingOn(program, place, phase) \subseteq borrows
  BY <1>2, RunningIs
<1>4. \E a \in Visible(program, place) : a.name = Here.var
  BY <1>2, <1>3 DEF Sound, IsProgram, Here
<1>5. PICK a : a = Alloca(place, Here.var)
  OBVIOUS
<1>6. a \in Alive(slots)
  BY <1>2, <1>4, <1>5, NamedIsAlive
<1>7. /\ slots' = Freeing(slots, {})
      /\ misused' = (misused \/ (\E c \in {} : slots[c] = "stale") \/ \E c \in {a} : c \in {} \/ slots[c] = "stale")
  BY <1>1, <1>5 DEF FreeAndRead, Freeing
<1>8. slots' \in [Allocas(program) -> States] /\ Alive(slots') = Alive(slots) \ {} /\ misused' = FALSE
  BY <1>3, <1>6, <1>7, FreesAndReads
<1>9. GoingOn(program, place, "start") \subseteq borrows'
  BY <1>1, <1>3 DEF GoingOn
<1>10. Own(DropLast(place), New(program, DropLast(place), LastOf(place))) = {}
  BY <1>2, <1>3, NothingNew DEF Sound
<1>11. StatementAt(program, place).kind \notin Terminators
  BY <1>2 DEF Terminators
<1>12. Alive(slots') = Visible(program, place) \union Own(DropLast(place), New(program, DropLast(place), LastOf(place)))
  BY <1>3, <1>8, <1>10
<1>13. RunsWell(program, Past(place), "start", slots', borrows')
  BY <1>1, <1>2, <1>3, <1>8, <1>9, <1>11, <1>12, GoesPast
<1>14. RunsWell(program, place', phase', slots', borrows')
  BY <1>1, <1>13 DEF Goto
<1>. QED BY <1>1, <1>3, <1>8, <1>14, Arrives

(* An assignment runs well. *)
LEMMA Assigns ==
  ASSUME ControlInvariant, Assign
  PROVE  ControlInvariant'
<1>1. /\ At({"assign"}) /\ Goto(Past(place), "start")
      /\ program' = program /\ lost' = lost /\ returned' = returned
      /\ misused' = (misused \/ slots[Alloca(place, Here.var)] = "stale")
      /\ slots' = [slots EXCEPT ![Alloca(place, Here.var)] = "alive"]
      /\ borrows' = {loop \in borrows : Alloca(loop, StatementAt(program, loop).var) # Alloca(place, Here.var)}
  BY DEF Assign
<1>2. Running /\ place \in Paths(program) /\ StatementAt(program, place).kind = "assign"
  BY <1>1, AtIs
<1>3. /\ Sound(program) /\ misused = FALSE /\ lost = FALSE /\ returned = NoAlloca /\ IsPosition(program, place)
      /\ slots \in [Allocas(program) -> States] /\ Alive(slots) = Visible(program, place)
      /\ borrows \subseteq Paths(program) /\ GoingOn(program, place, phase) \subseteq borrows
  BY <1>2, RunningIs
<1>4. \E c \in Visible(program, place) : c.name = Here.var
  BY <1>2, <1>3 DEF Sound, IsProgram, Here
<1>5. PICK a : a = Alloca(place, Here.var)
  OBVIOUS
<1>6. a \in Alive(slots) /\ a \in Allocas(program)
  BY <1>2, <1>4, <1>5, NamedIsAlive
<1>7. slots' = [slots EXCEPT ![a] = "alive"] /\ misused' = FALSE
  <2>1. slots[a] # "stale"
    BY <1>6 DEF Alive
  <2>. QED BY <1>1, <1>3, <1>5, <2>1
<1>8. slots' \in [Allocas(program) -> States] /\ Alive(slots') = Alive(slots)
  <2>1. PICK A : A = Allocas(program)
    OBVIOUS
  <2>2. slots \in [A -> States] /\ a \in A
    BY <1>3, <1>6, <2>1
  <2>3. /\ [slots EXCEPT ![a] = "alive"] \in [A -> States]
        /\ Alive([slots EXCEPT ![a] = "alive"]) = Alive(slots) \union {a}
    BY <2>2, WritingIs, ZenonT(60)
  <2>. QED BY <1>6, <1>7, <2>1, <2>3
<1>9. ASSUME NEW l \in GoingOn(program, place, "start") PROVE l \in borrows'
  <2>1. l \in Paths(program) /\ StatementAt(program, l).kind = "enh_for" /\ Prefix(l, DropLast(place)) /\ l \in borrows
    BY <1>3 DEF GoingOn
  <2>2. Prefix(l, place)
    <3>. DEFINE s == DropLast(place)
                i == LastOf(place)
    <3>1. s \in Seq(Places) /\ i \in Places /\ place = Append(s, i) /\ l \in Seq(Places)
      BY <1>3, <2>1, PositionIs, PathsAre DEF Sound, IsPath
    <3>2. Prefix(l, s)
      BY <2>1
    <3>. HIDE DEF s, i
    <3>3. Prefix(l, Append(s, i))
      BY <3>1, <3>2, AroundBehind
    <3>. QED BY <3>1, <3>3
  <2>3. StatementAt(program, l).var # StatementAt(program, place).var
    BY <1>2, <1>3, <2>1, <2>2, IterablesStay
  <2>4. Alloca(l, StatementAt(program, l).var).name = StatementAt(program, l).var
    BY DEF Alloca
  <2>5. Alloca(place, Here.var).name = StatementAt(program, place).var
    BY DEF Alloca, Here
  <2>. QED BY <1>1, <2>1, <2>3, <2>4, <2>5
<1>10. Own(DropLast(place), New(program, DropLast(place), LastOf(place))) = {}
  BY <1>2, <1>3, NothingNew DEF Sound
<1>11. StatementAt(program, place).kind \notin Terminators
  BY <1>2 DEF Terminators
<1>12. Alive(slots') = Visible(program, place) \union Own(DropLast(place), New(program, DropLast(place), LastOf(place)))
  BY <1>3, <1>8, <1>10
<1>13. borrows' \subseteq Paths(program) /\ GoingOn(program, place, "start") \subseteq borrows'
  BY <1>1, <1>3, <1>9
<1>14. RunsWell(program, Past(place), "start", slots', borrows')
  BY <1>2, <1>3, <1>8, <1>11, <1>12, <1>13, GoesPast
<1>15. RunsWell(program, place', phase', slots', borrows')
  BY <1>1, <1>14 DEF Goto
<1>. QED BY <1>1, <1>3, <1>7, <1>15, Arrives

(* Going into a branch or a catch runs well. *)
LEMMA EntersBranches ==
  ASSUME ControlInvariant, EnterBranch
  PROVE  ControlInvariant'
<1>1. /\ At(Branches) /\ Goto(FirstOf(place), "start")
      /\ program' = program /\ borrows' = borrows /\ misused' = misused /\ returned' = returned
      /\ IF Here.kind = "catch"
           THEN Write([scope |-> place, name |-> Here.var])
           ELSE slots' = slots /\ lost' = lost
  BY DEF EnterBranch
<1>2. Running /\ place \in Paths(program) /\ StatementAt(program, place).kind \in Branches
  BY <1>1, AtIs
<1>3. /\ Sound(program) /\ misused = FALSE /\ lost = FALSE /\ returned = NoAlloca /\ IsPosition(program, place)
      /\ slots \in [Allocas(program) -> States] /\ Alive(slots) = Visible(program, place)
      /\ borrows \subseteq Paths(program) /\ GoingOn(program, place, phase) \subseteq borrows
  BY <1>2, RunningIs
<1>4. place \in Bodied(program) /\ place # <<>> /\ StatementAt(program, place).kind \in Scoped
  <2>1. StatementAt(program, place).kind \in Scoped
    BY <1>2 DEF Scoped
  <2>2. place # <<>>
    BY <1>3, PositionIs DEF Sound
  <2>. QED BY <1>2, <2>1, <2>2 DEF Bodied
<1>5. GoingOn(program, place, "test") \subseteq borrows
  <2>1. StatementAt(program, place).kind # "enh_for"
    BY <1>2 DEF Branches
  <2>. QED BY <1>3, <2>1 DEF GoingOn
<1>6. /\ slots' \in [Allocas(program) -> States] /\ lost' = FALSE
      /\ Alive(slots') = Visible(program, place) \union Own(place, Caught(program, place))
  <2>1. CASE Here.kind = "catch"
    <3>. DEFINE x == StatementAt(program, place).var
    <3>1. PICK a : a = [scope |-> place, name |-> x]
      OBVIOUS
    <3>2. Caught(program, place) = {x}
      BY <1>4, <2>1 DEF Caught, Here
    <3>3. x \in Names(program, place)
      <4>1. Names(program, place) = DeclaredBefore(program, place, Len(BodyAt(program, place)) + 1)
        BY <1>3, <1>4, NamesAre DEF Sound
      <4>. QED BY <3>2, <4>1 DEF DeclaredBefore, Caught
    <3>4. a \in Allocas(program)
      BY <1>4, <3>1, <3>3 DEF Allocas, Scopes
    <3>5. a \notin Visible(program, place)
      <4>1. ~\E c \in Visible(program, place) : c.name = x
        BY <1>2, <1>3, <2>1 DEF Sound, IsProgram, Here
      <4>. QED BY <3>1, <4>1
    <3>6. slots' = [slots EXCEPT ![a] = "alive"] /\ lost' = (lost \/ slots[a] = "alive")
      BY <1>1, <2>1, <3>1 DEF Write, Here
    <3>7. PICK A : A = Allocas(program)
      OBVIOUS
    <3>8. slots \in [A -> States] /\ a \in A
      BY <1>3, <3>4, <3>7
    <3>9. /\ [slots EXCEPT ![a] = "alive"] \in [A -> States]
          /\ Alive([slots EXCEPT ![a] = "alive"]) = Alive(slots) \union {a}
          /\ slots[a] = "alive" <=> a \in Alive(slots)
      BY <3>8, WritingIs
    <3>10. ~(slots[a] = "alive")
      BY <1>3, <3>5, <3>9
    <3>11. Own(place, Caught(program, place)) = {a}
      BY <3>1, <3>2 DEF Own
    <3>. HIDE DEF x
    <3>. QED BY <1>3, <3>6, <3>7, <3>9, <3>10, <3>11
  <2>2. CASE Here.kind # "catch"
    <3>1. Own(place, Caught(program, place)) = {}
      BY <2>2 DEF Caught, Own, Here
    <3>. QED BY <1>1, <1>3, <2>2, <3>1
  <2>. QED BY <2>1, <2>2
<1>7. RunsWell(program, FirstOf(place), "start", slots', borrows')
  BY <1>1, <1>2, <1>3, <1>4, <1>5, <1>6, GoesInside
<1>8. RunsWell(program, place', phase', slots', borrows')
  BY <1>1, <1>7 DEF Goto
<1>. QED BY <1>1, <1>3, <1>6, <1>8, Arrives

(* Going past one runs well. *)
LEMMA SkipsBranches ==
  ASSUME ControlInvariant, SkipBranch
  PROVE  ControlInvariant'
<1>1. /\ At(Branches) /\ Goto(Past(place), "start") /\ program' = program /\ slots' = slots /\ lost' = lost
      /\ borrows' = borrows /\ misused' = misused /\ returned' = returned
  BY DEF SkipBranch
<1>2. Running /\ place \in Paths(program) /\ StatementAt(program, place).kind \in Branches
  BY <1>1, AtIs
<1>3. /\ Sound(program) /\ misused = FALSE /\ lost = FALSE /\ returned = NoAlloca /\ IsPosition(program, place)
      /\ slots \in [Allocas(program) -> States] /\ Alive(slots) = Visible(program, place)
      /\ borrows \subseteq Paths(program) /\ GoingOn(program, place, phase) \subseteq borrows
  BY <1>2, RunningIs
<1>4. GoingOn(program, place, "start") \subseteq borrows'
  BY <1>1, <1>3 DEF GoingOn
<1>5. StatementAt(program, place).kind \notin Terminators /\ StatementAt(program, place).kind # "declare"
  BY <1>2 DEF Terminators, Branches
<1>6. Own(DropLast(place), New(program, DropLast(place), LastOf(place))) = {}
  BY <1>2, <1>3, <1>5, NothingNew DEF Sound
<1>7. Alive(slots') = Visible(program, place) \union Own(DropLast(place), New(program, DropLast(place), LastOf(place)))
  BY <1>1, <1>3, <1>6
<1>8. RunsWell(program, Past(place), "start", slots', borrows')
  BY <1>1, <1>2, <1>3, <1>4, <1>5, <1>7, GoesPast
<1>9. RunsWell(program, place', phase', slots', borrows')
  BY <1>1, <1>8 DEF Goto
<1>. QED BY <1>1, <1>3, <1>9, Arrives

(* Coming to the test of a loop runs well. *)
LEMMA WaitsForTest ==
  ASSUME NEW b, Sound(b), NEW p \in Paths(b), StatementAt(b, p).kind \in Loops,
         NEW sl \in [Allocas(b) -> States], Alive(sl) = Visible(b, p),
         NEW bo, bo \subseteq Paths(b), GoingOn(b, p, "start") \subseteq bo,
         StatementAt(b, p).kind = "enh_for" => p \in bo
  PROVE  RunsWell(b, p, "test", sl, bo)
<1>1. IsPosition(b, p)
  BY EveryStatementIsAPosition DEF Sound
<1>2. GoingOn(b, p, "test") \subseteq bo
  BY DEF GoingOn
<1>. QED BY <1>1, <1>2 DEF RunsWell

(* The start of a for runs well. *)
LEMMA StartsFor ==
  ASSUME ControlInvariant, generate_for_loop
  PROVE  ControlInvariant'
<1>1. /\ At({"for"}) /\ Goto(place, "test") /\ program' = program
      /\ borrows' = borrows /\ misused' = misused /\ returned' = returned
      /\ slots' = [a \in DOMAIN slots |-> IF a \in Definition(program, place) THEN "alive" ELSE slots[a]]
      /\ lost' = (lost \/ Definition(program, place) # {})
  BY DEF generate_for_loop
<1>2. Running /\ place \in Paths(program) /\ StatementAt(program, place).kind = "for"
  BY <1>1, AtIs
<1>3. /\ Sound(program) /\ misused = FALSE /\ lost = FALSE /\ returned = NoAlloca /\ IsPosition(program, place)
      /\ slots \in [Allocas(program) -> States] /\ Alive(slots) = Visible(program, place)
      /\ borrows \subseteq Paths(program) /\ GoingOn(program, place, phase) \subseteq borrows
  BY <1>2, RunningIs
<1>4. Definition(program, place) = {}
  BY <1>2, <1>3, NoDefinitions
<1>5. slots' = slots /\ lost' = FALSE
  <2>1. slots' = [a \in DOMAIN slots |-> slots[a]]
    BY <1>1, <1>4
  <2>2. slots = [a \in DOMAIN slots |-> slots[a]]
    BY <1>3
  <2>. QED BY <1>1, <1>3, <1>4, <2>1, <2>2
<1>6. GoingOn(program, place, "start") \subseteq borrows'
  BY <1>1, <1>3 DEF GoingOn
<1>7. RunsWell(program, place, "test", slots', borrows')
  BY <1>1, <1>2, <1>3, <1>5, <1>6, WaitsForTest DEF Loops
<1>8. RunsWell(program, place', phase', slots', borrows')
  BY <1>1, <1>7 DEF Goto
<1>. QED BY <1>1, <1>3, <1>5, <1>8, Arrives

(* The start of an enhanced for runs well: it borrows what it loops over. *)
LEMMA StartsEnhancedFor ==
  ASSUME ControlInvariant, generate_enh_for_loop
  PROVE  ControlInvariant'
<1>1. /\ At({"enh_for"}) /\ Goto(place, "test") /\ program' = program /\ returned' = returned
      /\ borrows' = borrows \union {place}
      /\ Here.var # NoVariable => FreeAndRead({}, {Alloca(place, Here.var)}) /\ lost' = lost
  BY DEF generate_enh_for_loop
<1>2. Running /\ place \in Paths(program) /\ StatementAt(program, place).kind = "enh_for"
  BY <1>1, AtIs
<1>3. /\ Sound(program) /\ misused = FALSE /\ lost = FALSE /\ returned = NoAlloca /\ IsPosition(program, place)
      /\ slots \in [Allocas(program) -> States] /\ Alive(slots) = Visible(program, place)
      /\ borrows \subseteq Paths(program) /\ GoingOn(program, place, phase) \subseteq borrows
  BY <1>2, RunningIs
<1>4. StatementAt(program, place).var # NoVariable
  BY <1>2, <1>3, EveryIterableHasAVariable
<1>5. \E a \in Visible(program, place) : a.name = Here.var
  BY <1>2, <1>3, <1>4 DEF Sound, IsProgram, Here
<1>6. PICK a : a = Alloca(place, Here.var)
  OBVIOUS
<1>7. a \in Alive(slots)
  BY <1>2, <1>5, <1>6, NamedIsAlive
<1>8. /\ slots' = Freeing(slots, {}) /\ lost' = lost
      /\ misused' = (misused \/ (\E c \in {} : slots[c] = "stale") \/ \E c \in {a} : c \in {} \/ slots[c] = "stale")
  BY <1>1, <1>4, <1>6 DEF FreeAndRead, Freeing, Here
<1>9. slots' \in [Allocas(program) -> States] /\ Alive(slots') = Alive(slots) \ {} /\ misused' = FALSE
  BY <1>3, <1>7, <1>8, FreesAndReads
<1>10. borrows' \subseteq Paths(program) /\ GoingOn(program, place, "start") \subseteq borrows' /\ place \in borrows'
  BY <1>1, <1>2, <1>3 DEF GoingOn
<1>11. Alive(slots') = Visible(program, place)
  BY <1>3, <1>9
<1>12. RunsWell(program, place, "test", slots', borrows')
  BY <1>2, <1>3, <1>9, <1>10, <1>11, WaitsForTest DEF Loops
<1>13. RunsWell(program, place', phase', slots', borrows')
  BY <1>1, <1>12 DEF Goto
<1>. QED BY <1>1, <1>3, <1>8, <1>9, <1>13, Arrives

(* The body of a loop begins with what the loop sees. *)
LEMMA EntersLoopBody ==
  ASSUME ControlInvariant, At(Loops), GoingOn(program, place, "test") \subseteq borrows,
         program' = program, slots' = slots, misused' = FALSE, lost' = lost, returned' = returned, borrows' = borrows,
         Goto(FirstOf(place), "start")
  PROVE  ControlInvariant'
<1>2. Running /\ place \in Paths(program) /\ StatementAt(program, place).kind \in Loops
  BY AtIs
<1>3. /\ Sound(program) /\ misused = FALSE /\ lost = FALSE /\ returned = NoAlloca /\ IsPosition(program, place)
      /\ slots \in [Allocas(program) -> States] /\ Alive(slots) = Visible(program, place)
      /\ borrows \subseteq Paths(program)
  BY <1>2, RunningIs
<1>4. Own(place, Caught(program, place)) = {} /\ StatementAt(program, place).kind \in Scoped
  BY <1>2 DEF Caught, Own, Loops, Scoped
<1>5. Alive(slots') = Visible(program, place) \union Own(place, Caught(program, place))
  BY <1>3, <1>4
<1>6. RunsWell(program, FirstOf(place), "start", slots', borrows')
  BY <1>2, <1>3, <1>4, <1>5, GoesInside
<1>7. RunsWell(program, place', phase', slots', borrows')
  BY <1>6 DEF Goto
<1>. QED BY <1>3, <1>7, Arrives

(* The start of a do-while runs well. *)
LEMMA StartsDoWhile ==
  ASSUME ControlInvariant, generate_do_while_loop
  PROVE  ControlInvariant'
<1>1. /\ At({"do_while"}) /\ Goto(FirstOf(place), "start") /\ program' = program /\ slots' = slots /\ lost' = lost
      /\ borrows' = borrows /\ misused' = misused /\ returned' = returned
  BY DEF generate_do_while_loop
<1>2. Running /\ StatementAt(program, place).kind = "do_while"
  BY <1>1, AtIs
<1>3. misused = FALSE /\ GoingOn(program, place, phase) \subseteq borrows
  BY <1>2, RunningIs
<1>4. GoingOn(program, place, "test") \subseteq borrows
  BY <1>2, <1>3 DEF GoingOn
<1>5. At(Loops)
  BY <1>1 DEF At, Loops
<1>6. misused' = FALSE
  BY <1>1, <1>3
<1>. QED BY <1>1, <1>4, <1>5, <1>6, EntersLoopBody

(* Going into the body of a loop runs well. *)
LEMMA EntersLoops ==
  ASSUME ControlInvariant, EnterLoop
  PROVE  ControlInvariant'
<1>1. /\ At(Loops) /\ (phase = "test" \/ Here.kind = "while")
      /\ Goto(FirstOf(place), "start") /\ program' = program /\ slots' = slots /\ lost' = lost
      /\ borrows' = borrows /\ returned' = returned
      /\ misused' = \/ misused
                    \/ \E a \in Definition(program, place) : slots[a] = "stale"
                    \/ (Here.kind = "enh_for" /\ place \notin borrows)
  BY DEF EnterLoop, AtTest
<1>2. Running /\ place \in Paths(program) /\ StatementAt(program, place).kind \in Loops
  BY <1>1, AtIs
<1>3. Sound(program) /\ misused = FALSE /\ GoingOn(program, place, phase) \subseteq borrows
  BY <1>2, RunningIs
<1>4. GoingOn(program, place, "test") \subseteq borrows
  BY <1>1, <1>3 DEF GoingOn, Here
<1>5. Here.kind = "enh_for" => place \in borrows
  BY <1>2, <1>4 DEF GoingOn, Here
<1>6. misused' = FALSE
  <2>1. Definition(program, place) = {}
    BY <1>2, <1>3, NoDefinitions
  <2>. QED BY <1>1, <1>3, <1>5, <2>1
<1>. QED BY <1>1, <1>4, <1>6, EntersLoopBody

(* Leaving a loop at its test runs well: an enhanced for gives back what
   it borrowed. *)
LEMMA LeavesLoops ==
  ASSUME ControlInvariant, LeaveLoop
  PROVE  ControlInvariant'
<1>1. /\ At(Loops) /\ FreeAndRead({}, Definition(program, place)) /\ borrows' = borrows \ {place}
      /\ Goto(Past(place), "start") /\ program' = program /\ lost' = lost /\ returned' = returned
  BY DEF LeaveLoop, AtTest
<1>2. Running /\ place \in Paths(program) /\ StatementAt(program, place).kind \in Loops
  BY <1>1, AtIs
<1>3. /\ Sound(program) /\ misused = FALSE /\ lost = FALSE /\ returned = NoAlloca /\ IsPosition(program, place)
      /\ slots \in [Allocas(program) -> States] /\ Alive(slots) = Visible(program, place)
      /\ borrows \subseteq Paths(program) /\ GoingOn(program, place, phase) \subseteq borrows
  BY <1>2, RunningIs
<1>4. Definition(program, place) = {}
  BY <1>2, <1>3, NoDefinitions
<1>5. /\ slots' = Freeing(slots, {})
      /\ misused' = (misused \/ (\E c \in {} : slots[c] = "stale") \/ \E c \in {} : c \in {} \/ slots[c] = "stale")
  BY <1>1, <1>4 DEF FreeAndRead, Freeing
<1>6. slots' \in [Allocas(program) -> States] /\ Alive(slots') = Alive(slots) \ {} /\ misused' = FALSE
  BY <1>3, <1>5, FreesAndReads
<1>7. StatementAt(program, place).kind \notin Terminators /\ StatementAt(program, place).kind # "declare"
  BY <1>2 DEF Terminators, Loops
<1>8. Own(DropLast(place), New(program, DropLast(place), LastOf(place))) = {}
  BY <1>2, <1>3, <1>7, NothingNew DEF Sound
<1>9. Alive(slots') = Visible(program, place) \union Own(DropLast(place), New(program, DropLast(place), LastOf(place)))
  BY <1>3, <1>6, <1>8
<1>10. ASSUME NEW l \in GoingOn(program, place, "start") PROVE l \in borrows'
  <2>1. Prefix(l, DropLast(place)) /\ l \in borrows
    BY <1>3 DEF GoingOn
  <2>2. Len(place) = Len(DropLast(place)) + 1 /\ Len(DropLast(place)) \in Nat
    BY <1>3, PositionIs DEF Sound
  <2>3. l # place
    BY <2>1, <2>2 DEF Prefix
  <2>. QED BY <1>1, <2>1, <2>3
<1>11. borrows' \subseteq Paths(program) /\ GoingOn(program, place, "start") \subseteq borrows'
  BY <1>1, <1>3, <1>10
<1>12. RunsWell(program, Past(place), "start", slots', borrows')
  BY <1>2, <1>3, <1>6, <1>7, <1>9, <1>11, GoesPast
<1>13. RunsWell(program, place', phase', slots', borrows')
  BY <1>1, <1>12 DEF Goto
<1>. QED BY <1>1, <1>3, <1>6, <1>13, Arrives

(* The loops around a statement that is left for one around it. *)
LEMMA OuterLoops ==
  ASSUME NEW b, IsProgram(b), NEW p, IsPosition(b, p), NEW t \in Bodied(b), t # <<>>, Prefix(t, DropLast(p))
  PROVE  /\ \A l \in GoingOn(b, t, "start") : l \in GoingOn(b, p, "start") /\ ~Prefix(t, l)
         /\ StatementAt(b, t).kind = "enh_for" => t \in GoingOn(b, p, "start")
<1>1. t \in Paths(b) /\ t \in Seq(Places) /\ IsPosition(b, t) /\ DropLast(p) \in Seq(Places)
  BY BodiedAre, EveryStatementIsAPosition, PositionIs
<1>2. ASSUME NEW l \in GoingOn(b, t, "start") PROVE l \in GoingOn(b, p, "start") /\ ~Prefix(t, l)
  <2>1. l \in Paths(b) /\ StatementAt(b, l).kind = "enh_for" /\ Prefix(l, DropLast(t))
    BY DEF GoingOn
  <2>2. l \in Seq(Places) /\ Len(l) \in Nat
    BY <2>1, PathsAre DEF IsPath
  <2>. DEFINE u == DropLast(t)
              i == LastOf(t)
  <2>3. u \in Seq(Places) /\ i \in Places /\ t = Append(u, i) /\ Len(t) = Len(u) + 1 /\ Len(u) \in Nat
    BY <1>1, PositionIs
  <2>4. Prefix(l, u)
    BY <2>1
  <2>. HIDE DEF u, i
  <2>5. Prefix(l, Append(u, i))
    BY <2>2, <2>3, <2>4, AroundBehind
  <2>6. Prefix(l, t)
    BY <2>3, <2>5
  <2>7. Prefix(l, DropLast(p))
    BY <1>1, <2>2, <2>6, NestedTwice
  <2>8. ~Prefix(t, l)
    BY <2>2, <2>3, <2>4 DEF Prefix
  <2>. QED BY <2>1, <2>7, <2>8 DEF GoingOn
<1>. QED BY <1>1, <1>2 DEF GoingOn

(* The end of a body runs well. *)
LEMMA EndsBodies ==
  ASSUME ControlInvariant, EndBody
  PROVE  ControlInvariant'
<1>. DEFINE t == DropLast(place)
<1>1. /\ Running /\ AtEnd /\ Len(place) > 1
      /\ program' = program /\ borrows' = borrows /\ lost' = lost /\ returned' = returned
      /\ IF StatementAt(program, t).kind \in Loops
           THEN LookAround(t, Freed(program, t, Whole))
           ELSE FreeAndRead(Freed(program, t, Whole), {}) /\ Goto(Past(t), "start")
  BY DEF EndBody
<1>2. /\ Sound(program) /\ misused = FALSE /\ lost = FALSE /\ returned = NoAlloca /\ IsPosition(program, place)
      /\ slots \in [Allocas(program) -> States] /\ Alive(slots) = Visible(program, place)
      /\ borrows \subseteq Paths(program) /\ GoingOn(program, place, phase) \subseteq borrows
  BY <1>1, RunningIs
<1>3. t \in Bodied(program) /\ t # <<>> /\ t \in Seq(Places)
  <2>1. t \in Bodied(program) /\ Len(place) = Len(t) + 1 /\ t \in Seq(Places) /\ Len(t) \in Nat
    BY <1>2, PositionIs DEF Sound
  <2>. QED BY <1>1, <2>1
<1>4. t \in Paths(program) /\ StatementAt(program, t).kind \in Scoped
  BY <1>2, <1>3, BodiedAre DEF Sound
<1>5. LastOf(place) = Len(BodyAt(program, t)) + 1
  <2>1. Len(BodyAt(program, t)) \in Nat
    BY <1>2, <1>3, BodiesAre DEF Sound
  <2>. QED BY <1>1, <1>2, <2>1 DEF AtEnd, IsPosition
<1>6. /\ Freed(program, t, Whole) \subseteq Visible(program, place)
      /\ Visible(program, place) \ Freed(program, t, Whole) = Visible(program, t)
  BY <1>2, <1>3, <1>5, EndsOfBodiesFree
<1>7. PICK F : F = Freed(program, t, Whole)
  OBVIOUS
<1>8. Definition(program, t) = {}
  BY <1>2, <1>4, NoDefinitions
<1>. HIDE DEF t
<1>9. /\ slots' = Freeing(slots, F)
      /\ misused' = (misused \/ (\E c \in F : slots[c] = "stale") \/ \E c \in {} : c \in F \/ slots[c] = "stale")
  <2>1. CASE StatementAt(program, t).kind \in Loops
    BY <1>1, <1>7, <1>8, <2>1 DEF FreeAndRead, Freeing, LookAround
  <2>2. CASE StatementAt(program, t).kind \notin Loops
    BY <1>1, <1>7, <2>2 DEF FreeAndRead, Freeing
  <2>. QED BY <2>1, <2>2
<1>10. F \subseteq Alive(slots)
  BY <1>2, <1>6, <1>7
<1>11. slots' \in [Allocas(program) -> States] /\ Alive(slots') = Alive(slots) \ F /\ misused' = FALSE
  BY <1>2, <1>9, <1>10, FreesAndReads
<1>12. Alive(slots') = Visible(program, t)
  BY <1>2, <1>6, <1>7, <1>11
<1>13. Prefix(t, DropLast(place))
  BY <1>3, CutAll, PrefixesAreCuts DEF t
<1>14. /\ \A l \in GoingOn(program, t, "start") : l \in GoingOn(program, place, "start")
       /\ StatementAt(program, t).kind = "enh_for" => t \in GoingOn(program, place, "start")
  BY <1>2, <1>3, <1>13, OuterLoops DEF Sound
<1>15. GoingOn(program, place, "start") \subseteq borrows
  BY <1>2 DEF GoingOn
<1>16. CASE StatementAt(program, t).kind \in Loops
  <2>1. RunsWell(program, t, "test", slots', borrows')
    BY <1>1, <1>2, <1>4, <1>11, <1>12, <1>14, <1>15, <1>16, WaitsForTest
  <2>2. RunsWell(program, place', phase', slots', borrows')
    BY <1>1, <1>16, <2>1 DEF LookAround, Goto
  <2>. QED BY <1>1, <1>2, <1>11, <2>2, Arrives
<1>17. CASE StatementAt(program, t).kind \notin Loops
  <2>1. StatementAt(program, t).kind \notin Terminators /\ StatementAt(program, t).kind # "declare"
    BY <1>4 DEF Scoped, Loops, Branches, Terminators
  <2>2. Own(DropLast(t), New(program, DropLast(t), LastOf(t))) = {}
    BY <1>2, <1>4, <2>1, NothingNew DEF Sound
  <2>3. Alive(slots') = Visible(program, t) \union Own(DropLast(t), New(program, DropLast(t), LastOf(t)))
    BY <1>12, <2>2
  <2>4. borrows' \subseteq Paths(program) /\ GoingOn(program, t, "start") \subseteq borrows'
    BY <1>1, <1>2, <1>14, <1>15
  <2>5. RunsWell(program, Past(t), "start", slots', borrows')
    BY <1>2, <1>4, <1>11, <2>1, <2>3, <2>4, GoesPast
  <2>6. RunsWell(program, place', phase', slots', borrows')
    BY <1>1, <1>17, <2>5 DEF Goto
  <2>. QED BY <1>1, <1>2, <1>11, <2>6, Arrives
<1>. QED BY <1>16, <1>17

(* A break runs well. *)
LEMMA Breaks ==
  ASSUME ControlInvariant, Break
  PROVE  ControlInvariant'
<1>. DEFINE t == Around(program, place, Breakable)
<1>1. /\ At({"break"}) /\ FreeAndRead(FreedByBreak(program, place), {})
      /\ borrows' = {loop \in borrows : ~Prefix(t, loop)}
      /\ Goto(Past(t), "start") /\ program' = program /\ lost' = lost /\ returned' = returned
  BY DEF Break
<1>2. Running /\ place \in Paths(program) /\ StatementAt(program, place).kind = "break"
  BY <1>1, AtIs
<1>3. /\ Sound(program) /\ misused = FALSE /\ lost = FALSE /\ returned = NoAlloca /\ IsPosition(program, place)
      /\ slots \in [Allocas(program) -> States] /\ Alive(slots) = Visible(program, place)
      /\ borrows \subseteq Paths(program) /\ GoingOn(program, place, phase) \subseteq borrows
  BY <1>2, RunningIs
<1>4. IsInside(program, place, Breakable)
  BY <1>2, <1>3 DEF Sound, IsProgram
<1>5. /\ t \in Bodied(program) /\ t \in Paths(program) /\ t \in Seq(Places) /\ t # <<>>
      /\ Prefix(t, DropLast(place)) /\ StatementAt(program, t).kind \in Breakable
  BY <1>2, <1>3, <1>4, TargetIs DEF Sound
<1>6. PICK F : F = FreedByBreak(program, place)
  OBVIOUS
<1>7. F = LeftBehind(program, place, Len(t))
  BY <1>2, <1>3, <1>6, BreakFrees
<1>8. Len(t) \in Nat
  BY <1>5
<1>9. \A a \in Visible(program, place) : Len(t) <= Len(a.scope) => ~IsReturned(program, a.scope, a.name)
  BY <1>2, <1>3, <1>8, NothingReturnedInside
<1>. HIDE DEF t
<1>10. Visible(program, place) \ F = Visible(program, t) /\ F \subseteq Visible(program, place)
  <2>1. Visible(program, place) \ F = Visible(program, t)
    BY <1>3, <1>5, <1>7, <1>9, Leaves
  <2>. QED BY <1>7, <2>1 DEF LeftBehind
<1>11. /\ slots' = Freeing(slots, F)
       /\ misused' = (misused \/ (\E c \in F : slots[c] = "stale") \/ \E c \in {} : c \in F \/ slots[c] = "stale")
  BY <1>1, <1>6 DEF FreeAndRead, Freeing
<1>12. F \subseteq Alive(slots)
  BY <1>3, <1>10
<1>13. slots' \in [Allocas(program) -> States] /\ Alive(slots') = Alive(slots) \ F /\ misused' = FALSE
  BY <1>3, <1>11, <1>12, FreesAndReads
<1>14. StatementAt(program, t).kind \notin Terminators /\ StatementAt(program, t).kind # "declare"
  BY <1>5 DEF Breakable, Loops, Terminators
<1>15. Own(DropLast(t), New(program, DropLast(t), LastOf(t))) = {}
  BY <1>3, <1>5, <1>14, NothingNew DEF Sound
<1>16. Alive(slots') = Visible(program, t) \union Own(DropLast(t), New(program, DropLast(t), LastOf(t)))
  BY <1>3, <1>10, <1>13, <1>15
<1>17. \A l \in GoingOn(program, t, "start") : l \in GoingOn(program, place, "start") /\ ~Prefix(t, l)
  BY <1>3, <1>5, OuterLoops DEF Sound
<1>18. GoingOn(program, place, "start") \subseteq borrows
  BY <1>3 DEF GoingOn
<1>19. borrows' \subseteq Paths(program) /\ GoingOn(program, t, "start") \subseteq borrows'
  BY <1>1, <1>3, <1>17, <1>18
<1>20. RunsWell(program, Past(t), "start", slots', borrows')
  BY <1>3, <1>5, <1>13, <1>14, <1>16, <1>19, GoesPast
<1>21. RunsWell(program, place', phase', slots', borrows')
  BY <1>1, <1>20 DEF Goto
<1>. QED BY <1>1, <1>3, <1>13, <1>21, Arrives

(* A continue runs well. *)
LEMMA Continues ==
  ASSUME ControlInvariant, Continue
  PROVE  ControlInvariant'
<1>. DEFINE t == Around(program, place, Loops)
<1>1. /\ At({"continue"}) /\ FreeAndRead(FreedByContinue(program, place), Definition(program, t))
      /\ borrows' = {other \in borrows : other = t \/ ~Prefix(t, other)}
      /\ Goto(t, "test") /\ program' = program /\ lost' = lost /\ returned' = returned
  BY DEF Continue, LookAround
<1>2. Running /\ place \in Paths(program) /\ StatementAt(program, place).kind = "continue"
  BY <1>1, AtIs
<1>3. /\ Sound(program) /\ misused = FALSE /\ lost = FALSE /\ returned = NoAlloca /\ IsPosition(program, place)
      /\ slots \in [Allocas(program) -> States] /\ Alive(slots) = Visible(program, place)
      /\ borrows \subseteq Paths(program) /\ GoingOn(program, place, phase) \subseteq borrows
  BY <1>2, RunningIs
<1>4. IsInside(program, place, Loops)
  BY <1>2, <1>3 DEF Sound, IsProgram
<1>5. /\ t \in Bodied(program) /\ t \in Paths(program) /\ t \in Seq(Places) /\ t # <<>>
      /\ Prefix(t, DropLast(place)) /\ StatementAt(program, t).kind \in Loops
  BY <1>2, <1>3, <1>4, TargetIs DEF Sound
<1>6. PICK F : F = FreedByContinue(program, place)
  OBVIOUS
<1>7. F = LeftBehind(program, place, Len(t))
  BY <1>2, <1>3, <1>6, ContinueFrees
<1>8. Len(t) \in Nat /\ Definition(program, t) = {}
  BY <1>3, <1>5, NoDefinitions
<1>9. \A a \in Visible(program, place) : Len(t) <= Len(a.scope) => ~IsReturned(program, a.scope, a.name)
  BY <1>2, <1>3, <1>8, NothingReturnedInside
<1>. HIDE DEF t
<1>10. Visible(program, place) \ F = Visible(program, t) /\ F \subseteq Visible(program, place)
  <2>1. Visible(program, place) \ F = Visible(program, t)
    BY <1>3, <1>5, <1>7, <1>9, Leaves
  <2>. QED BY <1>7, <2>1 DEF LeftBehind
<1>11. /\ slots' = Freeing(slots, F)
       /\ misused' = (misused \/ (\E c \in F : slots[c] = "stale") \/ \E c \in {} : c \in F \/ slots[c] = "stale")
  BY <1>1, <1>6, <1>8 DEF FreeAndRead, Freeing
<1>12. F \subseteq Alive(slots)
  BY <1>3, <1>10
<1>13. slots' \in [Allocas(program) -> States] /\ Alive(slots') = Alive(slots) \ F /\ misused' = FALSE
  BY <1>3, <1>11, <1>12, FreesAndReads
<1>14. Alive(slots') = Visible(program, t)
  BY <1>3, <1>10, <1>13
<1>15. /\ \A l \in GoingOn(program, t, "start") : l \in GoingOn(program, place, "start") /\ ~Prefix(t, l)
       /\ StatementAt(program, t).kind = "enh_for" => t \in GoingOn(program, place, "start")
  BY <1>3, <1>5, OuterLoops DEF Sound
<1>16. GoingOn(program, place, "start") \subseteq borrows
  BY <1>3 DEF GoingOn
<1>17. /\ borrows' \subseteq Paths(program) /\ GoingOn(program, t, "start") \subseteq borrows'
       /\ StatementAt(program, t).kind = "enh_for" => t \in borrows'
  BY <1>1, <1>3, <1>15, <1>16
<1>18. RunsWell(program, t, "test", slots', borrows')
  BY <1>3, <1>5, <1>13, <1>14, <1>17, WaitsForTest
<1>19. RunsWell(program, place', phase', slots', borrows')
  BY <1>1, <1>18 DEF Goto
<1>. QED BY <1>1, <1>3, <1>13, <1>19, Arrives

(* A return or throw ends the function well. *)
LEMMA Returns ==
  ASSUME ControlInvariant, generate_return_statement
  PROVE  ControlInvariant'
<1>1. /\ At({"return", "throw"}) /\ FreeAndRead(FreedByReturn(program, place), {}) /\ borrows' = {}
      /\ Goto(Outside, "start") /\ program' = program /\ lost' = lost
      /\ returned' = IF Here.var # NoVariable THEN Alloca(place, Here.var) ELSE NoAlloca
  BY DEF generate_return_statement
<1>2. Running /\ place \in Paths(program) /\ StatementAt(program, place).kind \in {"return", "throw"}
  BY <1>1, AtIs
<1>3. /\ Sound(program) /\ misused = FALSE /\ lost = FALSE /\ returned = NoAlloca /\ IsPosition(program, place)
      /\ slots \in [Allocas(program) -> States] /\ Alive(slots) = Visible(program, place)
  BY <1>2, RunningIs
<1>4. PICK F : F = FreedByReturn(program, place)
  OBVIOUS
<1>5. F = LeftBehind(program, place, 0)
  BY <1>2, <1>3, <1>4, ReturnFrees
<1>6. /\ slots' = Freeing(slots, F)
      /\ misused' = (misused \/ (\E c \in F : slots[c] = "stale") \/ \E c \in {} : c \in F \/ slots[c] = "stale")
  BY <1>1, <1>4 DEF FreeAndRead, Freeing
<1>7. F \subseteq Alive(slots)
  BY <1>3, <1>5 DEF LeftBehind
<1>8. slots' \in [Allocas(program) -> States] /\ Alive(slots') = Alive(slots) \ F /\ misused' = FALSE
  BY <1>3, <1>6, <1>7, FreesAndReads
<1>9. \A a \in Visible(program, place) :
        \E r \in Bodied(program) : \E x : /\ a = [scope |-> r, name |-> x] /\ x \in Names(program, r)
                                      /\ Prefix(r, place) /\ r \in Seq(Places) /\ Owner(r) = r
  <2>. TAKE a \in Visible(program, place)
  <2>1. PICK r, x : r \in Bodied(program) /\ a = [scope |-> r, name |-> x]
    BY <1>3, InVisible
  <2>. r \in Bodied(program)
    BY <2>1
  <2>2. x \in Names(program, r) /\ Prefix(r, DropLast(place))
    BY <1>3, <2>1, InVisible, VisibleAreAllocas
  <2>3. r \in Seq(Places) /\ Owner(r) = r
    BY <1>3, BodiedAre DEF Sound
  <2>4. Prefix(r, place)
    <3>. DEFINE s == DropLast(place)
                i == LastOf(place)
    <3>1. s \in Seq(Places) /\ i \in Places /\ place = Append(s, i)
      BY <1>3, PositionIs DEF Sound
    <3>2. Prefix(r, s)
      BY <2>2
    <3>. HIDE DEF s, i
    <3>3. Prefix(r, Append(s, i))
      BY <2>3, <3>1, <3>2, AroundBehind
    <3>. QED BY <3>1, <3>3
  <2>. QED BY <2>1, <2>2, <2>3, <2>4
<1>10. ASSUME NEW a \in Alive(slots') PROVE a = returned'
  <2>1. a \in Visible(program, place) /\ a \notin F
    BY <1>3, <1>8
  <2>2. PICK r, x : r \in Bodied(program) /\ a = [scope |-> r, name |-> x] /\ x \in Names(program, r)
                  /\ Prefix(r, place) /\ r \in Seq(Places)
    BY <1>9, <2>1
  <2>. r \in Bodied(program)
    BY <2>2
  <2>3. a.scope = r /\ a.name = x /\ 0 <= Len(r)
    BY <2>2
  <2>4. IsReturned(program, r, x)
    BY <1>5, <2>1, <2>3 DEF LeftBehind
  <2>5. PICK q \in Paths(program) :
          /\ DropLast(q) = r /\ StatementAt(program, q).kind = "return" /\ StatementAt(program, q).var = x
          /\ \A p \in Paths(program) :
               Prefix(r, p) /\ p # q /\ StatementAt(program, p).kind \in Terminators
                 => \/ StatementAt(program, p).kind = "break" /\ ~(Len(Around(program, p, Breakable)) < Len(q))
                    \/ StatementAt(program, p).kind = "continue" /\ ~(Len(Around(program, p, Loops)) < Len(q))
    BY <1>3, <2>2, <2>4, ReturnedIs
  <2>6. StatementAt(program, place).kind \in Terminators
        /\ StatementAt(program, place).kind # "break" /\ StatementAt(program, place).kind # "continue"
    BY <1>2 DEF Terminators
  <2>7. place = q
    BY <1>2, <2>2, <2>5, <2>6
  <2>8. Here.var = x /\ x # NoVariable
    BY <1>3, <2>2, <2>5, <2>7, NamesAreVariables DEF Here, Sound
  <2>9. Alloca(place, a.name) = a
    BY <1>3, <2>1, SeenAlloca
  <2>. QED BY <1>1, <2>3, <2>8, <2>9
<1>11. returned' \in Alive(slots') \union {NoAlloca}
  <2>1. CASE Here.var # NoVariable
    <3>1. StatementAt(program, place).kind = "return"
      BY <1>2, <1>3, <2>1 DEF Sound, IsProgram, Here
    <3>2. \E a \in Visible(program, place) : a.name = Here.var
      BY <1>2, <1>3, <2>1, <3>1 DEF Sound, IsProgram, Here
    <3>3. PICK a \in Visible(program, place) : a.name = Here.var
      BY <3>2
    <3>4. returned' = a
      <4>1. Alloca(place, a.name) = a
        BY <1>3, SeenAlloca
      <4>. QED BY <1>1, <2>1, <3>3, <4>1
    <3>5. PICK r, x : r \in Bodied(program) /\ a = [scope |-> r, name |-> x] /\ Prefix(r, place) /\ Owner(r) = r
      BY <1>9
    <3>. r \in Bodied(program)
      BY <3>5
    <3>6. IsReturned(program, a.scope, a.name)
      BY <1>2, <3>1, <3>3, <3>5 DEF IsReturned, Here
    <3>7. a \notin F
      BY <1>5, <3>6 DEF LeftBehind
    <3>. QED BY <1>3, <1>8, <3>4, <3>7
  <2>2. CASE Here.var = NoVariable
    BY <1>1, <2>2
  <2>. QED BY <2>1, <2>2
<1>12. place' = Outside /\ phase' = "start"
  BY <1>1 DEF Goto
<1>13. EndedWell(program, phase', slots', borrows', returned')
  BY <1>1, <1>8, <1>10, <1>11, <1>12 DEF EndedWell
<1>. QED BY <1>1, <1>3, <1>8, <1>12, <1>13, Ends

(* So does the end of its body. *)
LEMMA EndsFunctions ==
  ASSUME ControlInvariant, EndFunction
  PROVE  ControlInvariant'
<1>1. /\ Running /\ AtEnd /\ Len(place) = 1 /\ FreeAndRead(Freed(program, <<>>, Whole), {}) /\ Goto(Outside, "start")
      /\ program' = program /\ borrows' = borrows /\ lost' = lost /\ returned' = returned
  BY DEF EndFunction
<1>2. /\ Sound(program) /\ misused = FALSE /\ lost = FALSE /\ returned = NoAlloca /\ IsPosition(program, place)
      /\ slots \in [Allocas(program) -> States] /\ Alive(slots) = Visible(program, place)
      /\ borrows \subseteq Paths(program)
  BY <1>1, RunningIs
<1>3. DropLast(place) = <<>>
  <2>1. DropLast(place) \in Seq(Places) /\ Len(place) = Len(DropLast(place)) + 1 /\ Len(DropLast(place)) \in Nat
    BY <1>2, PositionIs DEF Sound
  <2>2. Len(DropLast(place)) = 0
    <3>1. PICK n : n = Len(DropLast(place))
      OBVIOUS
    <3>2. n \in Nat /\ 1 = n + 1
      BY <1>1, <2>1, <3>1
    <3>3. n = 0
      BY <3>2
    <3>. QED BY <3>1, <3>3
  <2>. QED BY <2>1, <2>2, CutAll
<1>4. LastOf(place) = Len(BodyAt(program, DropLast(place))) + 1
  <2>1. Len(BodyAt(program, DropLast(place))) \in Nat
    BY <1>2, BodiesAre DEF Sound, IsPosition
  <2>. QED BY <1>1, <1>2, <2>1 DEF AtEnd, IsPosition
<1>5. PICK F : F = Freed(program, <<>>, Whole)
  OBVIOUS
<1>6. F \subseteq Visible(program, place) /\ Visible(program, place) \ F = {}
  BY <1>2, <1>3, <1>4, <1>5, EndsOfBodiesFree
<1>7. /\ slots' = Freeing(slots, F)
      /\ misused' = (misused \/ (\E c \in F : slots[c] = "stale") \/ \E c \in {} : c \in F \/ slots[c] = "stale")
  BY <1>1, <1>5 DEF FreeAndRead, Freeing
<1>8. F \subseteq Alive(slots)
  BY <1>2, <1>6
<1>9. slots' \in [Allocas(program) -> States] /\ Alive(slots') = Alive(slots) \ F /\ misused' = FALSE
  BY <1>2, <1>7, <1>8, FreesAndReads
<1>10. place' = Outside /\ phase' = "start"
  BY <1>1 DEF Goto
<1>11. EndedWell(program, phase', slots', borrows', returned')
  BY <1>1, <1>2, <1>6, <1>9, <1>10 DEF EndedWell
<1>. QED BY <1>1, <1>2, <1>9, <1>10, <1>11, Ends

(* What the invariant says of a state. *)
LEMMA InvariantSuffices ==
  ASSUME ControlInvariant
  PROVE  ValuesEndOnce
<1>1. Sound(program) /\ misused = FALSE /\ lost = FALSE
  BY DEF ControlInvariant
<1>2. DOMAIN slots = Allocas(program) /\ slots \in [Allocas(program) -> States]
  BY DEF ControlInvariant, RunsWell, EndedWell
<1>3. CASE Running
  <2>1. /\ IsPosition(program, place) /\ Alive(slots) = Visible(program, place) /\ returned = NoAlloca
        /\ RunsWell(program, place, phase, slots, borrows)
    BY <1>3 DEF ControlInvariant, RunsWell
  <2>2. phase = "test" => Definition(program, place) = {}
    BY <1>1, <2>1, NoDefinitions DEF RunsWell
  <2>3. InScope(place, phase) = Visible(program, place)
    BY <2>2 DEF InScope
  <2>4. ScopesOwnTheirValues
    BY <2>1, <2>3 DEF ScopesOwnTheirValues, Alive
  <2>5. ControlTypeOK
    BY <1>1, <1>2, <1>3, <2>1 DEF ControlTypeOK, RunsWell, IsPosition, States
  <2>. QED BY <1>1, <1>3, <2>1, <2>4, <2>5 DEF ValuesEndOnce, NoValueIsMisused, NoValueIsLost
<1>4. CASE ~Running
  <2>1. EndedWell(program, phase, slots, borrows, returned)
    BY <1>4 DEF ControlInvariant
  <2>2. returned \in Allocas(program) \union {NoAlloca}
    BY <1>2, <2>1 DEF EndedWell, Alive
  <2>3. ControlTypeOK
    BY <1>1, <1>2, <1>4, <2>1, <2>2 DEF ControlTypeOK, EndedWell, States
  <2>4. NoValueIsMisused
    BY <1>1, <2>1 DEF NoValueIsMisused, EndedWell, Alive
  <2>5. NoValueIsLost
    BY <1>1, <2>1 DEF NoValueIsLost, EndedWell, Alive
  <2>6. ScopesOwnTheirValues
    BY <1>4 DEF ScopesOwnTheirValues
  <2>. QED BY <2>3, <2>4, <2>5, <2>6 DEF ValuesEndOnce
<1>. QED BY <1>3, <1>4

(* A function starts well. *)
LEMMA Begins ==
  ASSUME ControlInit, Carelessness(program) = {}
  PROVE  ControlInvariant
<1>1. /\ program \in Programs /\ place = <<1>> /\ phase = "start" /\ slots = [a \in Allocas(program) |-> "unset"]
      /\ borrows = {} /\ misused = FALSE /\ lost = FALSE /\ returned = NoAlloca
  BY DEF ControlInit
<1>2. Sound(program)
  BY <1>1, ProgramsAssumption DEF Sound
<1>3. <<>> \in Bodied(program) /\ FirstOf(<<>>) = <<1>>
  BY DEF Bodied, FirstOf
<1>4. IsPosition(program, place) /\ DropLast(place) = <<>> /\ LastOf(place) = 1
  BY <1>1, <1>2, <1>3, FirstPlaces DEF Sound
<1>5. Visible(program, place) = {}
  <2>1. ASSUME NEW a \in Visible(program, place) PROVE FALSE
    <3>1. PICK r, x : r \in Bodied(program) /\ a = [scope |-> r, name |-> x]
      BY <1>2, <1>4, InVisible
    <3>. r \in Bodied(program)
      BY <3>1
    <3>2. Prefix(r, <<>>) /\ x \in DeclaredBefore(program, r, place[Len(r) + 1])
      BY <1>2, <1>4, <3>1, InVisible
    <3>3. r \in Seq(Places)
      BY <1>2, BodiedAre DEF Sound
    <3>4. r = <<>> /\ Len(<<>>) = 0
      BY <3>2, <3>3 DEF Prefix
    <3>5. place[Len(r) + 1] = 1
      BY <1>1, <3>4
    <3>. QED BY <3>2, <3>4, <3>5, BeforeFirst DEF Caught
  <2>. QED BY <2>1
<1>6. GoingOn(program, place, "start") = {}
  <2>1. ASSUME NEW l \in GoingOn(program, place, "start") PROVE FALSE
    <3>1. l \in Paths(program) /\ Prefix(l, <<>>)
      BY <1>4 DEF GoingOn
    <3>2. Len(l) \in Nat \ {0}
      BY <1>2, <3>1, PathsAre DEF IsPath, Sound
    <3>. QED BY <3>1, <3>2 DEF Prefix
  <2>. QED BY <2>1
<1>7. Alive(slots) = {} /\ slots \in [Allocas(program) -> States]
  BY <1>1 DEF Alive, States
<1>8. RunsWell(program, place, phase, slots, borrows)
  BY <1>1, <1>4, <1>5, <1>6, <1>7 DEF RunsWell
<1>9. Running
  BY <1>4, PositionsAreInside DEF Running
<1>. QED BY <1>1, <1>2, <1>8, <1>9 DEF ControlInvariant

(* Whatever way control takes through a function, through branches, loops,
   breaks, continues, returns and throws, each variable's value is alive
   just as long as its scope and freed once: generate_end_of_scope, and
   what break, continue, return and throw do for all the scopes they leave
   at once, frees all that is left behind, nothing twice and nothing that
   is used later.  The hypothesis leaves out the programs for which the
   code is known to do that wrongly (Carelessness). *)
THEOREM ScopesEndOnce ==
  ControlSpec /\ Carelessness(program) = {} => []ValuesEndOnce
<1>1. ControlInit /\ Carelessness(program) = {} => ControlInvariant
  BY Begins
<1>2. ControlInvariant /\ [ControlNext]_control => ControlInvariant'
  <2>. SUFFICES ASSUME ControlInvariant, [ControlNext]_control PROVE ControlInvariant'
    OBVIOUS
  <2>1. CASE ControlNext
    <3>1. CASE generate_declaration
      BY <3>1, Declares
    <3>2. CASE Use
      BY <3>2, Uses
    <3>3. CASE Assign
      BY <3>3, Assigns
    <3>4. CASE EnterBranch
      BY <3>4, EntersBranches
    <3>5. CASE SkipBranch
      BY <3>5, SkipsBranches
    <3>6. CASE generate_for_loop
      BY <3>6, StartsFor
    <3>7. CASE generate_enh_for_loop
      BY <3>7, StartsEnhancedFor
    <3>8. CASE generate_do_while_loop
      BY <3>8, StartsDoWhile
    <3>9. CASE EnterLoop
      BY <3>9, EntersLoops
    <3>10. CASE LeaveLoop
      BY <3>10, LeavesLoops
    <3>11. CASE EndBody
      BY <3>11, EndsBodies
    <3>12. CASE Break
      BY <3>12, Breaks
    <3>13. CASE Continue
      BY <3>13, Continues
    <3>14. CASE generate_return_statement
      BY <3>14, Returns
    <3>15. CASE EndFunction
      BY <3>15, EndsFunctions
    <3>. QED BY <2>1, <3>1, <3>2, <3>3, <3>4, <3>5, <3>6, <3>7, <3>8, <3>9, <3>10, <3>11, <3>12, <3>13, <3>14, <3>15 DEF ControlNext
  <2>2. CASE UNCHANGED control
    BY <2>2 DEF control, ControlInvariant, Running
  <2>. QED BY <2>1, <2>2
<1>3. ControlInvariant => ValuesEndOnce
  BY InvariantSuffices
<1>. QED BY <1>1, <1>2, <1>3, PTL DEF ControlSpec
=============================================================================
