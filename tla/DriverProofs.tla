---------------------------- MODULE DriverProofs ----------------------------
(***************************************************************************)
(* Proofs about the driver, for any programs and any ways to run them, as  *)
(* long as they are spared what Careful says: DriverCareless = {}.  The    *)
(* conjuncts of Inv say which items the main thread waits for, what the    *)
(* results so far mean, in which order the stages come and what each of    *)
(* them stands for, what has become of main, and what the session of the   *)
(* Flint Interop Protocol is for.                                          *)
(*                                                                         *)
(* The proofs about the order in which files are generated are at the end. *)
(***************************************************************************)
EXTENDS Driver, CodegenOrder, DataTheorems

AtStage == stage \in {Stages[s] : s \in DOMAIN Stages}

(* Where the compiler goes behind the last of the stages, if all is well,
   and all the places of the main thread. *)
Later == {"analysis", "generation", "linking", "shutdown 0"}
AllStages == {Stages[s] : s \in DOMAIN Stages} \cup Later
             \cup {"failed", "shutdown 1", "exit", "cleanup", "idle", "left"}

(* What the exit status is about: the items that are to be handled, those
   that define main, and whether anything of the program fails. *)
Due == UNION {ItemsOf(program, Stages[s]) :
                s \in {s \in DOMAIN Stages : Stages[s] = "tests" => mode.test}}
Mains == {i \in Due : program.does[i] = "main"}
Ailing ==
  \/ Due \cap Failing(program) # {} \/ program.bad # {}
  \/ (~mode.test /\ Mains = {}) \/ Cardinality(Mains) > 1

(* What FIP's session may look like. *)
Sessions == [active : BOOLEAN, modules : {"off", "mismatch", "up"},
             of : {NoItem} \cup {p.project : p \in Programs}]

(* The types, of a program that is careful; nothing has crashed, and no
   item has read a file that was being written. *)
Types ==
  /\ mode \in Modes /\ program \in Programs /\ Careful(mode, program) /\ requests \in 0 .. Requests
  /\ stage \in AllStages /\ next \in Nat /\ awaited \in 0 .. next /\ result \in BOOLEAN
  /\ here \in Items \cup {NoItem} /\ holder \in Items \cup {NoItem}
  /\ at \in [Items -> {"open"} \cup Busy \cup {"good", "bad"}]
  /\ waiting \in Seq(Items) /\ running \subseteq Items
  /\ fip \in Sessions /\ bindings \in {"absent", "cut", "whole"} /\ asked \subseteq Items
  /\ live \in BOOLEAN /\ main_function \in BOOLEAN /\ status \in {"none", "0", "1"}

(* The pool has items that are on their way, each of them once. *)
PoolIsRight ==
  /\ \A i \in running : at[i] \in Busy
  /\ \A n \in DOMAIN waiting : at[waiting[n]] = "queued"
  /\ \A m, n \in DOMAIN waiting : waiting[m] = waiting[n] => m = n

(* The items on their way are those the main thread has handed out and not
   yet waited for, in the stage it is at; it is at one itself or at none. *)
Window ==
  /\ IF AtStage THEN next <= Len(Work(stage)) ELSE next = 0 /\ here = NoItem
  /\ \A i \in Items : at[i] \in Busy => AtStage /\ \E n \in awaited + 1 .. next : Work(stage)[n] = i
  /\ AtStage /\ InParallel => here = NoItem
  /\ AtStage /\ ~InParallel => \/ here = NoItem /\ awaited = next
                               \/ next = awaited + 1 /\ here = Work(stage)[next]

(* The result is that of the items waited for, and of the constant data
   modules for those behind them.  A stage that stops at the first failure
   has no item left to wait for when one has failed. *)
Results ==
  /\ AtStage /\ Short(stage) /\ ~result => awaited = next /\ (InParallel => next = Len(Work(stage)))
  /\ AtStage => \A n \in 1 .. next : at[Work(stage)[n]] # "open" \/ (Short(stage) /\ ~result)
  /\ AtStage /\ result => \A n \in 1 .. awaited : at[Work(stage)[n]] = "good"
  /\ AtStage /\ ~result => \/ \E n \in 1 .. awaited : at[Work(stage)[n]] = "bad"
                           \/ stage = "data" /\ \E i \in Items : at[i] = "bad"

(* Only items of this stage and of those before it have been begun, and
   those before it are good, but for the waves of a server and constant
   data modules that the result still tells of. *)
Order ==
  \A s \in DOMAIN Stages : stage = Stages[s] =>
    /\ \A i \in Items : at[i] # "open" =>
         \/ \E r \in 1 .. s - 1 : i \in ItemsOf(program, Stages[r])
         \/ \E n \in 1 .. next : Work(stage)[n] = i
    /\ \A r \in 1 .. s - 1 : \A i \in ItemsOf(program, Stages[r]) :
         \/ at[i] = "good"
         \/ mode.serve /\ r \in {2, 3} /\ s > 3
         \/ stage = "data" /\ ~result

(* What is known of the program when the main thread is at a place. *)
Stations ==
  /\ \A i \in Items : at[i] # "open" => i \in Due
  /\ stage = "tests" => mode.test
  /\ stage = "left" => /\ "types" \in program.bad
                       /\ \A i \in Items : at[i] # "open" =>
                            \E s \in 1 .. 3 : i \in ItemsOf(program, Stages[s])
  /\ stage \in {"cleanup", "idle", "left"} => mode.serve
  /\ stage \in {Stages[s] : s \in 4 .. 8} \cup Later =>
       "types" \notin program.bad /\ (mode.serve \/ mode.test \/ Mains # {})
  /\ stage \in Later => ~mode.serve /\ \A i \in Due : at[i] = "good"
  /\ stage \in Later \ {"analysis"} => "analysis" \notin program.bad
  /\ stage \in {"linking", "shutdown 0"} => "generation" \notin program.bad
  /\ stage = "shutdown 0" => "linking" \notin program.bad
  /\ AtStage \/ stage \in {"analysis", "generation"} => live
  /\ stage \in {"failed", "shutdown 1"} => Ailing
  /\ status = "0" => ~Ailing /\ \A i \in Due : at[i] = "good"
  /\ status = "1" => Ailing

(* One item at most defines main, main_function tells of it, and an item
   fails because it is to fail or because there is a main already. *)
MainIsRight ==
  /\ \A i \in Items : at[i] = "defining" => program.does[i] = "main" /\ ~main_function
  /\ main_function => \E i \in Items : program.does[i] = "main" /\ at[i] \in {"good", "bad"}
  /\ AtStage => \A i \in Items : program.does[i] = "main" /\ at[i] = "good" => main_function
  /\ \A i, j \in Items : /\ program.does[i] = "main" /\ program.does[j] = "main"
                         /\ at[i] \in {"defining", "good"} /\ at[j] \in {"defining", "good"}
                         => i = j
  /\ \A i \in Items : at[i] = "good" => i \notin Failing(program)
  /\ \A i \in Items : at[i] = "bad" =>
       \/ i \in Failing(program)
       \/ program.does[i] = "main"
          /\ \E j \in Items : j # i /\ program.does[j] = "main" /\ at[j] \in {"good", "bad"}

(* An item that uses the session has the mutex.  The session is off, is
   being started by an item, is up and the program's, or is that of
   modules of another version, which an item has failed at. *)
SessionIsRight ==
  /\ \A i \in Items : at[i] \in {"starting", "asking", "writing"} => holder = i /\ i \in Asks(program)
  /\ \A i \in Items : at[i] = "starting" => fip.active /\ fip.modules = "off"
  /\ \A i \in Items : at[i] \in {"asking", "writing"} => fip.modules = "up"
  /\ \A i \in Items : at[i] = "writing" => program.does[i] = "import" /\ i \notin program.fails
  /\ \A i \in Items : at[i] = "reporting" =>
       /\ program.does[i] = "extern" /\ i \in Failing(program)
       /\ i \in asked \/ (~fip.active /\ program.fip # "up")
  /\ fip # Off =>
       /\ fip.active
       /\ \E i \in Asks(program) : at[i] # "open"
       /\ \/ fip.modules = "off" /\ \E i \in Items : at[i] = "starting"
          \/ fip.modules = "up" /\ fip.of = program.project /\ program.fip = "up"
          \/ /\ fip.modules = "mismatch" /\ program.fip = "mismatch"
             /\ \E i \in Asks(program) : at[i] = "bad"
  /\ bindings = "cut" => \E i \in Items : at[i] = "writing"
  /\ said \subseteq asked
  /\ status \in {"0", "1"} \/ stage = "idle" => fip = Off

Inv ==
  /\ Types /\ PoolIsRight /\ Window /\ Results /\ Order /\ Stations
  /\ MainIsRight /\ SessionIsRight

----------------------------------------
(* The stages and their items. *)

(* The stages have different names. *)
LEMMA StagesAre ==
  /\ DOMAIN Stages = 1 .. 8
  /\ Stages[1] = "main file" /\ Stages[2] = "first wave" /\ Stages[3] = "second wave"
  /\ Stages[4] = "const data" /\ Stages[5] = "data" /\ Stages[6] = "objects"
  /\ Stages[7] = "functions" /\ Stages[8] = "tests"
  /\ \A r, s \in 1 .. 8 : Stages[r] = Stages[s] => r = s
<1>1. DOMAIN Stages = 1 .. 8
  BY DEF Stages
<1>2. /\ Stages[1] = "main file" /\ Stages[2] = "first wave" /\ Stages[3] = "second wave"
      /\ Stages[4] = "const data" /\ Stages[5] = "data" /\ Stages[6] = "objects"
      /\ Stages[7] = "functions" /\ Stages[8] = "tests"
  BY DEF Stages
<1>3. \A s \in 1 .. 8 : s \in {1, 2, 3, 4, 5, 6, 7, 8}
  OBVIOUS
<1>4. \A r, s \in 1 .. 8 : Stages[r] = Stages[s] => r = s
  BY <1>2, <1>3
<1>. QED BY <1>1, <1>2, <1>4

(* What the assumption says of the program that runs. *)
LEMMA ProgramIs ==
  ASSUME Types
  PROVE  /\ \A s \in 1 .. 8 : program.work[Stages[s]] \in Seq(Items)
         /\ \A r, s \in 1 .. 8 :
              \A m \in DOMAIN program.work[Stages[r]], n \in DOMAIN program.work[Stages[s]] :
                 program.work[Stages[r]][m] = program.work[Stages[s]][n] => r = s /\ m = n
         /\ Len(program.work["main file"]) = 1
         /\ program.does \in [Items -> {"plain", "main", "import", "read", "extern"}]
         /\ \A s \in 1 .. 8 : \A n \in DOMAIN program.work[Stages[s]] :
              program.does[program.work[Stages[s]][n]] \in
                IF s <= 3 THEN {"plain", "main", "import", "read"} ELSE {"plain", "extern"}
         /\ program.fails \subseteq Items /\ program.bad \subseteq Outcomes
         /\ program.fip \in {"none", "idle", "mismatch", "up"} /\ program.project # NoItem
<1>1. IsProgram(program)
  BY DriverAssumption DEF DriverAssumption, Types
<1>2. DOMAIN Stages = 1 .. 8
  BY StagesAre
<1>. QED BY <1>1, <1>2 DEF IsProgram

(* The places of a program's items: an item has one place, and files and
   the other items do different things. *)
LEMMA Places ==
  ASSUME Types, NEW s \in 1 .. 8
  PROVE  /\ ItemsOf(program, Stages[s]) \subseteq Items
         /\ \A r \in 1 .. 8 : \A i : i \in ItemsOf(program, Stages[r])
                                     /\ i \in ItemsOf(program, Stages[s]) => r = s
         /\ \A i \in ItemsOf(program, Stages[s]) :
              program.does[i] \in IF s <= 3 THEN {"plain", "main", "import", "read"}
                                            ELSE {"plain", "extern"}
<1>1. program.work[Stages[s]] \in Seq(Items)
  BY ProgramIs
<1>2. ItemsOf(program, Stages[s]) \subseteq Items
  BY <1>1, LenProperties DEF ItemsOf
<1>3. ASSUME NEW r \in 1 .. 8, NEW i, i \in ItemsOf(program, Stages[r]),
             i \in ItemsOf(program, Stages[s])
      PROVE  r = s
  <2>1. PICK k \in DOMAIN program.work[Stages[r]] : i = program.work[Stages[r]][k]
    BY <1>3 DEF ItemsOf
  <2>2. PICK l \in DOMAIN program.work[Stages[s]] : i = program.work[Stages[s]][l]
    BY <1>3 DEF ItemsOf
  <2>3. \A m \in DOMAIN program.work[Stages[r]], n \in DOMAIN program.work[Stages[s]] :
          program.work[Stages[r]][m] = program.work[Stages[s]][n] => r = s /\ m = n
    BY ProgramIs
  <2>. QED BY <2>1, <2>2, <2>3
<1>4. ASSUME NEW i \in ItemsOf(program, Stages[s])
      PROVE  program.does[i] \in IF s <= 3 THEN {"plain", "main", "import", "read"}
                                           ELSE {"plain", "extern"}
  <2>1. PICK n \in DOMAIN program.work[Stages[s]] : i = program.work[Stages[s]][n]
    BY <1>4 DEF ItemsOf
  <2>. QED BY <2>1, ProgramIs
<1>. QED BY <1>2, <1>3, <1>4

(* The items that the main thread has to handle at a stage. *)
LEMMA WorkIs ==
  ASSUME Types, NEW s \in 1 .. 8
  PROVE  /\ Work(Stages[s]) \in Seq(Items)
         /\ Len(Work(Stages[s])) \in Nat /\ DOMAIN Work(Stages[s]) = 1 .. Len(Work(Stages[s]))
         /\ \A n \in 1 .. Len(Work(Stages[s])) :
              Work(Stages[s])[n] \in Items /\ Work(Stages[s])[n] \in ItemsOf(program, Stages[s])
         /\ \A m, n \in 1 .. Len(Work(Stages[s])) : Work(Stages[s])[m] = Work(Stages[s])[n] => m = n
         /\ ~(mode.serve /\ s = 8) =>
              /\ Work(Stages[s]) = program.work[Stages[s]]
              /\ ItemsOf(program, Stages[s]) = {Work(Stages[s])[n] : n \in 1 .. Len(Work(Stages[s]))}
<1>1. program.work[Stages[s]] \in Seq(Items)
  BY ProgramIs
<1>2. Stages[s] = "tests" <=> s = 8
  <2>1. 8 \in 1 .. 8
    OBVIOUS
  <2>2. Stages[8] = "tests"
    BY StagesAre
  <2>3. Stages[s] = Stages[8] => s = 8
    BY <2>1, StagesAre
  <2>. QED BY <2>2, <2>3
<1>3. CASE mode.serve /\ s = 8
  <2>1. Work(Stages[s]) = <<>>
    BY <1>2, <1>3 DEF Work
  <2>. QED BY <2>1, <1>3
<1>4. CASE ~(mode.serve /\ s = 8)
  <2>. DEFINE w == program.work[Stages[s]]
  <2>1. Work(Stages[s]) = w
    BY <1>2, <1>4 DEF Work
  <2>2. Len(w) \in Nat /\ DOMAIN w = 1 .. Len(w) /\ \A n \in 1 .. Len(w) : w[n] \in Items
    BY <1>1, LenProperties
  <2>3. \A m, n \in 1 .. Len(w) : w[m] = w[n] => m = n
    <3>1. \A r \in 1 .. 8 :
            \A m \in DOMAIN program.work[Stages[r]], n \in DOMAIN program.work[Stages[s]] :
               program.work[Stages[r]][m] = program.work[Stages[s]][n] => r = s /\ m = n
      BY ProgramIs
    <3>2. \A m, n \in DOMAIN w : w[m] = w[n] => m = n
      BY <3>1
    <3>. QED BY <2>2, <3>2
  <2>4. ItemsOf(program, Stages[s]) = {w[n] : n \in 1 .. Len(w)}
    BY <2>2 DEF ItemsOf
  <2>. QED BY <1>1, <2>1, <2>2, <2>3, <2>4
<1>. QED BY <1>3, <1>4

(* The stage the main thread is at. *)
LEMMA StageIs ==
  ASSUME Types, AtStage
  PROVE  \E s \in 1 .. 8 : stage = Stages[s]
BY StagesAre DEF AtStage

(* No stage has more items than there are. *)
LEMMA WorkFits ==
  ASSUME Types, NEW s \in 1 .. 8
  PROVE  Len(Work(Stages[s])) <= Cardinality(Items)
<1>. DEFINE w == Work(Stages[s])
            N == Len(w)
            f == [n \in 1 .. N |-> w[n]]
<1>1. N \in Nat /\ \A n \in 1 .. N : w[n] \in Items
  BY WorkIs
<1>2. \A m, n \in 1 .. N : w[m] = w[n] => m = n
  BY WorkIs
<1>3. IsFiniteSet(Items)
  BY DriverAssumption DEF DriverAssumption
<1>. HIDE DEF N, w
<1>4. f \in Injection(1 .. N, Items)
  BY <1>1, <1>2 DEF Injection, IsInjective
<1>5. IsFiniteSet(1 .. N) /\ Cardinality(1 .. N) = N
  BY <1>1, FS_Interval
<1>6. Cardinality(1 .. N) <= Cardinality(Items)
  BY <1>3, <1>4, <1>5, FS_Injection
<1>. QED BY <1>5, <1>6 DEF N, w

----------------------------------------
(* What programs are spared. *)

(* A finite set with at most one element has no two. *)
LEMMA AtMostOne ==
  ASSUME NEW S, IsFiniteSet(S)
  PROVE  Cardinality(S) <= 1 <=> \A x, y \in S : x = y
<1>1. ASSUME Cardinality(S) <= 1, NEW x \in S, NEW y \in S, x # y
      PROVE  FALSE
  <2>1. IsFiniteSet(S \ {x}) /\ Cardinality(S \ {x}) = Cardinality(S) - 1
    BY FS_RemoveElement
  <2>2. IsFiniteSet((S \ {x}) \ {y}) /\ Cardinality((S \ {x}) \ {y}) = Cardinality(S \ {x}) - 1
    BY <1>1, <2>1, FS_RemoveElement
  <2>3. Cardinality(S) \in Nat /\ Cardinality((S \ {x}) \ {y}) \in Nat
    BY <2>2, FS_CardinalityType
  <2>. QED BY <1>1, <2>1, <2>2, <2>3
<1>2. ASSUME \A x, y \in S : x = y
      PROVE  Cardinality(S) <= 1
  <2>1. CASE S = {}
    <3>1. Cardinality(S) = 0
      BY <2>1, FS_EmptySet
    <3>. QED BY <3>1
  <2>2. CASE S # {}
    <3>1. PICK x : x \in S
      BY <2>2
    <3>2. S = {x}
      BY <1>2, <3>1
    <3>3. Cardinality({x}) = 1
      BY FS_Singleton
    <3>. QED BY <3>2, <3>3
  <2>. QED BY <2>1, <2>2
<1>. QED BY <1>1, <1>2

(* The items of a program are finitely many, and so is any choice of them. *)
LEMMA ItemsAreFinite ==
  ASSUME NEW S \in SUBSET Items
  PROVE  IsFiniteSet(S)
BY FS_Subset, DriverAssumption DEF DriverAssumption

(* In parallel, only the last item of a stage behind the waves fails. *)
LEMMA LastFails ==
  ASSUME DriverCareless = {}, Types, mode.parallel, NEW s \in 4 .. 8,
         NEW n \in 1 .. Len(Work(Stages[s])), Work(Stages[s])[n] \in Failing(program)
  PROVE  n = Len(Work(Stages[s])) /\ (s = 4 => Work(Stages[5]) = <<>>)
<1>1. \A t \in {"const data", "data", "objects", "functions", "tests"} :
        \A k \in DOMAIN program.work[t] : program.work[t][k] \in Failing(program) =>
          k = Len(program.work[t]) /\ (t = "const data" => program.work["data"] = <<>>)
  BY DEF Types, Careful
<1>2. Stages[s] \in {"const data", "data", "objects", "functions", "tests"}
  <2>1. s \in {4, 5, 6, 7, 8}
    OBVIOUS
  <2>. QED BY <2>1, StagesAre
<1>3. s \in 1 .. 8 /\ 5 \in 1 .. 8
  OBVIOUS
<1>4. ~(mode.serve /\ s = 8)
  <2>1. SUFFICES ASSUME mode.serve, s = 8 PROVE FALSE
    OBVIOUS
  <2>2. Work(Stages[s]) = <<>>
    BY <2>1, StagesAre DEF Work
  <2>. QED BY <2>2
<1>5. Work(Stages[s]) = program.work[Stages[s]] /\ Work(Stages[5]) = program.work[Stages[5]]
  <2>1. ~(mode.serve /\ 5 = 8)
    OBVIOUS
  <2>. QED BY <1>3, <1>4, <2>1, WorkIs
<1>6. n \in DOMAIN program.work[Stages[s]]
  BY <1>3, <1>5, WorkIs
<1>7. /\ n = Len(program.work[Stages[s]])
      /\ Stages[s] = "const data" => program.work["data"] = <<>>
  BY <1>1, <1>2, <1>5, <1>6
<1>8. Stages[4] = "const data" /\ Stages[5] = "data"
  BY StagesAre
<1>. QED BY <1>5, <1>7, <1>8

(* In parallel, one file of a wave at most defines main, and no file is
   parsed beside one that has it written. *)
LEMMA WavesAreSpared ==
  ASSUME DriverCareless = {}, Types, mode.parallel, NEW s \in {2, 3},
         NEW i \in ItemsOf(program, Stages[s]), NEW j \in ItemsOf(program, Stages[s])
  PROVE  /\ program.does[i] = "main" /\ program.does[j] = "main" => i = j
         /\ ~(program.does[i] = "import" /\ program.does[j] = "read")
<1>1. Stages[s] \in Waves
  BY StagesAre DEF Waves
<1>2. Cardinality({k \in ItemsOf(program, Stages[s]) : program.does[k] = "main"}) <= 1
  BY <1>1 DEF Types, Careful
<1>3. ItemsOf(program, Stages[s]) \subseteq Items
  <2>1. s \in 1 .. 8
    OBVIOUS
  <2>. QED BY <2>1, Places
<1>4. IsFiniteSet({k \in ItemsOf(program, Stages[s]) : program.does[k] = "main"})
  BY <1>3, ItemsAreFinite
<1>5. program.does[i] = "main" /\ program.does[j] = "main" => i = j
  BY <1>2, <1>4, AtMostOne
<1>6. ~(program.does[i] = "import" /\ program.does[j] = "read")
  BY <1>1 DEF Types, Careful
<1>. QED BY <1>5, <1>6

(* Modules of another version are wanted by one import of a wave. *)
LEMMA MismatchIsSpared ==
  ASSUME DriverCareless = {}, Types, program.fip = "mismatch"
  PROVE  /\ \A i \in Items : program.does[i] # "extern"
         /\ \A s \in {2, 3} : \A i, j \in ItemsOf(program, Stages[s]) \cap Asks(program) : i = j
<1>1. \A i \in Items : program.does[i] # "extern"
  BY DEF Types, Careful
<1>2. ASSUME NEW s \in {2, 3}
      PROVE  \A i, j \in ItemsOf(program, Stages[s]) \cap Asks(program) : i = j
  <2>1. Stages[s] \in Waves
    BY StagesAre DEF Waves
  <2>2. Cardinality(ItemsOf(program, Stages[s]) \cap Asks(program)) <= 1
    BY <2>1 DEF Types, Careful
  <2>3. ItemsOf(program, Stages[s]) \cap Asks(program) \subseteq Items
    BY DEF Asks
  <2>4. IsFiniteSet(ItemsOf(program, Stages[s]) \cap Asks(program))
    BY <2>3, ItemsAreFinite
  <2>. QED BY <2>2, <2>4, AtMostOne
<1>. QED BY <1>1, <1>2

(* A server whose types fail has no import of a tag. *)
LEMMA LeftIsSpared ==
  ASSUME DriverCareless = {}, Types, mode.serve, "types" \in program.bad
  PROVE  \A s \in 1 .. 3 : \A i \in ItemsOf(program, Stages[s]) : i \notin Asks(program)
<1>1. \A s \in Waves \cup {"main file"} : \A i \in ItemsOf(program, s) : program.does[i] # "import"
  BY DEF Types, Careful
<1>2. ASSUME NEW s \in 1 .. 3, NEW i \in ItemsOf(program, Stages[s])
      PROVE  i \notin Asks(program)
  <2>1. s \in 1 .. 8 /\ s <= 3 /\ s \in {1, 2, 3}
    OBVIOUS
  <2>2. Stages[s] \in Waves \cup {"main file"}
    BY <2>1, StagesAre DEF Waves
  <2>3. program.does[i] # "import"
    BY <1>1, <2>2
  <2>4. program.does[i] \in {"plain", "main", "import", "read"}
    BY <2>1, Places
  <2>. QED BY <2>3, <2>4 DEF Asks
<1>. QED BY <1>2

(* No file of a server's first wave fails, for itself or for its main, if
   there are files behind it. *)
LEMMA GraphIsSpared ==
  ASSUME DriverCareless = {}, Types, mode.serve, Work(Stages[3]) # <<>>
  PROVE  /\ ItemsOf(program, Stages[2]) \cap Failing(program) = {}
         /\ \A i, j \in ItemsOf(program, Stages[1]) \cup ItemsOf(program, Stages[2]) :
              program.does[i] = "main" /\ program.does[j] = "main" => i = j
<1>. DEFINE files == ItemsOf(program, "main file") \cup ItemsOf(program, "first wave")
            mains == {i \in files : program.does[i] = "main"}
<1>1. Stages[1] = "main file" /\ Stages[2] = "first wave" /\ Stages[3] = "second wave"
  BY StagesAre
<1>2. program.work["second wave"] # <<>>
  BY <1>1 DEF Work
<1>3. /\ ItemsOf(program, "first wave") \cap Failing(program) = {}
      /\ Cardinality(mains) <= 1
  BY <1>2 DEF Types, Careful
<1>4. files \subseteq Items
  <2>1. 1 \in 1 .. 8 /\ 2 \in 1 .. 8
    OBVIOUS
  <2>. QED BY <1>1, <2>1, Places
<1>5. \A i, j \in mains : i = j
  BY <1>3, <1>4, ItemsAreFinite, AtMostOne
<1>. QED BY <1>1, <1>3, <1>5

(* The other places of the main thread are no stages. *)
LEMMA StageIsNoOther ==
  ASSUME Types, AtStage
  PROVE  /\ stage \notin Later
         /\ stage \notin {"failed", "shutdown 1", "exit", "cleanup", "idle", "left"}
<1>1. PICK s \in 1 .. 8 : stage = Stages[s]
  BY StageIs
<1>2. s \in {1, 2, 3, 4, 5, 6, 7, 8}
  OBVIOUS
<1>. QED BY <1>1, <1>2, StagesAre DEF Later

----------------------------------------
(* Items on their way. *)

(* An item on its way is at a place of the stage, in the window. *)
LEMMA BusyPlace ==
  ASSUME Types, Window, NEW i \in Items, at[i] \in Busy
  PROVE  /\ AtStage
         /\ \E s \in 1 .. 8 : stage = Stages[s] /\ i \in ItemsOf(program, Stages[s])
         /\ \E n \in awaited + 1 .. next :
              n \in 1 .. Len(Work(stage)) /\ Work(stage)[n] = i
<1>1. AtStage
  BY DEF Window
<1>2. PICK n \in awaited + 1 .. next : Work(stage)[n] = i
  BY DEF Window
<1>3. PICK s \in 1 .. 8 : stage = Stages[s]
  BY <1>1, StageIs
<1>4. next <= Len(Work(stage)) /\ Len(Work(stage)) \in Nat
  <2>1. Len(Work(Stages[s])) \in Nat
    BY WorkIs
  <2>. QED BY <1>1, <1>3, <2>1 DEF Window
<1>5. next \in Nat /\ awaited \in 0 .. next
  BY DEF Types
<1>6. n \in 1 .. Len(Work(stage))
  BY <1>2, <1>4, <1>5
<1>7. i \in ItemsOf(program, Stages[s])
  BY <1>2, <1>3, <1>6, WorkIs
<1>. QED BY <1>1, <1>2, <1>3, <1>6, <1>7

(* Two items are on their way only in parallel, and in the same stage. *)
LEMMA BusyPair ==
  ASSUME Types, Window, NEW i \in Items, at[i] \in Busy, NEW j \in Items, at[j] \in Busy, i # j
  PROVE  /\ mode.parallel
         /\ \E s \in 2 .. 8 :
              /\ stage = Stages[s] /\ {i, j} \subseteq ItemsOf(program, Stages[s])
              /\ \E m, n \in 1 .. Len(Work(Stages[s])) :
                   Work(Stages[s])[m] = i /\ Work(Stages[s])[n] = j
<1>1. AtStage
  BY BusyPlace
<1>2. PICK s \in 1 .. 8 : stage = Stages[s]
  BY <1>1, StageIs
<1>3. PICK m \in awaited + 1 .. next : m \in 1 .. Len(Work(stage)) /\ Work(stage)[m] = i
  BY BusyPlace
<1>4. PICK n \in awaited + 1 .. next : n \in 1 .. Len(Work(stage)) /\ Work(stage)[n] = j
  BY BusyPlace
<1>5. m # n
  BY <1>3, <1>4
<1>6. InParallel
  <2>1. SUFFICES ASSUME ~InParallel PROVE FALSE
    OBVIOUS
  <2>2. awaited = next \/ next = awaited + 1
    BY <1>1, <2>1 DEF Window
  <2>3. next \in Nat /\ awaited \in Nat
    BY DEF Types
  <2>. QED BY <1>3, <1>4, <1>5, <2>2, <2>3
<1>7. s # 1
  BY <1>2, <1>6, StagesAre DEF InParallel
<1>8. i \in ItemsOf(program, Stages[s]) /\ j \in ItemsOf(program, Stages[s])
  <2>1. \A k \in 1 .. Len(Work(Stages[s])) : Work(Stages[s])[k] \in ItemsOf(program, Stages[s])
    BY WorkIs
  <2>. QED BY <1>2, <1>3, <1>4, <2>1
<1>9. s \in 2 .. 8
  BY <1>7
<1>10. mode.parallel
  BY <1>6 DEF InParallel
<1>11. \E k, l \in 1 .. Len(Work(Stages[s])) : Work(Stages[s])[k] = i /\ Work(Stages[s])[l] = j
  BY <1>2, <1>3, <1>4
<1>. QED BY <1>2, <1>8, <1>9, <1>10, <1>11

(* What two items on their way do. *)
LEMMA BusyPairs ==
  ASSUME DriverCareless = {}, Types, Window,
         NEW i \in Items, at[i] \in Busy, NEW j \in Items, at[j] \in Busy, i # j
  PROVE  /\ ~(program.does[i] = "main" /\ program.does[j] = "main")
         /\ ~(program.does[i] = "import" /\ program.does[j] = "read")
         /\ program.does[i] = "extern" => ~(i \in Failing(program) /\ j \in Failing(program))
<1>1. mode.parallel
  BY BusyPair
<1>2. PICK s \in 2 .. 8 :
        /\ stage = Stages[s] /\ {i, j} \subseteq ItemsOf(program, Stages[s])
        /\ \E m, n \in 1 .. Len(Work(Stages[s])) :
             Work(Stages[s])[m] = i /\ Work(Stages[s])[n] = j
  BY BusyPair
<1>3. s \in 1 .. 8
  OBVIOUS
<1>4. program.does[i] \in IF s <= 3 THEN {"plain", "main", "import", "read"} ELSE {"plain", "extern"}
  BY <1>2, <1>3, Places
<1>5. CASE s <= 3
  <2>1. s \in {2, 3}
    BY <1>5
  <2>2. /\ ~(program.does[i] = "main" /\ program.does[j] = "main")
        /\ ~(program.does[i] = "import" /\ program.does[j] = "read")
    BY <1>1, <1>2, <2>1, WavesAreSpared
  <2>. QED BY <1>4, <1>5, <2>2
<1>6. CASE ~(s <= 3)
  <2>1. s \in 4 .. 8
    BY <1>6
  <2>2. PICK m, n \in 1 .. Len(Work(Stages[s])) : Work(Stages[s])[m] = i /\ Work(Stages[s])[n] = j
    BY <1>2
  <2>3. i \in Failing(program) => m = Len(Work(Stages[s]))
    BY <1>1, <2>1, <2>2, LastFails
  <2>4. j \in Failing(program) => n = Len(Work(Stages[s]))
    BY <1>1, <2>1, <2>2, LastFails
  <2>. QED BY <1>4, <1>6, <2>2, <2>3, <2>4
<1>. QED BY <1>5, <1>6

(* An item that has been begun is at a place of the stage or behind it. *)
LEMMA BegunPlace ==
  ASSUME Types, Window, Order, NEW s \in 1 .. 8, stage = Stages[s], NEW i \in Items, at[i] # "open"
  PROVE  \E r \in 1 .. s : i \in ItemsOf(program, Stages[r])
<1>1. CASE \E r \in 1 .. s - 1 : i \in ItemsOf(program, Stages[r])
  BY <1>1
<1>2. CASE \E n \in 1 .. next : Work(stage)[n] = i
  <2>1. AtStage
    BY StagesAre DEF AtStage
  <2>2. next <= Len(Work(Stages[s])) /\ next \in Nat /\ Len(Work(Stages[s])) \in Nat
    BY <2>1, WorkIs DEF Window, Types
  <2>3. PICK n \in 1 .. Len(Work(Stages[s])) : Work(Stages[s])[n] = i
    BY <1>2, <2>2
  <2>4. i \in ItemsOf(program, Stages[s])
    BY <2>3, WorkIs
  <2>. QED BY <2>4
<1>3. s \in DOMAIN Stages
  BY StagesAre
<1>. QED BY <1>1, <1>2, <1>3 DEF Order

(* No import is on its way when another one has found modules of another
   version. *)
LEMMA NoAskAfterMismatch ==
  ASSUME DriverCareless = {}, Types, Window, Order, program.fip = "mismatch",
         NEW i \in Asks(program), at[i] \in Busy, NEW j \in Asks(program), at[j] = "bad"
  PROVE  FALSE
<1>1. i \in Items /\ j \in Items
  BY DEF Asks
<1>2. program.does[i] = "import" /\ program.does[j] = "import"
  BY <1>1, MismatchIsSpared DEF Asks
<1>3. PICK s \in 1 .. 8 : stage = Stages[s] /\ i \in ItemsOf(program, Stages[s])
  BY <1>1, BusyPlace
<1>4. PICK r \in 1 .. s : j \in ItemsOf(program, Stages[r])
  BY <1>1, <1>3, BegunPlace
<1>5. s <= 3
  BY <1>2, <1>3, Places
<1>6. r = s
  <2>1. SUFFICES ASSUME r \in 1 .. s - 1 PROVE FALSE
    OBVIOUS
  <2>2. s \in DOMAIN Stages /\ stage # "data"
    <3>1. s \in {1, 2, 3}
      BY <1>5
    <3>. QED BY <1>3, <3>1, StagesAre
  <2>3. at[j] = "good"
    BY <1>3, <1>4, <1>5, <2>1, <2>2 DEF Order
  <2>. QED BY <2>3
<1>7. i # j
  BY DEF Busy
<1>8. s \in {2, 3}
  <2>1. SUFFICES ASSUME s = 1 PROVE FALSE
    BY <1>5
  <2>2. Len(Work(Stages[s])) = 1
    <3>1. Work(Stages[s]) = program.work["main file"]
      BY <2>1, StagesAre DEF Work
    <3>. QED BY <3>1, ProgramIs
  <2>3. ItemsOf(program, Stages[s]) = {Work(Stages[s])[n] : n \in 1 .. Len(Work(Stages[s]))}
    BY <2>1, WorkIs
  <2>4. 1 .. Len(Work(Stages[s])) = {1}
    BY <2>2
  <2>. QED BY <1>3, <1>4, <1>6, <1>7, <2>3, <2>4
<1>. QED BY <1>3, <1>4, <1>6, <1>7, <1>8, MismatchIsSpared

----------------------------------------
(* A step of an item. *)

(* What a step of the item i may do with the main thread and the items. *)
Moves(i, w) ==
  /\ at[i] \in Busy /\ w \in Busy \cup {"good", "bad"}
  /\ at' = [at EXCEPT ![i] = w]
  /\ UNCHANGED <<whole, thread, live, status>> /\ status = "none"

(* What does not depend on the items stays when the program does. *)
LEMMA WholeStays ==
  ASSUME UNCHANGED whole
  PROVE  /\ mode' = mode /\ program' = program /\ requests' = requests
         /\ \A s : Work(s)' = Work(s)
         /\ \A s : ItemsOf(program, s)' = ItemsOf(program, s)
         /\ Due' = Due /\ Mains' = Mains /\ Ailing' = Ailing
         /\ Asks(program)' = Asks(program) /\ Failing(program)' = Failing(program)
<1>1. mode' = mode /\ program' = program /\ requests' = requests
  BY DEF whole
<1>2. \A s : Work(s)' = Work(s)
  BY <1>1 DEF Work
<1>3. \A s : ItemsOf(program, s)' = ItemsOf(program, s)
  BY <1>1 DEF ItemsOf
<1>4. Asks(program)' = Asks(program) /\ Failing(program)' = Failing(program)
  BY <1>1 DEF Failing, Asks
<1>5. Due' = Due
  BY <1>1 DEF Due, ItemsOf
<1>6. Mains' = Mains
  BY <1>1, <1>5 DEF Mains
<1>7. Ailing' = Ailing
  BY <1>1, <1>4, <1>5, <1>6 DEF Ailing
<1>. QED BY <1>1, <1>2, <1>3, <1>4, <1>5, <1>6, <1>7

(* One item is somewhere else, the main thread is where it was. *)
LEMMA MoveIs ==
  ASSUME Types, NEW i \in Items, NEW w, Moves(i, w)
  PROVE  /\ at' \in [Items -> {"open"} \cup Busy \cup {"good", "bad"}]
         /\ at'[i] = w /\ \A j \in Items : j # i => at'[j] = at[j]
         /\ stage' = stage /\ next' = next /\ awaited' = awaited /\ result' = result /\ here' = here
         /\ live' = live /\ status' = status /\ UNCHANGED whole
         /\ AtStage' = AtStage /\ InParallel' = InParallel /\ Work(stage)' = Work(stage)
         /\ Short(stage)' = Short(stage)
<1>1. at \in [Items -> {"open"} \cup Busy \cup {"good", "bad"}]
  BY DEF Types
<1>2. /\ at' \in [Items -> {"open"} \cup Busy \cup {"good", "bad"}]
      /\ at'[i] = w /\ \A j \in Items : j # i => at'[j] = at[j]
  BY <1>1 DEF Moves
<1>3. /\ stage' = stage /\ next' = next /\ awaited' = awaited /\ result' = result /\ here' = here
      /\ live' = live /\ status' = status /\ UNCHANGED whole
  BY DEF Moves, thread
<1>4. mode' = mode /\ program' = program
  BY <1>3, WholeStays
<1>5. AtStage' = AtStage /\ InParallel' = InParallel /\ Work(stage)' = Work(stage)
  BY <1>3, <1>4 DEF AtStage, InParallel, Work
<1>6. Short(stage)' = Short(stage)
  BY <1>3 DEF Short
<1>. QED BY <1>2, <1>3, <1>5, <1>6

(* The main thread's window, results, order and stations stay right. *)
LEMMA MoveKeeps ==
  ASSUME Types, Window, Results, Order, Stations, NEW i \in Items, NEW w, Moves(i, w)
  PROVE  Window' /\ Results' /\ Order' /\ Stations'
<1>1. /\ at'[i] = w /\ \A j \in Items : j # i => at'[j] = at[j]
      /\ stage' = stage /\ next' = next /\ awaited' = awaited /\ result' = result /\ here' = here
      /\ live' = live /\ status' = status /\ status = "none"
      /\ AtStage' = AtStage /\ InParallel' = InParallel /\ Work(stage)' = Work(stage)
      /\ Short(stage)' = Short(stage)
  BY MoveIs DEF Moves
<1>2. /\ mode' = mode /\ program' = program
      /\ \A s : ItemsOf(program, s)' = ItemsOf(program, s)
      /\ Due' = Due /\ Mains' = Mains /\ Ailing' = Ailing
  BY MoveIs, WholeStays
<1>3. /\ at[i] \in Busy /\ w \in Busy \cup {"good", "bad"}
      /\ at[i] # "open" /\ at[i] # "good" /\ at[i] # "bad" /\ w # "open"
  BY DEF Moves, Busy
<1>4. AtStage
  BY <1>3, BusyPlace
<1>5. PICK s \in 1 .. 8 : stage = Stages[s] /\ i \in ItemsOf(program, Stages[s])
  BY <1>3, BusyPlace
<1>6. Window'
  <2>1. \A j \in Items : at'[j] \in Busy => at[j] \in Busy
    BY <1>1, <1>3
  <2>. QED BY <1>1, <2>1 DEF Window
<1>7. Results'
  <2>1. Len(Work(stage)) \in Nat
        /\ \A n \in 1 .. Len(Work(stage)) : Work(stage)[n] \in Items
    BY <1>5, WorkIs
  <2>2. next <= Len(Work(stage)) /\ next \in Nat /\ awaited \in 0 .. next
    BY <1>4 DEF Window, Types
  <2>3. PICK m \in awaited + 1 .. next : m \in 1 .. Len(Work(stage)) /\ Work(stage)[m] = i
    BY <1>3, BusyPlace
  <2>4. \A n \in 1 .. awaited : n \in 1 .. Len(Work(stage)) /\ n # m
    BY <2>1, <2>2
  <2>5. \A n \in 1 .. awaited : Work(stage)[n] \in Items /\ Work(stage)[n] # i
    BY <1>5, <2>3, <2>4, WorkIs
  <2>6. \A n \in 1 .. awaited : at'[Work(stage)[n]] = at[Work(stage)[n]]
    BY <1>1, <2>5
  <2>7. \A n \in 1 .. next : n \in 1 .. Len(Work(stage))
    BY <2>1, <2>2
  <2>8. \A n \in 1 .. next : at[Work(stage)[n]] # "open" => at'[Work(stage)[n]] # "open"
    BY <1>1, <1>3, <2>1, <2>7
  <2>9. \A j \in Items : at[j] = "bad" => at'[j] = "bad"
    BY <1>1, <1>3
  <2>10. AtStage' /\ result' => \A n \in 1 .. awaited' : at'[Work(stage)'[n]] = "good"
    BY <1>1, <2>6 DEF Results
  <2>11. AtStage' /\ ~result' => \/ \E n \in 1 .. awaited' : at'[Work(stage)'[n]] = "bad"
                                 \/ stage' = "data" /\ \E j \in Items : at'[j] = "bad"
    BY <1>1, <2>6, <2>9 DEF Results
  <2>. QED BY <1>1, <2>8, <2>10, <2>11 DEF Results
<1>8. Order'
  <2>1. \A j \in Items : at'[j] # "open" => at[j] # "open"
    BY <1>1, <1>3
  <2>2. \A j \in Items : at[j] = "good" => at'[j] = "good"
    BY <1>1, <1>3
  <2>3. \A r \in DOMAIN Stages : ItemsOf(program, Stages[r]) \subseteq Items
    BY StagesAre, Places
  <2>4. \A r \in DOMAIN Stages : \A q \in 1 .. r - 1 : q \in DOMAIN Stages
    <3>1. DOMAIN Stages = 1 .. 8
      BY StagesAre
    <3>. QED BY <3>1
  <2>. QED BY <1>1, <1>2, <2>1, <2>2, <2>3, <2>4 DEF Order
<1>9. Stations'
  <2>1. \A j \in Items : at'[j] # "open" => at[j] # "open"
    BY <1>1, <1>3
  <2>2. stage \notin Later /\ stage \notin {"failed", "shutdown 1", "left", "cleanup", "idle", "exit"}
    BY <1>4, StageIsNoOther
  <2>. QED BY <1>1, <1>2, <2>1, <2>2 DEF Stations
<1>. QED BY <1>6, <1>7, <1>8, <1>9

(* The pool stays right when an item goes on and when it ends. *)
LEMMA StepKeepsPool ==
  ASSUME Types, PoolIsRight, NEW i \in Items, at[i] \in Busy \ {"queued"}, NEW w \in Busy,
         Reaches(i, w), UNCHANGED pool
  PROVE  PoolIsRight' /\ waiting' \in Seq(Items) /\ running' \subseteq Items
<1>1. at \in [Items -> {"open"} \cup Busy \cup {"good", "bad"}]
  BY DEF Types
<1>2. at'[i] = w /\ \A j \in Items : j # i => at'[j] = at[j]
  BY <1>1 DEF Reaches
<1>3. waiting' = waiting /\ running' = running
  BY DEF pool
<1>4. waiting \in Seq(Items) /\ running \subseteq Items
  BY DEF Types
<1>5. \A n \in DOMAIN waiting : waiting[n] \in Items
  BY <1>4, LenProperties
<1>. QED BY <1>2, <1>3, <1>4, <1>5 DEF PoolIsRight

(* An item that ends leaves the pool as it should be. *)
LEMMA EndKeepsPool ==
  ASSUME Types, PoolIsRight, NEW i \in Items, at[i] \in Busy \ {"queued"}, NEW w, End(i, w)
  PROVE  PoolIsRight' /\ waiting' \in Seq(Items) /\ running' \subseteq Items
<1>1. at \in [Items -> {"open"} \cup Busy \cup {"good", "bad"}]
  BY DEF Types
<1>2. at'[i] = w /\ \A j \in Items : j # i => at'[j] = at[j]
  BY <1>1 DEF End, Reaches
<1>3. waiting' = waiting /\ running' = running \ {i}
  <2>1. CASE i \in running
    BY <2>1 DEF End, Pool!Complete
  <2>2. CASE i \notin running
    BY <2>2 DEF End, pool
  <2>. QED BY <2>1, <2>2
<1>4. waiting \in Seq(Items) /\ running \subseteq Items
  BY DEF Types
<1>5. \A n \in DOMAIN waiting : waiting[n] \in Items
  BY <1>4, LenProperties
<1>. QED BY <1>2, <1>3, <1>4, <1>5 DEF PoolIsRight

(* The types stay when those of what the step changes do. *)
LEMMA MoveKeepsTypes ==
  ASSUME Types, NEW i \in Items, NEW w, Moves(i, w),
         waiting' \in Seq(Items), running' \subseteq Items, main_function' \in BOOLEAN,
         fip' \in Sessions, holder' \in Items \cup {NoItem},
         bindings' \in {"absent", "cut", "whole"}, asked' \subseteq Items
  PROVE  Types'
<1>1. /\ at' \in [Items -> {"open"} \cup Busy \cup {"good", "bad"}]
      /\ stage' = stage /\ next' = next /\ awaited' = awaited /\ result' = result /\ here' = here
      /\ live' = live /\ status' = status /\ UNCHANGED whole
  BY MoveIs
<1>2. mode' = mode /\ program' = program /\ requests' = requests
  BY <1>1, WholeStays
<1>3. Careful(mode, program)' = Careful(mode, program)
  BY <1>2 DEF Careful, ItemsOf, Failing, Asks
<1>. QED BY <1>1, <1>2, <1>3 DEF Types, Sessions, AllStages, Later

(* What is known of main stays when main_function does and the item is not
   at defining it, does not succeed as a main, and fails for a reason. *)
LEMMA MoveKeepsMain ==
  ASSUME Types, MainIsRight, NEW i \in Items, NEW w, Moves(i, w),
         main_function' = main_function,
         at[i] # "defining", w # "defining",
         w = "good" => program.does[i] # "main" /\ i \notin Failing(program),
         w = "bad" => i \in Failing(program) \/ (program.does[i] = "main" /\ main_function)
  PROVE  MainIsRight'
<1>1. /\ at'[i] = w /\ \A j \in Items : j # i => at'[j] = at[j]
      /\ AtStage' = AtStage
  BY MoveIs
<1>2. program' = program /\ Failing(program)' = Failing(program)
  BY MoveIs, WholeStays
<1>3. at[i] \notin {"open", "good", "bad"}
  BY DEF Moves, Busy
<1>4. \A j \in Items : at[j] \in {"good", "bad"} => j # i /\ at'[j] = at[j]
  BY <1>1, <1>3
<1>5. \A j \in Items : at'[j] = "defining" => j # i /\ at[j] = "defining"
  BY <1>1
<1>6. \A j \in Items : at'[j] = "good" => at[j] = "good" \/ program.does[j] # "main"
  BY <1>1
<1>7. \A j \in Items : at'[j] = "good" => j \notin Failing(program)
  BY <1>1 DEF MainIsRight
<1>8. ASSUME NEW j \in Items, at'[j] = "bad"
      PROVE  \/ j \in Failing(program)
             \/ program.does[j] = "main"
                /\ \E k \in Items : k # j /\ program.does[k] = "main" /\ at'[k] \in {"good", "bad"}
  <2>1. CASE j = i
    <3>1. SUFFICES ASSUME program.does[i] = "main", main_function
                   PROVE  \E k \in Items : k # i /\ program.does[k] = "main" /\ at'[k] \in {"good", "bad"}
      BY <1>1, <1>8, <2>1
    <3>2. PICK k \in Items : program.does[k] = "main" /\ at[k] \in {"good", "bad"}
      BY <3>1 DEF MainIsRight
    <3>. QED BY <1>4, <3>2
  <2>2. CASE j # i
    <3>1. at[j] = "bad"
      BY <1>1, <1>8, <2>2
    <3>. QED BY <3>1, <1>4 DEF MainIsRight
  <2>. QED BY <2>1, <2>2
<1>9. main_function' => \E j \in Items : program'.does[j] = "main" /\ at'[j] \in {"good", "bad"}
  BY <1>2, <1>4 DEF MainIsRight
<1>10. \A j \in Items : at'[j] = "defining" => program'.does[j] = "main" /\ ~main_function'
  BY <1>2, <1>5 DEF MainIsRight
<1>11. AtStage' => \A j \in Items : program'.does[j] = "main" /\ at'[j] = "good" => main_function'
  BY <1>1, <1>2, <1>6 DEF MainIsRight
<1>12. \A j, k \in Items : /\ program'.does[j] = "main" /\ program'.does[k] = "main"
                           /\ at'[j] \in {"defining", "good"} /\ at'[k] \in {"defining", "good"}
                           => j = k
  BY <1>2, <1>5, <1>6 DEF MainIsRight
<1>. QED BY <1>2, <1>7, <1>8, <1>9, <1>10, <1>11, <1>12 DEF MainIsRight

(* What is known of the session stays when it does and the item neither
   uses it nor comes to. *)
LEMMA MoveKeepsSession ==
  ASSUME Types, SessionIsRight, NEW i \in Items, NEW w, Moves(i, w), UNCHANGED session,
         at[i] \in {"queued", "running", "defining"},
         w \in {"queued", "running", "defining", "good", "bad"}
  PROVE  SessionIsRight'
<1>1. /\ at'[i] = w /\ \A j \in Items : j # i => at'[j] = at[j]
      /\ stage' = stage /\ status' = status
  BY MoveIs
<1>2. /\ program' = program /\ Failing(program)' = Failing(program)
      /\ Asks(program)' = Asks(program)
  BY MoveIs, WholeStays
<1>3. /\ fip' = fip /\ holder' = holder /\ bindings' = bindings
      /\ asked' = asked /\ said' = said
  BY DEF session
<1>4. \A j \in Items : at'[j] \in {"starting", "asking", "writing", "reporting"}
                         => at'[j] = at[j]
  BY <1>1
<1>5. \A j \in Items : at[j] \in {"starting", "writing", "bad"} => at'[j] = at[j]
  BY <1>1
<1>6. \A j \in Items : at[j] # "open" => at'[j] # "open"
  BY <1>1
<1>7. Asks(program) \subseteq Items
  BY DEF Asks
<1>8. fip' # Off =>
       /\ fip'.active
       /\ \E j \in Asks(program) : at'[j] # "open"
       /\ \/ fip'.modules = "off" /\ \E j \in Items : at'[j] = "starting"
          \/ fip'.modules = "up" /\ fip'.of = program.project /\ program.fip = "up"
          \/ /\ fip'.modules = "mismatch" /\ program.fip = "mismatch"
             /\ \E j \in Asks(program) : at'[j] = "bad"
  <2>. SUFFICES ASSUME fip # Off
                PROVE  /\ fip.active
                       /\ \E j \in Asks(program) : at'[j] # "open"
                       /\ \/ fip.modules = "off" /\ \E j \in Items : at'[j] = "starting"
                          \/ fip.modules = "up" /\ fip.of = program.project /\ program.fip = "up"
                          \/ /\ fip.modules = "mismatch" /\ program.fip = "mismatch"
                             /\ \E j \in Asks(program) : at'[j] = "bad"
    BY <1>3
  <2>1. fip.active /\ \E j \in Asks(program) : at'[j] # "open"
    BY <1>6, <1>7 DEF SessionIsRight
  <2>2. CASE fip.modules = "off" /\ \E j \in Items : at[j] = "starting"
    BY <1>5, <2>1, <2>2
  <2>3. CASE fip.modules = "up" /\ fip.of = program.project /\ program.fip = "up"
    BY <2>1, <2>3
  <2>4. CASE /\ fip.modules = "mismatch" /\ program.fip = "mismatch"
             /\ \E j \in Asks(program) : at[j] = "bad"
    BY <1>5, <1>7, <2>1, <2>4
  <2>. QED BY <2>2, <2>3, <2>4 DEF SessionIsRight
<1>9. bindings' = "cut" => \E j \in Items : at'[j] = "writing"
  BY <1>3, <1>5 DEF SessionIsRight
<1>10. \A j \in Items : at'[j] = "reporting" =>
       /\ program.does[j] = "extern" /\ j \in Failing(program)
       /\ j \in asked \/ (~fip.active /\ program.fip # "up")
  BY <1>4 DEF SessionIsRight
<1>. QED BY <1>1, <1>2, <1>3, <1>4, <1>8, <1>9, <1>10 DEF SessionIsRight

----------------------------------------
(* The steps of items that do not use the session. *)

(* All the conjuncts stay right when those that the step disturbs do. *)
LEMMA MoveKeepsInv ==
  ASSUME Inv, NEW i \in Items, NEW w, Moves(i, w),
         Types', PoolIsRight', MainIsRight', SessionIsRight'
  PROVE  Inv'
BY MoveKeeps DEF Inv

(* The same for a step that leaves main_function and the session. *)
LEMMA PlainMove ==
  ASSUME Inv, NEW i \in Items, NEW w, Moves(i, w), UNCHANGED <<main_function, session>>,
         PoolIsRight', waiting' \in Seq(Items), running' \subseteq Items,
         at[i] \in {"queued", "running"}, w \in {"queued", "running", "good", "bad"},
         w = "good" => program.does[i] # "main" /\ i \notin Failing(program),
         w = "bad" => i \in Failing(program) \/ (program.does[i] = "main" /\ main_function)
  PROVE  Inv'
<1>1. Types /\ MainIsRight /\ SessionIsRight
  BY DEF Inv
<1>2. main_function' = main_function /\ fip' = fip /\ holder' = holder /\ bindings' = bindings
      /\ asked' = asked /\ said' = said
  BY DEF session
<1>3. Types'
  BY <1>1, <1>2, MoveKeepsTypes DEF Types
<1>4. MainIsRight'
  BY <1>1, MoveKeepsMain
<1>5. SessionIsRight'
  BY <1>1, MoveKeepsSession
<1>. QED BY <1>3, <1>4, <1>5, MoveKeepsInv

(* A worker that takes an item finds it queued, and runs it alone. *)
LEMMA PickUpKeeps ==
  ASSUME Inv, PickUp
  PROVE  Inv'
<1>1. Types /\ PoolIsRight
  BY DEF Inv
<1>2. waiting \in Seq(Items) /\ waiting # <<>> /\ running' = running \cup {Head(waiting)}
      /\ waiting' = Tail(waiting)
  BY <1>1 DEF Types, PickUp, Pool!Start
<1>3. PICK i : i = Head(waiting)
  OBVIOUS
<1>4. i \in Items /\ waiting' \in Seq(Items) /\ i = waiting[1] /\ 1 \in DOMAIN waiting
      /\ Len(waiting') = Len(waiting) - 1 /\ Len(waiting) \in Nat /\ DOMAIN waiting = 1 .. Len(waiting)
      /\ DOMAIN waiting' = 1 .. Len(waiting) - 1
      /\ \A n \in 1 .. Len(waiting) - 1 : waiting'[n] = waiting[n + 1]
  <2>1. Len(waiting) \in Nat /\ DOMAIN waiting = 1 .. Len(waiting) /\ Len(waiting) # 0
    BY <1>2, LenProperties, EmptySeq
  <2>2. /\ Head(waiting) \in Items /\ Tail(waiting) \in Seq(Items)
        /\ Len(Tail(waiting)) = Len(waiting) - 1
        /\ \A n \in 1 .. Len(Tail(waiting)) : Tail(waiting)[n] = waiting[n + 1]
    BY <1>2, HeadTailProperties
  <2>3. Head(waiting) = waiting[1] /\ 1 \in DOMAIN waiting
    BY <1>2, <2>1
  <2>4. DOMAIN Tail(waiting) = 1 .. Len(waiting) - 1
    BY <2>2, LenProperties
  <2>. QED BY <1>2, <1>3, <2>1, <2>2, <2>3, <2>4
<1>5. at[i] = "queued"
  BY <1>1, <1>4 DEF PoolIsRight
<1>6. Moves(i, "running")
  BY <1>3, <1>5 DEF Moves, PickUp, Reaches, Busy
<1>7. at'[i] = "running" /\ \A j \in Items : j # i => at'[j] = at[j]
  BY <1>1, <1>4, <1>6, MoveIs
<1>8. PoolIsRight'
  <2>1. \A n \in 1 .. Len(waiting) - 1 :
          /\ n + 1 \in DOMAIN waiting /\ waiting'[n] = waiting[n + 1] /\ waiting'[n] \in Items
          /\ waiting'[n] # i
    <3>1. ASSUME NEW n \in 1 .. Len(waiting) - 1
          PROVE  n + 1 \in DOMAIN waiting /\ n + 1 # 1 /\ waiting'[n] = waiting[n + 1]
      BY <1>4
    <3>2. \A n \in DOMAIN waiting : waiting[n] \in Items
      BY <1>2, LenProperties
    <3>3. \A n \in DOMAIN waiting : waiting[n] = waiting[1] => n = 1
      BY <1>1, <1>4 DEF PoolIsRight
    <3>. QED BY <1>4, <3>1, <3>2, <3>3
  <2>2. ASSUME NEW n \in DOMAIN waiting'
        PROVE  at'[waiting'[n]] = "queued"
    <3>1. n \in 1 .. Len(waiting) - 1
      BY <1>4
    <3>2. n + 1 \in DOMAIN waiting /\ waiting'[n] = waiting[n + 1] /\ waiting'[n] \in Items /\ waiting'[n] # i
      BY <2>1, <3>1
    <3>3. at[waiting[n + 1]] = "queued"
      BY <1>1, <3>2 DEF PoolIsRight
    <3>. QED BY <1>7, <3>2, <3>3
  <2>3. \A m, n \in DOMAIN waiting' : waiting'[m] = waiting'[n] => m = n
    <3>1. ASSUME NEW m \in 1 .. Len(waiting) - 1, NEW n \in 1 .. Len(waiting) - 1,
                 waiting'[m] = waiting'[n]
          PROVE  m = n
      <4>1. m + 1 = n + 1
        BY <1>1, <2>1, <3>1 DEF PoolIsRight
      <4>. QED BY <4>1
    <3>. QED BY <1>4, <3>1
  <2>4. \A j \in running' : at'[j] \in Busy
    BY <1>1, <1>2, <1>3, <1>7 DEF PoolIsRight, Types, Busy
  <2>. QED BY <2>2, <2>3, <2>4 DEF PoolIsRight
<1>9. running' \subseteq Items
  BY <1>1, <1>2, <1>3, <1>4 DEF Types
<1>10. UNCHANGED <<main_function, session>>
  BY DEF PickUp
<1>. QED BY <1>4, <1>5, <1>6, <1>8, <1>9, <1>10, PlainMove

(* An item ends with the verdict the program has for it. *)
LEMMA ParseKeeps ==
  ASSUME Inv, NEW i \in Items, Parse(i)
  PROVE  Inv'
<1>1. Types /\ PoolIsRight
  BY DEF Inv
<1>2. PICK w : w = VerdictOf(i)
  OBVIOUS
<1>3. at[i] = "running" /\ program.does[i] = "plain" /\ End(i, w) /\ UNCHANGED <<main_function, session>>
  BY <1>2 DEF Parse, Running
<1>4. w \in {"good", "bad"} /\ (w = "bad" => i \in program.fails) /\ (w = "good" => i \notin program.fails)
  BY <1>2 DEF VerdictOf
<1>5. Moves(i, w)
  BY <1>3, <1>4 DEF Moves, Parse, Running, End, Reaches, Busy
<1>6. PoolIsRight' /\ waiting' \in Seq(Items) /\ running' \subseteq Items
  BY <1>1, <1>3, EndKeepsPool DEF Busy
<1>7. i \in Failing(program) <=> i \in program.fails
  BY <1>3 DEF Failing, Asks
<1>8. /\ w = "good" => program.does[i] # "main" /\ i \notin Failing(program)
      /\ w = "bad" => i \in Failing(program)
  BY <1>3, <1>4, <1>7
<1>. QED BY <1>3, <1>4, <1>5, <1>6, <1>8, PlainMove

(* No item writes the file of a module tag while another one parses it. *)
LEMMA ParseBindingsKeeps ==
  ASSUME DriverCareless = {}, Inv, NEW i \in Items, ParseBindings(i)
  PROVE  Inv'
<1>1. Types /\ PoolIsRight /\ Window /\ SessionIsRight
  BY DEF Inv
<1>2. at[i] = "running" /\ program.does[i] = "read"
  BY DEF ParseBindings, Running
<1>3. bindings # "cut"
  <2>1. SUFFICES ASSUME NEW j \in Items, at[j] = "writing" PROVE FALSE
    BY <1>1 DEF SessionIsRight
  <2>2. program.does[j] = "import"
    BY <1>1, <2>1 DEF SessionIsRight
  <2>. QED BY <1>1, <1>2, <2>1, <2>2, BusyPairs DEF Busy
<1>4. PICK w : w = VerdictOf(i)
  OBVIOUS
<1>5. End(i, w) /\ UNCHANGED <<main_function, session>>
  BY <1>3, <1>4 DEF ParseBindings
<1>6. w \in {"good", "bad"} /\ (w = "bad" => i \in program.fails) /\ (w = "good" => i \notin program.fails)
  BY <1>4 DEF VerdictOf
<1>7. Moves(i, w)
  BY <1>2, <1>5, <1>6 DEF Moves, ParseBindings, Running, End, Reaches, Busy
<1>8. PoolIsRight' /\ waiting' \in Seq(Items) /\ running' \subseteq Items
  BY <1>1, <1>2, <1>5, EndKeepsPool DEF Busy
<1>9. i \in Failing(program) <=> i \in program.fails
  BY <1>2 DEF Failing, Asks
<1>10. /\ w = "good" => program.does[i] # "main" /\ i \notin Failing(program)
       /\ w = "bad" => i \in Failing(program)
  BY <1>2, <1>6, <1>9
<1>. QED BY <1>2, <1>5, <1>6, <1>7, <1>8, <1>10, PlainMove

(* An item comes to define main when no other one does or has done. *)
LEMMA FindMainKeeps ==
  ASSUME DriverCareless = {}, Inv, NEW i \in Items, FindMain(i)
  PROVE  Inv'
<1>1. Types /\ PoolIsRight /\ Window /\ MainIsRight /\ SessionIsRight
  BY DEF Inv
<1>2. at[i] = "running" /\ program.does[i] = "main" /\ UNCHANGED <<main_function, session>>
  BY DEF FindMain, Running
<1>3. CASE main_function
  <2>1. End(i, "bad")
    BY <1>3 DEF FindMain
  <2>2. Moves(i, "bad")
    BY <1>2, <2>1 DEF Moves, FindMain, Running, End, Reaches, Busy
  <2>3. PoolIsRight' /\ waiting' \in Seq(Items) /\ running' \subseteq Items
    BY <1>1, <1>2, <2>1, EndKeepsPool DEF Busy
  <2>. QED BY <1>2, <1>3, <2>2, <2>3, PlainMove
<1>4. CASE ~main_function
  <2>1. Reaches(i, "defining") /\ UNCHANGED pool
    BY <1>4 DEF FindMain
  <2>2. Moves(i, "defining")
    BY <1>2, <2>1 DEF Moves, FindMain, Running, Reaches, Busy
  <2>3. PoolIsRight' /\ waiting' \in Seq(Items) /\ running' \subseteq Items
    BY <1>1, <1>2, <2>1, StepKeepsPool DEF Busy
  <2>4. SessionIsRight'
    BY <1>1, <1>2, <2>2, MoveKeepsSession
  <2>5. main_function' = main_function /\ fip' = fip /\ holder' = holder /\ bindings' = bindings
        /\ asked' = asked /\ said' = said
    BY <1>2 DEF session
  <2>6. Types'
    BY <1>1, <2>2, <2>3, <2>5, MoveKeepsTypes DEF Types
  <2>7. /\ at'[i] = "defining" /\ \A j \in Items : j # i => at'[j] = at[j]
        /\ AtStage' = AtStage
    BY <1>1, <2>2, MoveIs
  <2>8. program' = program /\ Failing(program)' = Failing(program)
    BY <1>1, <2>2, MoveIs, WholeStays
  <2>9. AtStage
    BY <1>1, <1>2, BusyPlace DEF Busy
  <2>10. \A j \in Items : j # i /\ program.does[j] = "main" => at[j] \notin {"defining", "good"}
    <3>1. ASSUME NEW j \in Items, j # i, program.does[j] = "main", at[j] = "defining"
          PROVE  FALSE
      BY <1>1, <1>2, <3>1, BusyPairs DEF Busy
    <3>. QED BY <1>1, <1>4, <2>9, <3>1 DEF MainIsRight
  <2>11. MainIsRight'
    <3>1. \A j \in Items : at[j] \in {"good", "bad"} <=> at'[j] \in {"good", "bad"}
      BY <1>2, <2>7
    <3>2. \A j \in Items : at'[j] \in {"good", "bad"} => at'[j] = at[j] /\ j # i
      BY <2>7
    <3>3. \A j, k \in Items : /\ program.does[j] = "main" /\ program.does[k] = "main"
                              /\ at'[j] \in {"defining", "good"} /\ at'[k] \in {"defining", "good"}
                              => j = k
      BY <2>7, <2>10
    <3>4. \A j \in Items : at'[j] = "bad" =>
             \/ j \in Failing(program)
             \/ program.does[j] = "main"
                /\ \E k \in Items : k # j /\ program.does[k] = "main" /\ at'[k] \in {"good", "bad"}
      BY <1>1, <3>1, <3>2 DEF MainIsRight
    <3>5. \A j \in Items : at'[j] = "defining" => program.does[j] = "main" /\ ~main_function
      BY <1>1, <1>2, <1>4, <2>7 DEF MainIsRight
    <3>. QED BY <1>1, <1>4, <2>5, <2>7, <2>8, <3>1, <3>2, <3>3, <3>4, <3>5 DEF MainIsRight
  <2>. QED BY <2>2, <2>3, <2>4, <2>6, <2>11, MoveKeepsInv
<1>. QED BY <1>3, <1>4

(* Storing main does not crash: no item has stored one in between. *)
LEMMA StoreMainKeeps ==
  ASSUME Inv, NEW i \in Items, StoreMain(i)
  PROVE  Inv'
<1>1. Types /\ PoolIsRight /\ Window /\ MainIsRight /\ SessionIsRight
  BY DEF Inv
<1>2. at[i] = "defining" /\ program.does[i] = "main" /\ ~main_function
  BY <1>1 DEF StoreMain, MainIsRight
<1>3. PICK w : w = VerdictOf(i)
  OBVIOUS
<1>4. End(i, w) /\ main_function' = TRUE /\ UNCHANGED session /\ UNCHANGED status
  BY <1>2, <1>3 DEF StoreMain
<1>5. w \in {"good", "bad"} /\ (w = "bad" => i \in program.fails) /\ (w = "good" => i \notin program.fails)
  BY <1>3 DEF VerdictOf
<1>6. Moves(i, w)
  BY <1>2, <1>4, <1>5 DEF Moves, StoreMain, End, Reaches, Busy
<1>7. PoolIsRight' /\ waiting' \in Seq(Items) /\ running' \subseteq Items
  BY <1>1, <1>2, <1>4, EndKeepsPool DEF Busy
<1>8. SessionIsRight'
  BY <1>1, <1>2, <1>4, <1>5, <1>6, MoveKeepsSession
<1>9. fip' = fip /\ holder' = holder /\ bindings' = bindings /\ asked' = asked /\ said' = said
  BY <1>4 DEF session
<1>10. Types'
  BY <1>1, <1>4, <1>6, <1>7, <1>9, MoveKeepsTypes DEF Types
<1>11. /\ at'[i] = w /\ \A j \in Items : j # i => at'[j] = at[j]
       /\ AtStage' = AtStage
  BY <1>1, <1>6, MoveIs
<1>12. program' = program /\ Failing(program)' = Failing(program)
  BY <1>1, <1>6, MoveIs, WholeStays
<1>13. MainIsRight'
  <2>1. \A j \in Items : at'[j] # "defining"
    <3>1. ASSUME NEW j \in Items, j # i, at[j] = "defining"
          PROVE  FALSE
      BY <1>1, <1>2, <3>1 DEF MainIsRight
    <3>. QED BY <1>5, <1>11, <3>1
  <2>2. \A j \in Items : at[j] \in {"good", "bad"} => at'[j] = at[j]
    BY <1>2, <1>11
  <2>3. i \in Failing(program) <=> i \in program.fails
    BY <1>2 DEF Failing, Asks
  <2>4. \A j, k \in Items : /\ program.does[j] = "main" /\ program.does[k] = "main"
                            /\ at'[j] \in {"defining", "good"} /\ at'[k] \in {"defining", "good"}
                            => j = k
    <3>1. \A j \in Items : at'[j] \in {"defining", "good"} => at[j] \in {"defining", "good"}
      BY <1>2, <1>11
    <3>. QED BY <1>1, <3>1 DEF MainIsRight
  <2>5. \A j \in Items : at'[j] = "bad" =>
           \/ j \in Failing(program)
           \/ program.does[j] = "main"
              /\ \E k \in Items : k # j /\ program.does[k] = "main" /\ at'[k] \in {"good", "bad"}
    BY <1>1, <1>5, <1>11, <2>2, <2>3 DEF MainIsRight
  <2>6. \A j \in Items : at'[j] = "good" => j \notin Failing(program)
    BY <1>1, <1>5, <1>11, <2>3 DEF MainIsRight
  <2>7. \E j \in Items : program.does[j] = "main" /\ at'[j] \in {"good", "bad"}
    BY <1>2, <1>5, <1>11
  <2>. QED BY <1>4, <1>12, <2>1, <2>4, <2>5, <2>6, <2>7 DEF MainIsRight
<1>. QED BY <1>6, <1>7, <1>8, <1>10, <1>13, MoveKeepsInv

----------------------------------------
(* The steps of items that use the session. *)

(* The same for a step of an item that asks the modules: it does not
   define main, and if it ends there is a reason for how. *)
LEMMA SessionMove ==
  ASSUME Inv, NEW i \in Items, NEW w, Moves(i, w), main_function' = main_function,
         PoolIsRight', waiting' \in Seq(Items), running' \subseteq Items,
         i \in Asks(program), at[i] # "defining", w # "defining",
         w = "good" => i \notin Failing(program), w = "bad" => i \in Failing(program),
         fip' \in Sessions, holder' \in Items \cup {NoItem},
         bindings' \in {"absent", "cut", "whole"}, asked' \subseteq Items, SessionIsRight'
  PROVE  Inv'
<1>1. Types /\ MainIsRight
  BY DEF Inv
<1>2. Types'
  BY <1>1, MoveKeepsTypes DEF Types
<1>3. program.does[i] # "main"
  BY DEF Asks
<1>4. MainIsRight'
  BY <1>1, <1>3, MoveKeepsMain
<1>. QED BY <1>2, <1>4, MoveKeepsInv

(* An item that was not resolved ends, or comes to be reported. *)
LEMMA TurnedDownIs ==
  ASSUME Types, PoolIsRight, NEW i \in Items, at[i] \in Busy \ {"queued"}, TurnedDown(i),
         UNCHANGED <<whole, thread, live, status>>, status = "none"
  PROVE  \E w : /\ w = IF program.does[i] = "extern" THEN "reporting" ELSE "bad"
                /\ Moves(i, w) /\ PoolIsRight' /\ waiting' \in Seq(Items) /\ running' \subseteq Items
<1>1. CASE program.does[i] = "extern"
  <2>1. Reaches(i, "reporting") /\ UNCHANGED pool
    BY <1>1 DEF TurnedDown
  <2>2. Moves(i, "reporting")
    BY <2>1 DEF Moves, Reaches, Busy
  <2>3. PoolIsRight' /\ waiting' \in Seq(Items) /\ running' \subseteq Items
    BY <2>1, StepKeepsPool DEF Busy
  <2>. QED BY <1>1, <2>2, <2>3
<1>2. CASE program.does[i] # "extern"
  <2>1. End(i, "bad")
    BY <1>2 DEF TurnedDown
  <2>2. Moves(i, "bad")
    BY <2>1 DEF Moves, End, Reaches, Busy
  <2>3. PoolIsRight' /\ waiting' \in Seq(Items) /\ running' \subseteq Items
    BY <2>1, EndKeepsPool
  <2>. QED BY <1>2, <2>2, <2>3
<1>. QED BY <1>1, <1>2

(* An item that asks begins to use the session when no other one does; it
   is off, or up and the program's. *)
LEMMA EnterKeeps ==
  ASSUME DriverCareless = {}, Inv, NEW i \in Items, Enter(i)
  PROVE  Inv'
<1>1. Types /\ PoolIsRight /\ Window /\ Order /\ SessionIsRight
  BY DEF Inv
<1>2. /\ at[i] = "running" /\ i \in Asks(program) /\ holder = NoItem /\ holder' = i
      /\ fip' = [fip EXCEPT !.active = TRUE] /\ UNCHANGED <<main_function, bindings, asked, said>>
      /\ UNCHANGED pool /\ Reaches(i, IF fip.active THEN "asking" ELSE "starting")
  BY DEF Enter, Running
<1>3. PICK w : w = IF fip.active THEN "asking" ELSE "starting"
  OBVIOUS
<1>4. w \in Busy /\ w \in {"asking", "starting"}
  BY <1>3 DEF Busy
<1>5. Moves(i, w)
  BY <1>2, <1>3, <1>4 DEF Moves, Enter, Running, Reaches, Busy
<1>6. PoolIsRight' /\ waiting' \in Seq(Items) /\ running' \subseteq Items
  BY <1>1, <1>2, <1>3, <1>4, StepKeepsPool DEF Busy
<1>7. /\ at'[i] = w /\ \A j \in Items : j # i => at'[j] = at[j]
      /\ stage' = stage /\ status' = status
  BY <1>1, <1>5, MoveIs
<1>8. /\ program' = program /\ Failing(program)' = Failing(program)
      /\ Asks(program)' = Asks(program)
  BY <1>1, <1>5, MoveIs, WholeStays
<1>9. /\ fip \in Sessions /\ fip' \in Sessions
      /\ fip'.active = TRUE /\ fip'.modules = fip.modules /\ fip'.of = fip.of
  BY <1>1, <1>2 DEF Types, Sessions
<1>10. \A j \in Items : at[j] \notin {"starting", "asking", "writing"}
  BY <1>1, <1>2, DriverAssumption DEF SessionIsRight, DriverAssumption
<1>11. CASE fip.active
  <2>1. w = "asking" /\ fip # Off
    BY <1>3, <1>11 DEF Off
  <2>2. ~(fip.modules = "mismatch" /\ program.fip = "mismatch" /\ \E j \in Asks(program) : at[j] = "bad")
    BY <1>1, <1>2, NoAskAfterMismatch DEF Busy
  <2>3. fip.modules = "up" /\ fip.of = program.project /\ program.fip = "up"
    BY <1>1, <1>10, <2>1, <2>2 DEF SessionIsRight
  <2>4. \A j \in Items : at'[j] = "reporting" =>
         /\ program.does[j] = "extern" /\ j \in Failing(program)
         /\ j \in asked \/ (~fip.active /\ program.fip # "up")
    BY <1>1, <1>7, <2>1 DEF SessionIsRight
  <2>5. \A j \in Items : at'[j] \in {"starting", "asking", "writing"} => j = i
    BY <1>7, <1>10
  <2>6. bindings # "cut"
    BY <1>1, <1>10 DEF SessionIsRight
  <2>7. \E j \in Asks(program) : at'[j] # "open"
    BY <1>2, <1>4, <1>7
  <2>8. stage # "idle" /\ status = "none"
    BY <1>1, <1>2, BusyPlace, StageIsNoOther DEF Busy, Enter, Running
  <2>9. SessionIsRight'
    BY <1>1, <1>2, <1>7, <1>8, <1>9, <1>11, <2>1, <2>3, <2>4, <2>5, <2>6, <2>7, <2>8 DEF SessionIsRight
  <2>10. holder' \in Items \cup {NoItem} /\ bindings' \in {"absent", "cut", "whole"} /\ asked' \subseteq Items
    BY <1>1, <1>2 DEF Types
  <2>. QED BY <1>2, <1>4, <1>5, <1>6, <1>9, <2>9, <2>10, SessionMove
<1>12. CASE ~fip.active
  <2>1. w = "starting" /\ fip = Off
    BY <1>1, <1>3, <1>12 DEF SessionIsRight
  <2>2. fip'.modules = "off"
    BY <1>9, <2>1 DEF Off
  <2>3. \A j \in Items : at'[j] = "reporting" =>
         /\ program.does[j] = "extern" /\ j \in Failing(program) /\ j \in asked
    <3>1. ASSUME NEW j \in Items, at[j] = "reporting", j \notin asked
          PROVE  FALSE
      <4>1. program.does[j] = "extern" /\ j \in Failing(program) /\ program.fip # "up"
        BY <1>1, <3>1 DEF SessionIsRight
      <4>2. i \in Failing(program)
        BY <1>2, <4>1 DEF Failing
      <4>3. j # i /\ at[i] \in Busy /\ at[j] \in Busy
        BY <1>2, <3>1 DEF Busy
      <4>. QED BY <1>1, <4>1, <4>2, <4>3, BusyPairs
    <3>2. \A j \in Items : at'[j] = "reporting" => at[j] = "reporting"
      BY <1>7, <2>1
    <3>. QED BY <1>1, <3>1, <3>2 DEF SessionIsRight
  <2>5. \A j \in Items : at'[j] \in {"starting", "asking", "writing"} => j = i
    BY <1>7, <1>10
  <2>6. bindings # "cut"
    BY <1>1, <1>10 DEF SessionIsRight
  <2>7. \E j \in Asks(program) : at'[j] # "open"
    BY <1>2, <1>4, <1>7
  <2>8. stage # "idle" /\ status = "none"
    BY <1>1, <1>2, BusyPlace, StageIsNoOther DEF Busy, Enter, Running
  <2>9. SessionIsRight'
    BY <1>1, <1>2, <1>7, <1>8, <1>9, <2>1, <2>2, <2>3, <2>5, <2>6, <2>7, <2>8 DEF SessionIsRight
  <2>10. holder' \in Items \cup {NoItem} /\ bindings' \in {"absent", "cut", "whole"} /\ asked' \subseteq Items
    BY <1>1, <1>2 DEF Types
  <2>. QED BY <1>2, <1>4, <1>5, <1>6, <1>9, <2>9, <2>10, SessionMove
<1>. QED BY <1>11, <1>12

(* Starting the modules ends with modules that are up, with modules of
   another version, which the item fails at, or with none. *)
LEMMA InitKeeps ==
  ASSUME DriverCareless = {}, Inv, NEW i \in Items, init(i)
  PROVE  Inv'
<1>1. Types /\ PoolIsRight /\ Window /\ Order /\ SessionIsRight
  BY DEF Inv
<1>2. /\ at[i] = "starting" /\ status = "none" /\ i \in Asks(program) /\ holder = i
      /\ fip.active /\ fip.modules = "off"
      /\ UNCHANGED <<main_function, bindings, asked, said>>
      /\ UNCHANGED <<whole, thread, live, status>>
  BY <1>1 DEF init, SessionIsRight
<1>3. \A j \in Items : j # i => at[j] \notin {"starting", "asking", "writing"}
  BY <1>1, <1>2 DEF SessionIsRight
<1>4. bindings # "cut"
  BY <1>1, <1>2, <1>3 DEF SessionIsRight
<1>5. stage # "idle"
  BY <1>1, <1>2, BusyPlace, StageIsNoOther DEF Busy
<1>6. \A j \in Items : at[j] = "reporting" =>
         /\ program.does[j] = "extern" /\ j \in Failing(program) /\ j \in asked
  BY <1>1, <1>2 DEF SessionIsRight
<1>7. program.fip \in {"none", "idle", "mismatch", "up"} /\ program \in Programs
  BY <1>1, ProgramIs DEF Types
<1>8. Off \in Sessions
  BY DEF Off, Sessions
<1>9. holder' \in {i, NoItem} => holder' \in Items \cup {NoItem}
  OBVIOUS
<1>10. bindings' \in {"absent", "cut", "whole"} /\ asked' \subseteq Items
  BY <1>1, <1>2 DEF Types
<1>11. i \in Failing(program) <=> i \in program.fails \/ program.fip # "up"
  BY <1>2 DEF Failing
<1>12. CASE program.fip \in {"none", "idle"}
  <2>1. fip' = Off /\ holder' = NoItem /\ TurnedDown(i)
    BY <1>12 DEF init
  <2>2. PICK w : /\ w = IF program.does[i] = "extern" THEN "reporting" ELSE "bad"
                 /\ Moves(i, w) /\ PoolIsRight' /\ waiting' \in Seq(Items) /\ running' \subseteq Items
    BY <1>1, <1>2, <2>1, TurnedDownIs DEF Busy
  <2>3. /\ at'[i] = w /\ \A j \in Items : j # i => at'[j] = at[j]
        /\ stage' = stage /\ status' = status
    BY <1>1, <2>2, MoveIs
  <2>4. /\ program' = program /\ Failing(program)' = Failing(program)
        /\ Asks(program)' = Asks(program)
    BY <1>1, <2>2, MoveIs, WholeStays
  <2>5. i \in Failing(program) /\ program.fip # "up"
    BY <1>11, <1>12
  <2>6. \A j \in Items : at'[j] \notin {"starting", "asking", "writing"}
    BY <1>3, <2>2, <2>3
  <2>7. ~fip'.active
    BY <2>1 DEF Off
  <2>8. \A j \in Items : at'[j] = "reporting" =>
         /\ program.does[j] = "extern" /\ j \in Failing(program)
         /\ j \in asked \/ (~fip'.active /\ program.fip # "up")
    BY <1>6, <2>2, <2>3, <2>5, <2>7
  <2>9. SessionIsRight'
    BY <1>1, <1>2, <1>4, <2>1, <2>4, <2>6, <2>8 DEF SessionIsRight
  <2>10. w # "defining" /\ w # "good" /\ at[i] # "defining"
    BY <1>2, <2>2
  <2>. QED BY <1>2, <1>8, <1>9, <1>10, <2>1, <2>2, <2>5, <2>9, <2>10, SessionMove
<1>13. CASE program.fip = "mismatch"
  <2>1. /\ fip' = [active |-> TRUE, modules |-> "mismatch", of |-> program.project]
        /\ holder' = NoItem /\ TurnedDown(i)
    BY <1>13 DEF init
  <2>2. PICK w : /\ w = IF program.does[i] = "extern" THEN "reporting" ELSE "bad"
                 /\ Moves(i, w) /\ PoolIsRight' /\ waiting' \in Seq(Items) /\ running' \subseteq Items
    BY <1>1, <1>2, <2>1, TurnedDownIs DEF Busy
  <2>3. /\ at'[i] = w /\ \A j \in Items : j # i => at'[j] = at[j]
        /\ stage' = stage /\ status' = status
    BY <1>1, <2>2, MoveIs
  <2>4. /\ program' = program /\ Failing(program)' = Failing(program)
        /\ Asks(program)' = Asks(program)
    BY <1>1, <2>2, MoveIs, WholeStays
  <2>5. i \in Failing(program)
    BY <1>11, <1>13
  <2>6. \A j \in Items : at'[j] \notin {"starting", "asking", "writing"}
    BY <1>3, <2>2, <2>3
  <2>7. w = "bad"
    BY <1>1, <1>13, <2>2, MismatchIsSpared
  <2>8. \A j \in Items : at'[j] = "reporting" =>
         /\ program.does[j] = "extern" /\ j \in Failing(program) /\ j \in asked
    BY <1>6, <2>3, <2>7
  <2>9. fip'.active /\ fip'.modules = "mismatch" /\ fip' \in Sessions
    BY <1>7, <2>1 DEF Sessions
  <2>10. SessionIsRight'
    BY <1>1, <1>2, <1>4, <1>5, <1>13, <2>3, <2>4, <2>6, <2>7, <2>8, <2>9 DEF SessionIsRight
  <2>. QED BY <1>2, <1>9, <1>10, <2>1, <2>2, <2>5, <2>7, <2>9, <2>10, SessionMove
<1>14. CASE program.fip = "up"
  <2>1. /\ fip' = [active |-> TRUE, modules |-> "up", of |-> program.project]
        /\ Reaches(i, "asking") /\ UNCHANGED <<holder, pool>>
    BY <1>14 DEF init
  <2>2. Moves(i, "asking")
    BY <1>2, <2>1 DEF Moves, Reaches, Busy
  <2>3. PoolIsRight' /\ waiting' \in Seq(Items) /\ running' \subseteq Items
    BY <1>1, <1>2, <2>1, StepKeepsPool DEF Busy
  <2>4. /\ at'[i] = "asking" /\ \A j \in Items : j # i => at'[j] = at[j]
        /\ stage' = stage /\ status' = status
    BY <1>1, <2>2, MoveIs
  <2>5. /\ program' = program /\ Failing(program)' = Failing(program)
        /\ Asks(program)' = Asks(program)
    BY <1>1, <2>2, MoveIs, WholeStays
  <2>6. \A j \in Items : at'[j] \in {"starting", "asking", "writing"} => j = i
    BY <1>3, <2>4
  <2>7. \A j \in Items : at'[j] = "reporting" =>
         /\ program.does[j] = "extern" /\ j \in Failing(program) /\ j \in asked
    BY <1>6, <2>4
  <2>8. fip'.active /\ fip'.modules = "up" /\ fip'.of = program.project /\ fip' \in Sessions
    BY <1>7, <2>1 DEF Sessions
  <2>9. SessionIsRight'
    BY <1>1, <1>2, <1>4, <1>5, <1>14, <2>1, <2>4, <2>5, <2>6, <2>7, <2>8 DEF SessionIsRight
  <2>10. "asking" # "defining" /\ at[i] # "defining" /\ holder' \in {i, NoItem}
    BY <1>2, <2>1
  <2>. QED BY <1>2, <1>9, <1>10, <2>2, <2>3, <2>8, <2>9, <2>10, SessionMove
<1>. QED BY <1>7, <1>12, <1>13, <1>14

(* Who asks the modules finds those of the program's project, which has
   them: the request does not crash. *)
LEMMA RequestKeeps ==
  ASSUME DriverCareless = {}, Inv, NEW i \in Items, Request(i)
  PROVE  Inv'
<1>1. Types /\ PoolIsRight /\ Window /\ SessionIsRight
  BY DEF Inv
<1>2. /\ at[i] = "asking" /\ status = "none" /\ i \in Asks(program) /\ holder = i
      /\ fip.modules = "up" /\ fip # Off
      /\ asked' = asked \cup {i}
      /\ UNCHANGED <<main_function, fip, said>> /\ UNCHANGED <<whole, thread, live>>
  BY <1>1 DEF Request, SessionIsRight, Off
<1>3. fip.active /\ program.fip = "up" /\ fip.of = program.project
  BY <1>1, <1>2 DEF SessionIsRight
<1>4. \A j \in Items : j # i => at[j] \notin {"starting", "asking", "writing"}
  BY <1>1, <1>2 DEF SessionIsRight
<1>5. bindings # "cut"
  BY <1>1, <1>2, <1>4 DEF SessionIsRight
<1>6. stage # "idle"
  BY <1>1, <1>2, BusyPlace, StageIsNoOther DEF Busy
<1>7. i \in Failing(program) <=> i \in program.fails
  BY <1>3 DEF Failing
<1>8. fip' \in Sessions /\ asked' \subseteq Items /\ bindings \in {"absent", "cut", "whole"}
  BY <1>1, <1>2 DEF Types
<1>9. \A j \in Items : at[j] = "reporting" =>
         /\ program.does[j] = "extern" /\ j \in Failing(program) /\ j \in asked
  BY <1>1, <1>3 DEF SessionIsRight
<1>10. said \subseteq asked
  BY <1>1 DEF SessionIsRight
<1>11. ASSUME NEW w, Moves(i, w), holder' = NoItem, UNCHANGED bindings,
              w \in {"reporting", "good", "bad"},
              w = "reporting" => program.does[i] = "extern" /\ i \in Failing(program)
       PROVE  SessionIsRight'
  <2>1. /\ at'[i] = w /\ \A j \in Items : j # i => at'[j] = at[j]
        /\ stage' = stage /\ status' = status
    BY <1>1, <1>11, MoveIs
  <2>2. /\ program' = program /\ Failing(program)' = Failing(program)
        /\ Asks(program)' = Asks(program)
    BY <1>1, <1>11, MoveIs, WholeStays
  <2>3. \A j \in Items : at'[j] \notin {"starting", "asking", "writing"}
    BY <1>4, <1>11, <2>1
  <2>4. \A j \in Items : at'[j] = "reporting" =>
         /\ program.does[j] = "extern" /\ j \in Failing(program) /\ j \in asked'
    BY <1>2, <1>9, <1>11, <2>1
  <2>5. \E j \in Asks(program) : at'[j] # "open"
    BY <1>2, <1>11, <2>1
  <2>. QED BY <1>2, <1>3, <1>5, <1>6, <1>10, <1>11, <2>1, <2>2, <2>3, <2>4, <2>5 DEF SessionIsRight
<1>12. CASE i \in program.fails
  <2>1. holder' = NoItem /\ TurnedDown(i) /\ UNCHANGED <<status, bindings>>
    BY <1>3, <1>12 DEF Request
  <2>2. PICK w : /\ w = IF program.does[i] = "extern" THEN "reporting" ELSE "bad"
                 /\ Moves(i, w) /\ PoolIsRight' /\ waiting' \in Seq(Items) /\ running' \subseteq Items
    BY <1>1, <1>2, <2>1, TurnedDownIs DEF Busy
  <2>3. w # "defining" /\ w # "good" /\ at[i] # "defining" /\ i \in Failing(program)
    BY <1>2, <1>7, <1>12, <2>2
  <2>4. SessionIsRight'
    BY <1>11, <2>1, <2>2, <2>3
  <2>. QED BY <1>2, <1>8, <2>1, <2>2, <2>3, <2>4, SessionMove
<1>13. CASE i \notin program.fails /\ program.does[i] = "extern"
  <2>1. holder' = NoItem /\ End(i, "good") /\ UNCHANGED <<status, bindings>>
    BY <1>3, <1>13 DEF Request
  <2>2. Moves(i, "good")
    BY <1>2, <2>1 DEF Moves, End, Reaches, Busy
  <2>3. PoolIsRight' /\ waiting' \in Seq(Items) /\ running' \subseteq Items
    BY <1>1, <1>2, <2>1, EndKeepsPool DEF Busy
  <2>4. SessionIsRight'
    BY <1>11, <2>1, <2>2
  <2>5. at[i] # "defining" /\ i \notin Failing(program)
    BY <1>2, <1>7, <1>13
  <2>. QED BY <1>2, <1>8, <2>1, <2>2, <2>3, <2>4, <2>5, SessionMove
<1>14. CASE i \notin program.fails /\ program.does[i] # "extern"
  <2>1. bindings' = "cut" /\ Reaches(i, "writing") /\ UNCHANGED <<status, pool, holder>>
    BY <1>3, <1>14 DEF Request
  <2>2. Moves(i, "writing")
    BY <1>2, <2>1 DEF Moves, Reaches, Busy
  <2>3. PoolIsRight' /\ waiting' \in Seq(Items) /\ running' \subseteq Items
    BY <1>1, <1>2, <2>1, StepKeepsPool DEF Busy
  <2>4. /\ at'[i] = "writing" /\ \A j \in Items : j # i => at'[j] = at[j]
        /\ stage' = stage /\ status' = status
    BY <1>1, <2>2, MoveIs
  <2>5. /\ program' = program /\ Failing(program)' = Failing(program)
        /\ Asks(program)' = Asks(program)
    BY <1>1, <2>2, MoveIs, WholeStays
  <2>6. \A j \in Items : at'[j] \in {"starting", "asking", "writing"} => j = i
    BY <1>4, <2>4
  <2>7. \A j \in Items : at'[j] = "reporting" =>
         /\ program.does[j] = "extern" /\ j \in Failing(program) /\ j \in asked'
    BY <1>2, <1>9, <2>4
  <2>8. program.does[i] = "import"
    BY <1>2, <1>14 DEF Asks
  <2>9. SessionIsRight'
    BY <1>2, <1>3, <1>6, <1>10, <1>14, <2>1, <2>4, <2>5, <2>6, <2>7, <2>8 DEF SessionIsRight
  <2>10. at[i] # "defining" /\ holder' \in Items \cup {NoItem} /\ bindings' \in {"absent", "cut", "whole"}
    BY <1>2, <2>1
  <2>. QED BY <1>2, <1>8, <2>1, <2>2, <2>3, <2>9, <2>10, SessionMove
<1>. QED BY <1>12, <1>13, <1>14

(* The generated file is whole when its writer gives the mutex back:
   whoever reads it later reads all of it. *)
LEMMA GenerateBindingsKeeps ==
  ASSUME Inv, NEW i \in Items, generate_bindings_file(i)
  PROVE  Inv'
<1>1. Types /\ PoolIsRight /\ Window /\ SessionIsRight
  BY DEF Inv
<1>2. /\ at[i] = "writing" /\ status = "none" /\ i \in Asks(program) /\ holder = i
      /\ fip.modules = "up" /\ fip # Off
      /\ bindings' = "whole" /\ holder' = NoItem /\ End(i, "good")
      /\ UNCHANGED <<main_function, fip, asked, said>> /\ UNCHANGED <<whole, thread, live, status>>
  BY <1>1 DEF generate_bindings_file, SessionIsRight, Off
<1>3. fip.active /\ program.fip = "up" /\ fip.of = program.project
  BY <1>1, <1>2 DEF SessionIsRight
<1>4. \A j \in Items : j # i => at[j] \notin {"starting", "asking", "writing"}
  BY <1>1, <1>2 DEF SessionIsRight
<1>5. Moves(i, "good")
  BY <1>2 DEF Moves, End, Reaches, Busy
<1>6. PoolIsRight' /\ waiting' \in Seq(Items) /\ running' \subseteq Items
  BY <1>1, <1>2, EndKeepsPool DEF Busy
<1>7. /\ at'[i] = "good" /\ \A j \in Items : j # i => at'[j] = at[j]
      /\ stage' = stage /\ status' = status
  BY <1>1, <1>5, MoveIs
<1>8. /\ program' = program /\ Failing(program)' = Failing(program)
      /\ Asks(program)' = Asks(program)
  BY <1>1, <1>5, MoveIs, WholeStays
<1>9. stage # "idle"
  BY <1>1, <1>2, BusyPlace, StageIsNoOther DEF Busy
<1>10. \A j \in Items : at'[j] \notin {"starting", "asking", "writing"}
  BY <1>4, <1>7
<1>11. \A j \in Items : at'[j] = "reporting" =>
         /\ program.does[j] = "extern" /\ j \in Failing(program) /\ j \in asked
  BY <1>1, <1>3, <1>7 DEF SessionIsRight
<1>12. said \subseteq asked
  BY <1>1 DEF SessionIsRight
<1>13. SessionIsRight'
  BY <1>2, <1>3, <1>7, <1>8, <1>9, <1>10, <1>11, <1>12 DEF SessionIsRight
<1>14. i \notin Failing(program)
  BY <1>1, <1>2, <1>3 DEF Failing, SessionIsRight
<1>15. fip' \in Sessions /\ asked' \subseteq Items /\ at[i] # "defining"
  BY <1>1, <1>2 DEF Types
<1>. QED BY <1>2, <1>5, <1>6, <1>13, <1>14, <1>15, SessionMove

(* An extern function is said not to be found when the modules were asked. *)
LEMMA ReportKeeps ==
  ASSUME Inv, NEW i \in Items, Report(i)
  PROVE  Inv'
<1>1. Types /\ PoolIsRight /\ Window /\ SessionIsRight
  BY DEF Inv
<1>2. /\ at[i] = "reporting" /\ status = "none" /\ program.does[i] = "extern" /\ i \in Failing(program)
      /\ i \in asked \/ ~fip.active
      /\ said' = (IF fip.active THEN said \cup {i} ELSE said) /\ End(i, "bad")
      /\ UNCHANGED <<main_function, fip, holder, bindings, asked>>
      /\ UNCHANGED <<whole, thread, live, status>>
  BY <1>1 DEF Report, SessionIsRight
<1>3. Moves(i, "bad")
  BY <1>2 DEF Moves, End, Reaches, Busy
<1>4. PoolIsRight' /\ waiting' \in Seq(Items) /\ running' \subseteq Items
  BY <1>1, <1>2, EndKeepsPool DEF Busy
<1>5. /\ at'[i] = "bad" /\ \A j \in Items : j # i => at'[j] = at[j]
      /\ stage' = stage /\ status' = status
  BY <1>1, <1>3, MoveIs
<1>6. /\ program' = program /\ Failing(program)' = Failing(program)
      /\ Asks(program)' = Asks(program)
  BY <1>1, <1>3, MoveIs, WholeStays
<1>7. \A j \in Items : at'[j] \in {"starting", "asking", "writing", "reporting"} => at'[j] = at[j]
  BY <1>5
<1>8. \A j \in Items : at[j] \in {"starting", "writing", "bad"} => at'[j] = at[j]
  BY <1>2, <1>5
<1>9. \A j \in Items : at[j] # "open" => at'[j] # "open"
  BY <1>5
<1>10. Asks(program) \subseteq Items
  BY DEF Asks
<1>11. said' \subseteq asked
  BY <1>1, <1>2 DEF SessionIsRight
<1>12. fip # Off =>
        /\ fip.active
        /\ \E j \in Asks(program) : at'[j] # "open"
        /\ \/ fip.modules = "off" /\ \E j \in Items : at'[j] = "starting"
           \/ fip.modules = "up" /\ fip.of = program.project /\ program.fip = "up"
           \/ /\ fip.modules = "mismatch" /\ program.fip = "mismatch"
              /\ \E j \in Asks(program) : at'[j] = "bad"
  <2>. SUFFICES ASSUME fip # Off
                PROVE  /\ fip.active
                       /\ \E j \in Asks(program) : at'[j] # "open"
                       /\ \/ fip.modules = "off" /\ \E j \in Items : at'[j] = "starting"
                          \/ fip.modules = "up" /\ fip.of = program.project /\ program.fip = "up"
                          \/ /\ fip.modules = "mismatch" /\ program.fip = "mismatch"
                             /\ \E j \in Asks(program) : at'[j] = "bad"
    OBVIOUS
  <2>1. fip.active /\ \E j \in Asks(program) : at'[j] # "open"
    BY <1>1, <1>9, <1>10 DEF SessionIsRight
  <2>2. CASE fip.modules = "off" /\ \E j \in Items : at[j] = "starting"
    BY <1>8, <2>1, <2>2
  <2>3. CASE fip.modules = "up" /\ fip.of = program.project /\ program.fip = "up"
    BY <2>1, <2>3
  <2>4. CASE /\ fip.modules = "mismatch" /\ program.fip = "mismatch"
             /\ \E j \in Asks(program) : at[j] = "bad"
    BY <1>8, <1>10, <2>1, <2>4
  <2>. QED BY <1>1, <2>2, <2>3, <2>4 DEF SessionIsRight
<1>13. SessionIsRight'
  <2>1. bindings = "cut" => \E j \in Items : at'[j] = "writing"
    BY <1>1, <1>8 DEF SessionIsRight
  <2>2. \A j \in Items : at'[j] = "reporting" =>
         /\ program.does[j] = "extern" /\ j \in Failing(program)
         /\ j \in asked \/ (~fip.active /\ program.fip # "up")
    BY <1>1, <1>7 DEF SessionIsRight
  <2>. QED BY <1>1, <1>2, <1>5, <1>6, <1>7, <1>11, <1>12, <2>1, <2>2 DEF SessionIsRight
<1>14. i \in Asks(program) /\ at[i] # "defining"
  BY <1>2 DEF Asks
<1>15. fip' \in Sessions /\ holder' \in Items \cup {NoItem}
       /\ bindings' \in {"absent", "cut", "whole"} /\ asked' \subseteq Items
  BY <1>1, <1>2 DEF Types
<1>. QED BY <1>2, <1>3, <1>4, <1>13, <1>14, <1>15, SessionMove

----------------------------------------
(* The main thread within a stage. *)

(* What a step within a stage leaves alone. *)
WithinStage ==
  AtWork /\ UNCHANGED <<whole, stage, live, main_function, session, status>>

(* What a step of the main thread within a stage leaves alone. *)
LEMMA WithinStageIs ==
  ASSUME Types, WithinStage
  PROVE  /\ AtStage /\ AtStage' /\ stage' = stage /\ live' = live /\ status' = status
         /\ status = "none" /\ main_function' = main_function
         /\ fip' = fip /\ holder' = holder /\ bindings' = bindings /\ asked' = asked /\ said' = said
         /\ UNCHANGED whole /\ InParallel' = InParallel /\ Work(stage)' = Work(stage)
         /\ Short(stage)' = Short(stage)
         /\ stage \notin Later
         /\ stage \notin {"failed", "shutdown 1", "exit", "cleanup", "idle", "left"}
<1>1. AtStage
  BY DEF WithinStage, AtWork, AtStage
<1>2. /\ stage' = stage /\ live' = live /\ status' = status
      /\ status = "none" /\ main_function' = main_function
      /\ fip' = fip /\ holder' = holder /\ bindings' = bindings /\ asked' = asked /\ said' = said
      /\ UNCHANGED whole
  BY DEF WithinStage, AtWork, session
<1>3. mode' = mode /\ program' = program
  BY <1>2, WholeStays
<1>4. InParallel' = InParallel /\ Work(stage)' = Work(stage) /\ Short(stage)' = Short(stage)
      /\ AtStage' = AtStage
  BY <1>2, <1>3 DEF InParallel, Work, Short, AtStage
<1>. QED BY <1>1, <1>2, <1>4, StageIsNoOther

(* The stage's work and how far it has come. *)
LEMMA StageWork ==
  ASSUME Types, Window, AtStage
  PROVE  /\ Len(Work(stage)) \in Nat /\ next \in Nat /\ awaited \in Nat
         /\ awaited <= next /\ next <= Len(Work(stage))
         /\ \A n \in 1 .. Len(Work(stage)) : Work(stage)[n] \in Items
         /\ \A m, n \in 1 .. Len(Work(stage)) : Work(stage)[m] = Work(stage)[n] => m = n
<1>1. PICK s \in 1 .. 8 : stage = Stages[s]
  BY StageIs
<1>2. /\ Len(Work(Stages[s])) \in Nat
      /\ \A n \in 1 .. Len(Work(Stages[s])) : Work(Stages[s])[n] \in Items
      /\ \A m, n \in 1 .. Len(Work(Stages[s])) : Work(Stages[s])[m] = Work(Stages[s])[n] => m = n
  BY WorkIs
<1>3. next \in Nat /\ awaited \in Nat /\ awaited <= next /\ next <= Len(Work(stage))
  BY DEF Types, Window
<1>. QED BY <1>1, <1>2, <1>3

(* An item that has not been handed out has not been begun. *)
LEMMA NextIsOpen ==
  ASSUME Types, Window, Order, AtStage, next < Len(Work(stage))
  PROVE  Work(stage)[next + 1] \in Items /\ at[Work(stage)[next + 1]] = "open"
<1>1. /\ Len(Work(stage)) \in Nat /\ next \in Nat
      /\ \A n \in 1 .. Len(Work(stage)) : Work(stage)[n] \in Items
      /\ \A m, n \in 1 .. Len(Work(stage)) : Work(stage)[m] = Work(stage)[n] => m = n
  BY StageWork
<1>2. next + 1 \in 1 .. Len(Work(stage))
  BY <1>1
<1>3. PICK s \in 1 .. 8 : stage = Stages[s]
  BY StageIs
<1>4. PICK i \in Items : i = Work(stage)[next + 1]
  BY <1>1, <1>2
<1>5. ASSUME NEW r \in 1 .. s - 1, i \in ItemsOf(program, Stages[r])
      PROVE  FALSE
  <2>1. i \in ItemsOf(program, Stages[s])
    BY <1>2, <1>3, <1>4, WorkIs
  <2>2. r \in 1 .. 8 /\ r # s
    OBVIOUS
  <2>. QED BY <1>5, <2>1, <2>2, Places
<1>6. ASSUME NEW n \in 1 .. next, Work(stage)[n] = i
      PROVE  FALSE
  <2>1. n \in 1 .. Len(Work(stage)) /\ n # next + 1
    BY <1>1, <1>2
  <2>. QED BY <1>1, <1>2, <1>4, <1>6, <2>1
<1>7. s \in DOMAIN Stages
  BY StagesAre
<1>8. at[i] = "open"
  BY <1>3, <1>5, <1>6, <1>7 DEF Order
<1>. QED BY <1>4, <1>8

(* Beginning an item disturbs nothing but the pool and the window. *)
LEMMA BeginKeeps ==
  ASSUME Inv, WithinStage, next < Len(Work(stage)), ~(Short(stage) /\ ~result),
         NEW i, i = Work(stage)[next + 1], NEW w \in {"queued", "running"},
         Reaches(i, w), next' = next + 1, awaited' = awaited, result' = result,
         InParallel => here' = here, ~InParallel => here' = i /\ awaited = next
  PROVE  /\ Window' /\ Results' /\ Order' /\ Stations' /\ MainIsRight' /\ SessionIsRight'
         /\ PoolIsRight' /\ waiting' \in Seq(Items) /\ running' \subseteq Items => Types'
<1>1. Types /\ Window /\ Results /\ Order /\ Stations /\ MainIsRight /\ SessionIsRight
  BY DEF Inv
<1>2. /\ AtStage /\ AtStage' /\ stage' = stage /\ live' = live /\ status' = status
      /\ status = "none" /\ main_function' = main_function
      /\ fip' = fip /\ holder' = holder /\ bindings' = bindings /\ asked' = asked /\ said' = said
      /\ UNCHANGED whole /\ InParallel' = InParallel /\ Work(stage)' = Work(stage)
      /\ Short(stage)' = Short(stage)
      /\ stage \notin Later
      /\ stage \notin {"failed", "shutdown 1", "exit", "cleanup", "idle", "left"}
  BY <1>1, WithinStageIs
<1>3. i \in Items /\ at[i] = "open"
  BY <1>1, <1>2, NextIsOpen
<1>4. /\ Len(Work(stage)) \in Nat /\ next \in Nat /\ awaited \in Nat
      /\ awaited <= next /\ next <= Len(Work(stage))
      /\ \A n \in 1 .. Len(Work(stage)) : Work(stage)[n] \in Items
      /\ \A m, n \in 1 .. Len(Work(stage)) : Work(stage)[m] = Work(stage)[n] => m = n
  BY <1>1, <1>2, StageWork
<1>5. at \in [Items -> {"open"} \cup Busy \cup {"good", "bad"}]
  BY <1>1 DEF Types
<1>6. /\ at' \in [Items -> {"open"} \cup Busy \cup {"good", "bad"}]
      /\ at'[i] = w /\ \A j \in Items : j # i => at'[j] = at[j]
  <2>1. w \in Busy
    BY DEF Busy
  <2>. QED BY <1>3, <1>5, <2>1 DEF Reaches
<1>7. PICK s \in 1 .. 8 : stage = Stages[s] /\ s \in DOMAIN Stages
  BY <1>1, <1>2, StageIs, StagesAre
<1>8. next + 1 \in 1 .. Len(Work(stage)) /\ i \in ItemsOf(program, Stages[s])
  <2>1. next + 1 \in 1 .. Len(Work(stage))
    BY <1>4
  <2>. QED BY <1>1, <1>7, <2>1, WorkIs
<1>9. /\ mode' = mode /\ program' = program /\ requests' = requests
      /\ \A t : ItemsOf(program, t)' = ItemsOf(program, t)
      /\ Due' = Due /\ Mains' = Mains /\ Ailing' = Ailing
      /\ Asks(program)' = Asks(program) /\ Failing(program)' = Failing(program)
  BY <1>2, WholeStays
<1>10. Window'
  <2>1. ASSUME NEW j \in Items, at'[j] \in Busy
        PROVE  \E n \in awaited + 1 .. next + 1 : Work(stage)[n] = j
    <3>1. CASE j = i
      <4>1. next + 1 \in awaited + 1 .. next + 1
        BY <1>4
      <4>. QED BY <3>1, <4>1
    <3>2. CASE j # i
      <4>1. at[j] \in Busy
        BY <1>6, <2>1, <3>2
      <4>2. PICK n \in awaited + 1 .. next : Work(stage)[n] = j
        BY <1>1, <4>1 DEF Window
      <4>3. n \in awaited + 1 .. next + 1
        BY <1>4
      <4>. QED BY <4>2, <4>3
    <3>. QED BY <3>1, <3>2
  <2>2. next' <= Len(Work(stage)')
    <3>1. next + 1 <= Len(Work(stage))
      BY <1>4
    <3>2. Len(Work(stage)') = Len(Work(stage))
      BY <1>2
    <3>. QED BY <3>1, <3>2
  <2>3. InParallel => here' = NoItem
    BY <1>1, <1>2 DEF Window
  <2>4. ~InParallel => next' = awaited' + 1 /\ here' = Work(stage)[next']
    BY <1>4
  <2>. QED BY <1>2, <2>1, <2>2, <2>3, <2>4 DEF Window
<1>11. Results'
  <2>1. \A n \in 1 .. next + 1 : at'[Work(stage)[n]] # "open"
    <3>1. ASSUME NEW n \in 1 .. next + 1
          PROVE  at'[Work(stage)[n]] # "open"
      <4>1. CASE n = next + 1
        BY <1>6, <4>1
      <4>2. CASE n # next + 1
        <5>1. n \in 1 .. next /\ n \in 1 .. Len(Work(stage))
          BY <1>4, <4>2
        <5>2. at[Work(stage)[n]] # "open"
          BY <1>1, <1>2, <5>1 DEF Results
        <5>. QED BY <1>3, <1>4, <1>6, <5>1, <5>2
      <4>. QED BY <4>1, <4>2
    <3>. QED BY <3>1
  <2>2. \A n \in 1 .. awaited : n \in 1 .. Len(Work(stage)) /\ n # next + 1
    BY <1>4
  <2>3. \A n \in 1 .. awaited : at'[Work(stage)[n]] = at[Work(stage)[n]]
    BY <1>4, <1>6, <1>8, <2>2
  <2>4. \A j \in Items : at[j] = "bad" => at'[j] = "bad"
    BY <1>3, <1>6
  <2>5. ~(Short(stage)' /\ ~result')
    BY <1>2
  <2>6. result' => \A n \in 1 .. awaited' : at'[Work(stage)'[n]] = "good"
    BY <1>1, <1>2, <2>3 DEF Results
  <2>7. ~result' => \/ \E n \in 1 .. awaited' : at'[Work(stage)'[n]] = "bad"
                    \/ stage' = "data" /\ \E j \in Items : at'[j] = "bad"
    BY <1>1, <1>2, <2>3, <2>4 DEF Results
  <2>. QED BY <1>2, <2>1, <2>5, <2>6, <2>7 DEF Results
<1>12. Order'
  <2>1. \A j \in Items : at'[j] # "open" => at[j] # "open" \/ j = i
    BY <1>6
  <2>2. \A j \in Items : at[j] = "good" => at'[j] = "good"
    BY <1>3, <1>6
  <2>3. \A t \in DOMAIN Stages : stage = Stages[t] => t = s
    BY <1>7, StagesAre
  <2>4. \A j \in Items : at'[j] # "open" =>
         \/ \E r \in 1 .. s - 1 : j \in ItemsOf(program, Stages[r])
         \/ \E n \in 1 .. next + 1 : Work(stage)[n] = j
    <3>1. ASSUME NEW j \in Items, at'[j] # "open"
          PROVE  \/ \E r \in 1 .. s - 1 : j \in ItemsOf(program, Stages[r])
                 \/ \E n \in 1 .. next + 1 : Work(stage)[n] = j
      <4>1. CASE j = i
        BY <1>4, <4>1
      <4>2. CASE at[j] # "open"
        <5>1. \/ \E r \in 1 .. s - 1 : j \in ItemsOf(program, Stages[r])
              \/ \E n \in 1 .. next : Work(stage)[n] = j
          BY <1>1, <1>7, <4>2 DEF Order
        <5>2. \A n \in 1 .. next : n \in 1 .. next + 1
          BY <1>4
        <5>. QED BY <5>1, <5>2
      <4>. QED BY <2>1, <3>1, <4>1, <4>2
    <3>. QED BY <3>1
  <2>5. \A r \in 1 .. s - 1 : ItemsOf(program, Stages[r]) \subseteq Items
    <3>1. \A r \in 1 .. s - 1 : r \in 1 .. 8
      OBVIOUS
    <3>. QED BY <1>1, <3>1, Places
  <2>6. \A r \in 1 .. s - 1 : \A j \in ItemsOf(program, Stages[r]) :
         \/ at'[j] = "good"
         \/ mode.serve /\ r \in {2, 3} /\ s > 3
         \/ stage = "data" /\ ~result
    BY <1>1, <1>7, <2>2, <2>5 DEF Order
  <2>. QED BY <1>2, <1>9, <2>3, <2>4, <2>6 DEF Order
<1>13. Stations'
  <2>1. \A j \in Items : at'[j] # "open" => j \in Due
    <3>1. i \in Due
      BY <1>1, <1>7, <1>8 DEF Due, Stations
    <3>. QED BY <1>1, <1>6, <3>1 DEF Stations
  <2>. QED BY <1>1, <1>2, <1>9, <2>1 DEF Stations
<1>14. \A j \in Items : at'[j] \in {"starting", "asking", "writing", "reporting", "defining", "good", "bad"}
                         => at'[j] = at[j]
  BY <1>6
<1>15. \A j \in Items : at[j] # "open" => at'[j] = at[j]
  BY <1>3, <1>6
<1>16. MainIsRight'
  <2>1. \A j \in Items : at[j] \in {"good", "bad"} => at'[j] = at[j]
    BY <1>15
  <2>. QED BY <1>1, <1>2, <1>9, <1>14, <2>1, ZenonT(60) DEF MainIsRight
<1>17. SessionIsRight'
  <2>1. Asks(program) \subseteq Items
    BY DEF Asks
  <2>2. fip # Off =>
         /\ fip.active
         /\ \E j \in Asks(program) : at'[j] # "open"
         /\ \/ fip.modules = "off" /\ \E j \in Items : at'[j] = "starting"
            \/ fip.modules = "up" /\ fip.of = program.project /\ program.fip = "up"
            \/ /\ fip.modules = "mismatch" /\ program.fip = "mismatch"
               /\ \E j \in Asks(program) : at'[j] = "bad"
    <3>1. \A j \in Items : at[j] = "starting" => at'[j] = "starting"
      BY <1>15
    <3>2. \A j \in Asks(program) : /\ at[j] # "open" => at'[j] # "open"
                                   /\ at[j] = "bad" => at'[j] = "bad"
      BY <1>15, <2>1
    <3>. QED BY <1>1, <3>1, <3>2 DEF SessionIsRight
  <2>3. bindings = "cut" => \E j \in Items : at'[j] = "writing"
    BY <1>1, <1>15 DEF SessionIsRight
  <2>. QED BY <1>1, <1>2, <1>9, <1>14, <2>2, <2>3 DEF SessionIsRight
<1>18. ASSUME waiting' \in Seq(Items), running' \subseteq Items
       PROVE  Types'
  <2>1. next' \in Nat /\ awaited' \in 0 .. next'
    BY <1>4
  <2>2. here' \in Items \cup {NoItem}
    BY <1>1, <1>3 DEF Types
  <2>3. Careful(mode, program)' = Careful(mode, program)
    BY <1>9 DEF Careful, ItemsOf, Failing, Asks
  <2>. QED BY <1>1, <1>2, <1>6, <1>9, <1>18, <2>1, <2>2, <2>3 DEF Types, Sessions, AllStages, Later
<1>. QED BY <1>10, <1>11, <1>12, <1>13, <1>16, <1>17, <1>18

(* The item handed out is the next one of the stage, and was not begun. *)
LEMMA HandOutKeeps ==
  ASSUME Inv, HandOut
  PROVE  Inv'
<1>1. Types /\ PoolIsRight /\ Window /\ Results /\ Order
  BY DEF Inv
<1>2. PICK i : i = Work(stage)[next + 1]
  OBVIOUS
<1>3. /\ WithinStage /\ InParallel /\ next < Len(Work(stage)) /\ Reaches(i, "queued")
      /\ next' = next + 1 /\ awaited' = awaited /\ result' = result /\ here' = here
  BY <1>2 DEF HandOut, WithinStage
<1>4. waiting' = Append(waiting, i) /\ running' = running
  BY <1>2 DEF HandOut, Pool!Submit
<1>5. AtStage
  BY <1>1, <1>3, WithinStageIs
<1>6. i \in Items /\ at[i] = "open"
  BY <1>1, <1>2, <1>3, <1>5, NextIsOpen
<1>7. ~(Short(stage) /\ ~result)
  <2>1. next \in Nat /\ Len(Work(stage)) \in Nat
    BY <1>1, <1>5, StageWork
  <2>. QED BY <1>1, <1>3, <1>5, <2>1 DEF Results
<1>8. waiting \in Seq(Items) /\ running \subseteq Items
  BY <1>1 DEF Types
<1>9. \A n \in DOMAIN waiting : at[waiting[n]] = "queued"
  BY <1>1 DEF PoolIsRight
<1>10. i \notin Elems(waiting)
  BY <1>6, <1>9 DEF Elems
<1>11. waiting' \in Seq(Items) /\ running' \subseteq Items
  BY <1>4, <1>6, <1>8, AppendProperties
<1>12. at'[i] = "queued" /\ \A j \in Items : j # i => at'[j] = at[j]
  BY <1>1, <1>3, <1>6 DEF Reaches, Types
<1>13. PoolIsRight'
  <2>1. Elems(waiting') = Elems(waiting) \cup {i}
    BY <1>4, <1>6, <1>8, <1>10, AppendElems
  <2>2. \A m, n \in DOMAIN waiting : waiting[m] = waiting[n] => m = n
    BY <1>1 DEF PoolIsRight
  <2>3. \A m, n \in DOMAIN waiting' : waiting'[m] = waiting'[n] => m = n
    BY <1>4, <1>6, <1>8, <1>10, <2>2, AppendElems
  <2>4. \A j \in Elems(waiting) : j \in Items /\ at[j] = "queued"
    BY <1>8, <1>9, LenProperties DEF Elems
  <2>5. \A j \in Elems(waiting') : at'[j] = "queued"
    BY <1>10, <1>12, <2>1, <2>4
  <2>6. \A n \in DOMAIN waiting' : at'[waiting'[n]] = "queued"
    BY <2>5 DEF Elems
  <2>7. \A j \in running' : at'[j] \in Busy
    BY <1>1, <1>4, <1>6, <1>8, <1>12 DEF PoolIsRight, Busy
  <2>. QED BY <2>3, <2>6, <2>7 DEF PoolIsRight
<1>14. Window' /\ Results' /\ Order' /\ Stations' /\ MainIsRight' /\ SessionIsRight' /\ Types'
  BY <1>2, <1>3, <1>7, <1>11, <1>13, BeginKeeps
<1>. QED BY <1>13, <1>14 DEF Inv

(* The main thread takes the next item only when it has none. *)
LEMMA TakeKeeps ==
  ASSUME Inv, Take
  PROVE  Inv'
<1>1. /\ Types /\ PoolIsRight /\ Window /\ Results /\ Order /\ Stations /\ MainIsRight
      /\ SessionIsRight
  BY DEF Inv
<1>2. /\ WithinStage /\ ~InParallel /\ next < Len(Work(stage)) /\ here = NoItem /\ result' = result
      /\ UNCHANGED pool
  BY DEF Take, WithinStage
<1>3. /\ AtStage /\ AtStage' /\ stage' = stage /\ live' = live /\ status' = status
      /\ status = "none" /\ main_function' = main_function
      /\ fip' = fip /\ holder' = holder /\ bindings' = bindings /\ asked' = asked /\ said' = said
      /\ UNCHANGED whole /\ InParallel' = InParallel /\ Work(stage)' = Work(stage)
      /\ Short(stage)' = Short(stage)
      /\ stage \notin Later
      /\ stage \notin {"failed", "shutdown 1", "exit", "cleanup", "idle", "left"}
  BY <1>1, <1>2, WithinStageIs
<1>4. /\ Len(Work(stage)) \in Nat /\ next \in Nat /\ awaited \in Nat
      /\ \A n \in 1 .. Len(Work(stage)) : Work(stage)[n] \in Items
  BY <1>1, <1>3, StageWork
<1>5. awaited = next
  <2>1. next + 1 \in 1 .. Len(Work(stage)) /\ (next = awaited + 1 => next \in 1 .. Len(Work(stage)))
    BY <1>2, <1>4
  <2>2. here \notin Items
    BY <1>2, DriverAssumption DEF DriverAssumption
  <2>. QED BY <1>1, <1>2, <1>3, <1>4, <2>1, <2>2 DEF Window
<1>6. waiting' = waiting /\ running' = running
  BY <1>2 DEF pool
<1>7. waiting \in Seq(Items) /\ running \subseteq Items
  BY <1>1 DEF Types
<1>8. CASE ~(Short(stage) /\ ~result)
  <2>1. PICK i : i = Work(stage)[next + 1]
    OBVIOUS
  <2>2. here' = i /\ Reaches(i, "running") /\ next' = next + 1 /\ awaited' = awaited
    BY <1>8, <2>1 DEF Take
  <2>3. i \in Items /\ at[i] = "open"
    BY <1>1, <1>2, <1>3, <2>1, NextIsOpen
  <2>4. \A j \in Items : j # i => at'[j] = at[j]
    BY <1>1, <2>2 DEF Reaches, Types
  <2>5. PoolIsRight'
    <3>1. \A n \in DOMAIN waiting : waiting[n] \in Items
      BY <1>7, LenProperties
    <3>2. \A n \in DOMAIN waiting : waiting[n] # i
      BY <1>1, <2>3 DEF PoolIsRight
    <3>3. \A j \in running : j # i
      BY <1>1, <2>3 DEF PoolIsRight, Busy
    <3>. QED BY <1>1, <1>6, <1>7, <2>4, <3>1, <3>2, <3>3 DEF PoolIsRight
  <2>6. Window' /\ Results' /\ Order' /\ Stations' /\ MainIsRight' /\ SessionIsRight' /\ Types'
    BY <1>2, <1>5, <1>6, <1>7, <1>8, <2>1, <2>2, <2>5, BeginKeeps
  <2>. QED BY <2>5, <2>6 DEF Inv
<1>9. CASE Short(stage) /\ ~result
  <2>1. next' = Len(Work(stage)) /\ awaited' = Len(Work(stage)) /\ here' = here /\ at' = at
    BY <1>9 DEF Take
  <2>2. /\ mode' = mode /\ program' = program /\ requests' = requests
        /\ \A t : ItemsOf(program, t)' = ItemsOf(program, t)
        /\ Due' = Due /\ Mains' = Mains /\ Ailing' = Ailing
        /\ Asks(program)' = Asks(program) /\ Failing(program)' = Failing(program)
    BY <1>3, WholeStays
  <2>3. Types'
    <3>1. Careful(mode, program)' = Careful(mode, program)
      BY <2>2 DEF Careful, ItemsOf, Failing, Asks
    <3>2. next' \in Nat /\ awaited' \in 0 .. next'
      BY <1>4, <2>1
    <3>. QED BY <1>1, <1>2, <1>3, <1>6, <2>1, <2>2, <3>1, <3>2 DEF Types, Sessions, AllStages, Later
  <2>4. PoolIsRight'
    BY <1>1, <1>6, <2>1 DEF PoolIsRight
  <2>5. Window'
    <3>1. \A j \in Items : at[j] \notin Busy
      BY <1>1, <1>4, <1>5 DEF Window
    <3>2. next' <= Len(Work(stage)')
      <4>1. Len(Work(stage)') = Len(Work(stage))
        BY <1>3
      <4>. QED BY <1>4, <2>1, <4>1
    <3>. QED BY <1>2, <1>3, <2>1, <3>1, <3>2 DEF Window
  <2>6. Results'
    <3>1. \A n \in 1 .. awaited : n \in 1 .. Len(Work(stage))
      BY <1>2, <1>4, <1>5
    <3>2. \/ \E n \in 1 .. awaited' : at'[Work(stage)'[n]] = "bad"
          \/ stage' = "data" /\ \E j \in Items : at'[j] = "bad"
      BY <1>1, <1>3, <1>9, <2>1, <3>1 DEF Results
    <3>. QED BY <1>2, <1>3, <1>9, <2>1, <3>2 DEF Results
  <2>7. Order'
    <3>1. \A n \in 1 .. next : n \in 1 .. Len(Work(stage))
      BY <1>2, <1>4
    <3>2. ASSUME NEW s \in DOMAIN Stages, stage = Stages[s]
          PROVE  /\ \A i \in Items : at[i] # "open" =>
                      \/ \E r \in 1 .. s - 1 : i \in ItemsOf(program, Stages[r])
                      \/ \E n \in 1 .. Len(Work(stage)) : Work(stage)[n] = i
                 /\ \A r \in 1 .. s - 1 : \A i \in ItemsOf(program, Stages[r]) :
                      \/ at[i] = "good"
                      \/ mode.serve /\ r \in {2, 3} /\ s > 3
                      \/ stage = "data" /\ ~result
      BY <1>1, <3>1, <3>2 DEF Order
    <3>. QED BY <1>2, <1>3, <2>1, <2>2, <3>2, ZenonT(60) DEF Order
  <2>8. Stations'
    BY <1>1, <1>3, <2>1, <2>2 DEF Stations
  <2>9. MainIsRight' /\ SessionIsRight'
    BY <1>1, <1>3, <2>1, <2>2 DEF MainIsRight, SessionIsRight
  <2>. QED BY <2>3, <2>4, <2>5, <2>6, <2>7, <2>8, <2>9 DEF Inv
<1>. QED BY <1>8, <1>9

(* Waiting for an item that has its verdict disturbs the window and the
   result. *)
LEMMA AwaitKeeps ==
  ASSUME Inv, WithinStage, UNCHANGED pool, awaited < next, ~(Short(stage) /\ ~result),
         NEW i, i = Work(stage)[awaited + 1], at[i] \in {"good", "bad"}, at' = at,
         result' \in BOOLEAN, result' <=> result /\ at[i] # "bad",
         awaited' = awaited + 1, next' = next, here' = NoItem,
         InParallel \/ awaited + 1 = next,
         Short(stage) /\ at[i] = "bad" =>
           awaited + 1 = next /\ (InParallel => next = Len(Work(stage)))
  PROVE  Inv'
<1>1. /\ Types /\ PoolIsRight /\ Window /\ Results /\ Order /\ Stations /\ MainIsRight
      /\ SessionIsRight
  BY DEF Inv
<1>2. /\ AtStage /\ AtStage' /\ stage' = stage /\ live' = live /\ status' = status
      /\ status = "none" /\ main_function' = main_function
      /\ fip' = fip /\ holder' = holder /\ bindings' = bindings /\ asked' = asked /\ said' = said
      /\ UNCHANGED whole /\ InParallel' = InParallel /\ Work(stage)' = Work(stage)
      /\ Short(stage)' = Short(stage)
      /\ stage \notin Later
      /\ stage \notin {"failed", "shutdown 1", "exit", "cleanup", "idle", "left"}
  BY <1>1, WithinStageIs
<1>3. /\ Len(Work(stage)) \in Nat /\ next \in Nat /\ awaited \in Nat /\ next <= Len(Work(stage))
      /\ \A n \in 1 .. Len(Work(stage)) : Work(stage)[n] \in Items
      /\ \A m, n \in 1 .. Len(Work(stage)) : Work(stage)[m] = Work(stage)[n] => m = n
  BY <1>1, <1>2, StageWork
<1>4. /\ mode' = mode /\ program' = program /\ requests' = requests
      /\ \A t : ItemsOf(program, t)' = ItemsOf(program, t)
      /\ Due' = Due /\ Mains' = Mains /\ Ailing' = Ailing
      /\ Asks(program)' = Asks(program) /\ Failing(program)' = Failing(program)
  BY <1>2, WholeStays
<1>5. waiting' = waiting /\ running' = running
  BY DEF pool
<1>6. Types'
  <2>1. Careful(mode, program)' = Careful(mode, program)
    BY <1>4 DEF Careful, ItemsOf, Failing, Asks
  <2>2. next' \in Nat /\ awaited' \in 0 .. next'
    BY <1>3
  <2>. QED BY <1>1, <1>2, <1>4, <1>5, <2>1, <2>2 DEF Types, Sessions, AllStages, Later
<1>7. PoolIsRight'
  BY <1>1, <1>5 DEF PoolIsRight
<1>8. Window'
  <2>1. ASSUME NEW j \in Items, at[j] \in Busy
        PROVE  \E n \in awaited + 2 .. next : Work(stage)[n] = j
    <3>1. PICK n \in awaited + 1 .. next : Work(stage)[n] = j
      BY <1>1, <2>1 DEF Window
    <3>2. n # awaited + 1
      BY <2>1, <3>1 DEF Busy
    <3>3. n \in awaited + 2 .. next
      BY <1>3, <3>1, <3>2
    <3>. QED BY <3>1, <3>3
  <2>2. next' <= Len(Work(stage)') /\ awaited' + 1 = awaited + 2
    <3>1. Len(Work(stage)') = Len(Work(stage))
      BY <1>2
    <3>. QED BY <1>3, <3>1
  <2>. QED BY <1>2, <2>1, <2>2 DEF Window
<1>9. Results'
  <2>1. Short(stage)' /\ ~result' => awaited' = next' /\ (InParallel' => next' = Len(Work(stage)'))
    BY <1>2
  <2>2. \A n \in 1 .. next' : at'[Work(stage)'[n]] # "open" \/ (Short(stage)' /\ ~result')
    BY <1>1, <1>2 DEF Results
  <2>3. \A n \in 1 .. awaited + 1 : n \in 1 .. awaited \/ n = awaited + 1
    BY <1>3
  <2>4. result' => \A n \in 1 .. awaited + 1 : at[Work(stage)[n]] = "good"
    BY <1>1, <1>2, <2>3 DEF Results
  <2>5. ~result' => \/ \E n \in 1 .. awaited + 1 : at[Work(stage)[n]] = "bad"
                    \/ stage = "data" /\ \E j \in Items : at[j] = "bad"
    <3>1. CASE at[i] = "bad"
      <4>1. awaited + 1 \in 1 .. awaited + 1
        BY <1>3
      <4>. QED BY <3>1, <4>1
    <3>2. CASE ~result
      <4>1. \A n \in 1 .. awaited : n \in 1 .. awaited + 1
        BY <1>3
      <4>. QED BY <1>1, <1>2, <3>2, <4>1 DEF Results
    <3>. QED BY <3>1, <3>2
  <2>. QED BY <1>2, <2>1, <2>2, <2>4, <2>5 DEF Results
<1>10. Order'
  <2>1. ASSUME NEW s \in DOMAIN Stages, stage = Stages[s]
        PROVE  /\ \A j \in Items : at[j] # "open" =>
                    \/ \E r \in 1 .. s - 1 : j \in ItemsOf(program, Stages[r])
                    \/ \E n \in 1 .. next : Work(stage)[n] = j
               /\ \A r \in 1 .. s - 1 : \A j \in ItemsOf(program, Stages[r]) :
                    \/ at[j] = "good"
                    \/ mode.serve /\ r \in {2, 3} /\ s > 3
                    \/ stage = "data" /\ ~result'
    BY <1>1, <2>1 DEF Order
  <2>. QED BY <1>2, <1>4, <2>1, ZenonT(60) DEF Order
<1>11. Stations'
  BY <1>1, <1>2, <1>4 DEF Stations
<1>12. MainIsRight' /\ SessionIsRight'
  BY <1>1, <1>2, <1>4, ZenonT(60) DEF MainIsRight, SessionIsRight
<1>. QED BY <1>6, <1>7, <1>8, <1>9, <1>10, <1>11, <1>12 DEF Inv

(* The stages that stop at the first failure, the first one aside, are
   those behind the waves. *)
LEMMA ShortStages ==
  ASSUME NEW s \in 1 .. 8
  PROVE  Short(Stages[s]) <=> s \notin {2, 3}
<1>1. s \in {1, 2, 3, 4, 5, 6, 7, 8}
  OBVIOUS
<1>. QED BY <1>1, StagesAre DEF Short, Waves

(* A result is that of all items waited for, this one included. *)
LEMMA GetKeeps ==
  ASSUME DriverCareless = {}, Inv, Get
  PROVE  Inv'
<1>1. Types /\ Window /\ Results /\ MainIsRight
  BY DEF Inv
<1>2. PICK i : i = Work(stage)[awaited + 1]
  OBVIOUS
<1>3. /\ WithinStage /\ InParallel /\ next = Len(Work(stage)) /\ awaited < next
      /\ (Short(stage) /\ ~result) \/ at[i] \in Verdicts
      /\ result' = (result /\ at[i] # "bad") /\ awaited' = awaited + 1
      /\ next' = next /\ here' = here /\ at' = at /\ UNCHANGED pool
  BY <1>2 DEF Get, WithinStage
<1>4. AtStage
  BY <1>1, <1>3, WithinStageIs
<1>5. /\ Len(Work(stage)) \in Nat /\ next \in Nat /\ awaited \in Nat
      /\ \A n \in 1 .. Len(Work(stage)) : Work(stage)[n] \in Items
  BY <1>1, <1>4, StageWork
<1>6. ~(Short(stage) /\ ~result)
  BY <1>1, <1>3, <1>4, <1>5 DEF Results
<1>7. awaited + 1 \in 1 .. Len(Work(stage)) /\ i \in Items
  <2>1. awaited + 1 \in 1 .. Len(Work(stage))
    BY <1>3, <1>5
  <2>. QED BY <1>2, <1>5, <2>1
<1>8. at[i] \in {"good", "bad"}
  BY <1>1, <1>3, <1>6, <1>7 DEF Verdicts, Types, Busy
<1>9. result' \in BOOLEAN /\ (result' <=> result /\ at[i] # "bad")
  BY <1>3
<1>10. here' = NoItem
  BY <1>1, <1>3, <1>4 DEF Window
<1>11. PICK s \in 1 .. 8 : stage = Stages[s]
  BY <1>1, <1>4, StageIs
<1>12. ASSUME Short(stage), at[i] = "bad"
       PROVE  awaited + 1 = next
  <2>1. s # 1
    BY <1>3, <1>11, StagesAre DEF InParallel
  <2>2. s \notin {2, 3}
    BY <1>11, <1>12, ShortStages
  <2>3. s \in 4 .. 8
    BY <2>1, <2>2
  <2>4. i \in ItemsOf(program, Stages[s])
    BY <1>1, <1>2, <1>7, <1>11, WorkIs
  <2>5. program.does[i] # "main"
    BY <1>1, <2>3, <2>4, Places
  <2>6. i \in Failing(program)
    BY <1>1, <1>7, <1>12, <2>5 DEF MainIsRight
  <2>7. mode.parallel
    BY <1>3 DEF InParallel
  <2>. QED BY <1>1, <1>2, <1>3, <1>7, <1>11, <2>3, <2>6, <2>7, LastFails
<1>. QED BY <1>2, <1>3, <1>6, <1>8, <1>9, <1>10, <1>12, AwaitKeeps

(* The main thread is done with an item when the item is good or bad. *)
LEMMA PutKeeps ==
  ASSUME Inv, Put
  PROVE  Inv'
<1>1. Types /\ Window /\ Results
  BY DEF Inv
<1>2. /\ WithinStage /\ ~InParallel /\ here # NoItem /\ at[here] \in Verdicts
      /\ result' = (result /\ at[here] # "bad") /\ here' = NoItem /\ awaited' = awaited + 1
      /\ next' = next /\ at' = at /\ UNCHANGED pool
  BY DEF Put, WithinStage
<1>3. AtStage
  BY <1>1, <1>2, WithinStageIs
<1>4. next = awaited + 1 /\ here = Work(stage)[next]
  BY <1>1, <1>2, <1>3 DEF Window
<1>5. next \in Nat /\ awaited \in Nat
  BY <1>1, <1>3, StageWork
<1>6. ~(Short(stage) /\ ~result)
  BY <1>1, <1>3, <1>4, <1>5 DEF Results
<1>7. PICK i : i = here
  OBVIOUS
<1>8. at[i] \in {"good", "bad"}
  BY <1>1, <1>2, <1>7 DEF Verdicts, Types, Busy
<1>9. result' \in BOOLEAN /\ (result' <=> result /\ at[i] # "bad")
  BY <1>2, <1>7
<1>10. i = Work(stage)[awaited + 1] /\ awaited < next
  BY <1>4, <1>5, <1>7
<1>. QED BY <1>2, <1>4, <1>6, <1>8, <1>9, <1>10, AwaitKeeps

----------------------------------------
(* The main thread from stage to stage. *)

(* Where the items of the exit status are. *)
LEMMA DueIs ==
  ASSUME Types
  PROVE  /\ Due \subseteq Items /\ Mains \subseteq Due
         /\ \A i : i \in Due <=> \E s \in 1 .. 8 : (s = 8 => mode.test) /\ i \in ItemsOf(program, Stages[s])
<1>1. DOMAIN Stages = 1 .. 8
  BY StagesAre
<1>2. \A s \in 1 .. 8 : Stages[s] = "tests" <=> s = 8
  <2>1. ASSUME NEW s \in 1 .. 8
        PROVE  Stages[s] = "tests" <=> s = 8
    <3>1. s \in {1, 2, 3, 4, 5, 6, 7, 8}
      OBVIOUS
    <3>. QED BY <3>1, StagesAre
  <2>. QED BY <2>1
<1>3. \A i : i \in Due <=> \E s \in 1 .. 8 : (s = 8 => mode.test) /\ i \in ItemsOf(program, Stages[s])
  BY <1>1, <1>2 DEF Due
<1>4. Due \subseteq Items
  BY <1>3, Places
<1>. QED BY <1>3, <1>4 DEF Mains

(* If an item has failed, something of the program does. *)
LEMMA BadIsAiling ==
  ASSUME Types, Stations, MainIsRight, NEW i \in Items, at[i] = "bad"
  PROVE  Ailing
<1>1. i \in Due
  BY DEF Stations
<1>2. CASE i \in Failing(program)
  BY <1>1, <1>2 DEF Ailing
<1>3. CASE i \notin Failing(program)
  <2>1. PICK j \in Items : j # i /\ program.does[j] = "main" /\ at[j] \in {"good", "bad"}
    BY <1>3 DEF MainIsRight
  <2>2. program.does[i] = "main"
    BY <1>3 DEF MainIsRight
  <2>3. i \in Mains /\ j \in Mains
    BY <1>1, <2>1, <2>2 DEF Mains, Stations
  <2>4. IsFiniteSet(Mains)
    BY DueIs, ItemsAreFinite
  <2>5. ~(Cardinality(Mains) <= 1)
    BY <2>1, <2>3, <2>4, AtMostOne
  <2>6. Cardinality(Mains) > 1
    BY <2>4, <2>5, FS_CardinalityType
  <2>. QED BY <2>6 DEF Ailing
<1>. QED BY <1>2, <1>3

(* After, stage by stage. *)
LEMMA AfterIs ==
  ASSUME NEW s \in 1 .. 8
  PROVE  /\ s = 1 => After(Stages[s]) = IF result THEN Stages[2] ELSE "failed"
         /\ s \in {2, 3} => After(Stages[s]) = AfterWave(Stages[s])
         /\ s = 4 => After(Stages[s]) = Stages[5]
         /\ s \in {5, 6} => After(Stages[s]) = IF result THEN Stages[s + 1] ELSE "failed"
         /\ s = 7 => After(Stages[s]) = IF ~result THEN "failed" ELSE IF mode.test THEN Stages[8] ELSE "analysis"
         /\ s = 8 => After(Stages[s]) = IF result THEN "analysis" ELSE "failed"
<1>1. CASE s = 1
  BY <1>1, StagesAre DEF After, Waves
<1>2. CASE s = 2
  BY <1>2, StagesAre DEF After, Waves
<1>3. CASE s = 3
  BY <1>3, StagesAre DEF After, Waves
<1>4. CASE s = 4
  BY <1>4, StagesAre DEF After, Waves
<1>5. CASE s = 5
  <2>1. s + 1 = 6
    BY <1>5
  <2>2. After(Stages[5]) = IF result THEN Stages[6] ELSE "failed"
    BY StagesAre DEF After, Waves
  <2>. QED BY <1>5, <2>1, <2>2
<1>6. CASE s = 6
  <2>1. s + 1 = 7
    BY <1>6
  <2>2. After(Stages[6]) = IF result THEN Stages[7] ELSE "failed"
    BY StagesAre DEF After, Waves
  <2>. QED BY <1>6, <2>1, <2>2
<1>7. CASE s = 7
  BY <1>7, StagesAre DEF After, Waves
<1>8. CASE s = 8
  BY <1>8, StagesAre DEF After, Waves
<1>9. s \in {1, 2, 3, 4, 5, 6, 7, 8}
  OBVIOUS
<1>. QED BY <1>1, <1>2, <1>3, <1>4, <1>5, <1>6, <1>7, <1>8, <1>9

(* A stage that is over: none of its items is on its way, and if it has a
   result they are all good. *)
StageIsOver == AtStage /\ next = Len(Work(stage)) /\ awaited = next /\ here = NoItem

(* When a stage is over, no item is on its way, and the result says
   whether its items are good. *)
LEMMA OverIs ==
  ASSUME Inv, StageIsOver, NEW s \in 1 .. 8, stage = Stages[s]
  PROVE  /\ \A i \in Items : at[i] \notin Busy
         /\ s \in {2, 3} => \A i \in ItemsOf(program, Stages[s]) : at[i] # "open"
         /\ result /\ ~(mode.serve /\ s = 8) => \A i \in ItemsOf(program, Stages[s]) : at[i] = "good"
         /\ ~result /\ s # 5 => \E i \in ItemsOf(program, Stages[s]) : at[i] = "bad"
         /\ ~result => \E i \in Items : at[i] = "bad"
<1>1. Types /\ Window /\ Results
  BY DEF Inv
<1>2. /\ AtStage /\ next = Len(Work(stage)) /\ awaited = next /\ next \in Nat
      /\ DOMAIN Work(stage) = 1 .. next
      /\ \A n \in 1 .. next : Work(stage)[n] \in Items /\ Work(stage)[n] \in ItemsOf(program, Stages[s])
  BY <1>1, WorkIs DEF StageIsOver, Types
<1>3. \A i \in Items : at[i] \notin Busy
  BY <1>1, <1>2 DEF Window
<1>4. ~(mode.serve /\ s = 8) =>
        \A i \in ItemsOf(program, Stages[s]) : \E n \in 1 .. next : i = Work(stage)[n]
  <2>1. ~(mode.serve /\ s = 8) =>
          ItemsOf(program, Stages[s]) = {Work(Stages[s])[n] : n \in 1 .. Len(Work(Stages[s]))}
    BY <1>1, WorkIs
  <2>. QED BY <1>2, <2>1
<1>5. ASSUME s \in {2, 3}, NEW i \in ItemsOf(program, Stages[s])
      PROVE  at[i] # "open"
  <2>1. ~Short(stage)
    BY <1>5, ShortStages
  <2>2. PICK n \in 1 .. next : i = Work(stage)[n]
    BY <1>4, <1>5
  <2>. QED BY <1>1, <1>2, <2>1, <2>2 DEF Results
<1>6. result /\ ~(mode.serve /\ s = 8) => \A i \in ItemsOf(program, Stages[s]) : at[i] = "good"
  <2>1. result => \A n \in 1 .. next : at[Work(stage)[n]] = "good"
    BY <1>1, <1>2 DEF Results
  <2>. QED BY <1>4, <2>1
<1>7. s # 5 => stage # "data"
  <2>1. s \in {1, 2, 3, 4, 5, 6, 7, 8}
    OBVIOUS
  <2>. QED BY <2>1, StagesAre
<1>8. ~result => \/ \E n \in 1 .. next : at[Work(stage)[n]] = "bad"
                 \/ stage = "data" /\ \E i \in Items : at[i] = "bad"
  BY <1>1, <1>2 DEF Results
<1>. QED BY <1>2, <1>3, <1>5, <1>6, <1>7, <1>8

(* The files behind a stage that is over are good. *)
LEMMA BehindIs ==
  ASSUME Inv, NEW s \in 1 .. 8, stage = Stages[s], s # 5 \/ result
  PROVE  \A r \in 1 .. s - 1 : \A i \in ItemsOf(program, Stages[r]) :
           at[i] = "good" \/ (mode.serve /\ r \in {2, 3} /\ s > 3)
<1>1. s \in DOMAIN Stages
  BY StagesAre
<1>2. ~(stage = "data" /\ ~result)
  <2>1. s \in {1, 2, 3, 4, 5, 6, 7, 8}
    OBVIOUS
  <2>. QED BY <2>1, StagesAre
<1>. QED BY <1>1, <1>2 DEF Inv, Order

(* When the waves are over and the main thread goes on, no file that is
   imported is missing. *)
LEMMA NothingIsMissing ==
  ASSUME DriverCareless = {}, Inv, StageIsOver, NEW s \in {2, 3}, stage = Stages[s],
         result \/ mode.serve, ~(result /\ s = 2)
  PROVE  Imported = {}
<1>1. Types /\ Window /\ Order /\ MainIsRight
  BY DEF Inv
<1>2. s \in 1 .. 8 /\ 1 \in 1 .. 8 /\ 2 \in 1 .. 8 /\ 3 \in 1 .. 8
  OBVIOUS
<1>3. Stages[2] = "first wave" /\ Stages[3] = "second wave"
  BY StagesAre
<1>4. \A i \in ItemsOf(program, Stages[s]) : at[i] # "open"
  BY <1>2, OverIs
<1>5. CASE s = 3
  <2>1. \A i \in ItemsOf(program, Stages[2]) : at[i] = "good"
    <3>1. 2 \in 1 .. s - 1 /\ ~(s > 3) /\ s # 5
      BY <1>5
    <3>. QED BY <1>2, <3>1, BehindIs
  <2>. QED BY <1>3, <1>4, <1>5, <2>1 DEF Imported
<1>6. CASE s = 2
  <2>1. mode.serve /\ ~result /\ s # 5
    BY <1>6
  <2>2. PICK i \in ItemsOf(program, Stages[2]) : at[i] = "bad"
    BY <1>2, <1>6, <2>1, OverIs
  <2>3. ItemsOf(program, Stages[3]) = {}
    <3>1. SUFFICES ASSUME Work(Stages[3]) # <<>> PROVE FALSE
      <4>1. Stages[3] = "second wave"
        BY <1>3
      <4>2. Work(Stages[3]) = program.work[Stages[3]]
        BY <4>1 DEF Work
      <4>. QED BY <4>2 DEF ItemsOf
    <3>2. i \in Items
      BY <1>1, <1>2, Places
    <3>3. i \notin Failing(program)
      BY <1>1, <2>1, <3>1, GraphIsSpared
    <3>4. PICK j \in Items : j # i /\ program.does[j] = "main" /\ at[j] \in {"good", "bad"}
      BY <1>1, <2>2, <3>2, <3>3 DEF MainIsRight
    <3>5. PICK r \in 1 .. 2 : j \in ItemsOf(program, Stages[r])
      BY <1>1, <1>2, <1>6, <3>4, BegunPlace
    <3>6. j \in ItemsOf(program, Stages[1]) \cup ItemsOf(program, Stages[2])
      <4>1. r = 1 \/ r = 2
        OBVIOUS
      <4>. QED BY <3>5, <4>1
    <3>7. program.does[i] = "main"
      BY <1>1, <2>2, <3>2, <3>3 DEF MainIsRight
    <3>8. i \in ItemsOf(program, Stages[1]) \cup ItemsOf(program, Stages[2])
      OBVIOUS
    <3>9. \A k, l \in ItemsOf(program, Stages[1]) \cup ItemsOf(program, Stages[2]) :
             program.does[k] = "main" /\ program.does[l] = "main" => k = l
      BY <1>1, <2>1, <3>1, GraphIsSpared
    <3>. QED BY <3>4, <3>6, <3>7, <3>8, <3>9
  <2>. QED BY <1>3, <1>4, <1>6, <2>3 DEF Imported
<1>. QED BY <1>5, <1>6

(* Where the main thread goes when a stage is over. *)
GoesOn(s) ==
  \/ s \in {1, 2} /\ result /\ stage' = Stages[s + 1]
  \/ /\ s \in {2, 3} /\ ((result /\ s = 3) \/ mode.serve) /\ ~MissingMain
     /\ "types" \notin program.bad /\ stage' = Stages[4]
  \/ s = 4 /\ stage' = Stages[5]
  \/ s \in {5, 6} /\ result /\ stage' = Stages[s + 1]
  \/ s = 7 /\ result /\ mode.test /\ stage' = Stages[8]

GoesAway(s) ==
  \/ /\ (s = 7 /\ ~mode.test) \/ s = 8
     /\ result /\ ~mode.serve /\ stage' = "analysis"
  \/ /\ ~mode.serve /\ stage' = "failed"
     /\ ~result \/ (s = 3 /\ result /\ (MissingMain \/ "types" \in program.bad))
  \/ s \in {2, 3} /\ mode.serve /\ "types" \in program.bad /\ stage' = "left"
  \/ mode.serve /\ stage' = "cleanup"

(* The next stage, or a way out: nothing else follows a stage. *)
LEMMA NextStageGoes ==
  ASSUME DriverCareless = {}, Inv, NextStage, NEW s \in 1 .. 8, stage = Stages[s]
  PROVE  status' = status /\ (GoesOn(s) \/ GoesAway(s))
<1>1. StageIsOver
  BY DEF NextStage, StageIsOver, AtWork, AtStage
<1>2. PICK t : t = After(stage)
  OBVIOUS
<1>3. IF t = "crash" THEN status' = "crashed" /\ UNCHANGED stage
      ELSE /\ stage' = (IF mode.serve /\ t \in {"analysis", "failed"} THEN "cleanup" ELSE t)
           /\ UNCHANGED status
  BY <1>2 DEF NextStage
<1>4. \A r \in 1 .. 8 : Stages[r] \notin {"crash", "analysis", "failed"}
  <2>1. ASSUME NEW r \in 1 .. 8
        PROVE  Stages[r] \notin {"crash", "analysis", "failed"}
    <3>1. r \in {1, 2, 3, 4, 5, 6, 7, 8}
      OBVIOUS
    <3>. QED BY <3>1, StagesAre
  <2>. QED BY <2>1
<1>5. CASE s = 1
  <2>1. t = IF result THEN Stages[2] ELSE "failed"
    BY <1>2, <1>5, AfterIs
  <2>2. 2 \in 1 .. 8 /\ s + 1 = 2
    BY <1>5
  <2>. QED BY <1>3, <1>4, <1>5, <2>1, <2>2 DEF GoesOn, GoesAway
<1>6. CASE s \in {2, 3}
  <2>1. t = AfterWave(stage)
    BY <1>2, <1>6, AfterIs
  <2>2. stage = "first wave" <=> s = 2
    BY <1>6, StagesAre
  <2>3. Stages[3] = "second wave" /\ Stages[4] = "const data"
    BY StagesAre
  <2>4. CASE ~result /\ ~mode.serve
    BY <1>3, <2>1, <2>4 DEF AfterWave, GoesAway
  <2>5. CASE result /\ s = 2
    <3>1. s + 1 = 3
      BY <2>5
    <3>. QED BY <1>3, <2>1, <2>2, <2>3, <2>5, <3>1 DEF AfterWave, GoesOn
  <2>6. CASE (result \/ mode.serve) /\ ~(result /\ s = 2)
    <3>1. Imported = {}
      BY <1>1, <1>6, <2>6, NothingIsMissing
    <3>2. t = IF MissingMain THEN "failed"
              ELSE IF "types" \in program.bad THEN (IF mode.serve THEN "left" ELSE "failed")
              ELSE "const data"
      BY <2>1, <2>2, <2>6, <3>1 DEF AfterWave
    <3>3. CASE MissingMain
      BY <1>3, <1>6, <2>6, <3>2, <3>3 DEF GoesAway, MissingMain
    <3>4. CASE ~MissingMain /\ "types" \in program.bad
      BY <1>3, <1>6, <2>6, <3>2, <3>4 DEF GoesAway
    <3>5. CASE ~MissingMain /\ "types" \notin program.bad
      BY <1>3, <1>6, <2>3, <2>6, <3>2, <3>5 DEF GoesOn
    <3>. QED BY <3>3, <3>4, <3>5
  <2>. QED BY <2>4, <2>5, <2>6
<1>7. CASE s = 4
  <2>1. t = Stages[5] /\ 5 \in 1 .. 8
    BY <1>2, <1>7, AfterIs
  <2>. QED BY <1>3, <1>4, <1>7, <2>1 DEF GoesOn
<1>8. CASE s \in {5, 6}
  <2>1. t = (IF result THEN Stages[s + 1] ELSE "failed") /\ s + 1 \in 1 .. 8
    BY <1>2, <1>8, AfterIs
  <2>. QED BY <1>3, <1>4, <1>8, <2>1 DEF GoesOn, GoesAway
<1>9. CASE s = 7
  <2>1. t = (IF ~result THEN "failed" ELSE IF mode.test THEN Stages[8] ELSE "analysis") /\ 8 \in 1 .. 8
    BY <1>2, <1>9, AfterIs
  <2>. QED BY <1>3, <1>4, <1>9, <2>1 DEF GoesOn, GoesAway
<1>10. CASE s = 8
  <2>1. t = IF result THEN "analysis" ELSE "failed"
    BY <1>2, <1>10, AfterIs
  <2>. QED BY <1>3, <1>4, <1>10, <2>1 DEF GoesOn, GoesAway
<1>11. s \in {1, 2, 3, 4, 5, 6, 7, 8}
  OBVIOUS
<1>. QED BY <1>5, <1>6, <1>7, <1>8, <1>9, <1>10, <1>11

(* When no item is on its way, the main thread may go to another place. *)
LEMMA MovesOn ==
  ASSUME Inv, \A i \in Items : at[i] \notin Busy, UNCHANGED <<whole, at, pool>>,
         UNCHANGED <<holder, bindings, asked, said>>,
         stage' \in AllStages, next' = 0, awaited' = 0, here' = NoItem, result' \in BOOLEAN,
         live' \in BOOLEAN, main_function' \in BOOLEAN, main_function' => main_function,
         AtStage' => AtStage /\ main_function' = main_function,
         fip' \in {fip, Off}, status' \in {"none", "0", "1"},
         status' \in {"0", "1"} \/ stage' = "idle" => fip' = Off
  PROVE  Types' /\ PoolIsRight' /\ Window' /\ MainIsRight' /\ SessionIsRight'
<1>1. Types /\ PoolIsRight /\ MainIsRight /\ SessionIsRight
  BY DEF Inv
<1>2. /\ mode' = mode /\ program' = program /\ requests' = requests
      /\ \A t : Work(t)' = Work(t)
      /\ Asks(program)' = Asks(program) /\ Failing(program)' = Failing(program)
  BY WholeStays
<1>3. at' = at /\ waiting' = waiting /\ running' = running
      /\ holder' = holder /\ bindings' = bindings /\ asked' = asked /\ said' = said
  BY DEF pool
<1>4. Types'
  <2>1. Careful(mode, program)' = Careful(mode, program)
    BY <1>2 DEF Careful, ItemsOf, Failing, Asks
  <2>2. Off \in Sessions
    BY DEF Off, Sessions
  <2>3. next' \in Nat /\ awaited' \in 0 .. next'
    OBVIOUS
  <2>4. fip' \in Sessions' /\ stage' \in AllStages'
    BY <1>1, <2>2 DEF Types, Sessions, AllStages, Later
  <2>. QED BY <1>1, <1>2, <1>3, <2>1, <2>3, <2>4 DEF Types
<1>5. PoolIsRight'
  BY <1>1, <1>3 DEF PoolIsRight
<1>6. Window'
  <2>1. ASSUME AtStage'
        PROVE  next' <= Len(Work(stage)')
    <3>1. PICK t \in 1 .. 8 : stage' = Stages[t]
      BY <2>1, StagesAre DEF AtStage
    <3>2. Work(stage)' = Work(Stages[t])
      BY <1>2, <3>1 DEF Work
    <3>3. Len(Work(Stages[t])) \in Nat
      BY <1>1, WorkIs
    <3>. QED BY <3>2, <3>3
  <2>. QED BY <1>3, <2>1 DEF Window
<1>7. \A i \in Items : at[i] \notin {"starting", "asking", "writing", "reporting", "defining"}
  BY DEF Busy
<1>8. MainIsRight'
  <2>1. main_function' => \E i \in Items : program.does[i] = "main" /\ at[i] \in {"good", "bad"}
    BY <1>1 DEF MainIsRight
  <2>2. AtStage' => \A i \in Items : program.does[i] = "main" /\ at[i] = "good" => main_function'
    BY <1>1 DEF MainIsRight
  <2>. QED BY <1>1, <1>2, <1>3, <1>7, <2>1, <2>2 DEF MainIsRight
<1>9. SessionIsRight'
  <2>1. bindings # "cut"
    BY <1>1, <1>7 DEF SessionIsRight
  <2>2. fip' # Off =>
         /\ fip'.active
         /\ \E i \in Asks(program) : at[i] # "open"
         /\ \/ fip'.modules = "off" /\ \E i \in Items : at[i] = "starting"
            \/ fip'.modules = "up" /\ fip'.of = program.project /\ program.fip = "up"
            \/ /\ fip'.modules = "mismatch" /\ program.fip = "mismatch"
               /\ \E i \in Asks(program) : at[i] = "bad"
    <3>1. SUFFICES ASSUME fip' # Off, fip' = fip
                   PROVE  /\ fip.active
                          /\ \E i \in Asks(program) : at[i] # "open"
                          /\ \/ fip.modules = "off" /\ \E i \in Items : at[i] = "starting"
                             \/ fip.modules = "up" /\ fip.of = program.project /\ program.fip = "up"
                             \/ /\ fip.modules = "mismatch" /\ program.fip = "mismatch"
                                /\ \E i \in Asks(program) : at[i] = "bad"
      OBVIOUS
    <3>2. fip # Off
      BY <3>1
    <3>. QED BY <1>1, <3>2 DEF SessionIsRight
  <2>3. Off' = Off
    BY DEF Off
  <2>4. said \subseteq asked
    BY <1>1 DEF SessionIsRight
  <2>. QED BY <1>2, <1>3, <1>7, <2>1, <2>2, <2>3, <2>4 DEF SessionIsRight
<1>. QED BY <1>4, <1>5, <1>6, <1>8, <1>9

(* What the end of a stage leaves alone, whatever follows. *)
LEMMA NextStageIs ==
  ASSUME Inv, NextStage
  PROVE  /\ StageIsOver
         /\ UNCHANGED <<whole, at, pool>> /\ UNCHANGED <<holder, bindings, asked, said>>
         /\ next' = 0 /\ awaited' = 0 /\ here' = NoItem /\ result' \in BOOLEAN
         /\ result' <=> (stage = "const data" => result)
         /\ live' = live /\ main_function' = main_function /\ fip' = fip /\ status = "none"
         /\ Due' = Due /\ Mains' = Mains /\ Ailing' = Ailing
BY WholeStays DEF NextStage, StageIsOver, AtWork, AtStage, session

(* To another stage: its result, and the order of the stages. *)
LEMMA GoesOnKeeps ==
  ASSUME DriverCareless = {}, Inv, NextStage, NEW s \in 1 .. 8, stage = Stages[s],
         status' = status, GoesOn(s)
  PROVE  Inv'
<1>1. Types /\ Window /\ Results /\ Order /\ Stations /\ MainIsRight /\ SessionIsRight
  BY DEF Inv
<1>2. /\ StageIsOver
      /\ UNCHANGED <<whole, at, pool>> /\ UNCHANGED <<holder, bindings, asked, said>>
      /\ next' = 0 /\ awaited' = 0 /\ here' = NoItem /\ result' \in BOOLEAN
      /\ result' <=> (stage = "const data" => result)
      /\ live' = live /\ main_function' = main_function /\ fip' = fip /\ status = "none"
      /\ Due' = Due /\ Mains' = Mains /\ Ailing' = Ailing
  BY NextStageIs
<1>3. AtStage /\ at' = at /\ status' = "none"
  BY <1>2 DEF StageIsOver
<1>4. PICK t \in 1 .. 8 :
        /\ stage' = Stages[t] /\ s < t
        /\ t = s + 1 \/ (s = 2 /\ t = 4 /\ mode.serve)
        /\ s = 4 \/ result \/ (s \in {2, 3} /\ mode.serve)
        /\ t = 8 => mode.test
        /\ t <= 3 => result
        /\ s \in {2, 3} /\ t = 4 => ~MissingMain /\ "types" \notin program.bad
  <2>1. CASE s \in {1, 2} /\ result /\ stage' = Stages[s + 1]
    <3>1. s + 1 \in 1 .. 8 /\ s + 1 # 4 /\ s + 1 # 8 /\ s < s + 1
      BY <2>1
    <3>. QED BY <2>1, <3>1
  <2>2. CASE /\ s \in {2, 3} /\ ((result /\ s = 3) \/ mode.serve) /\ ~MissingMain
             /\ "types" \notin program.bad /\ stage' = Stages[4]
    <3>1. 4 \in 1 .. 8 /\ s < 4 /\ (s = 3 => 4 = s + 1) /\ 4 # 8
      BY <2>2
    <3>2. ~(4 <= 3)
      OBVIOUS
    <3>. QED BY <2>2, <3>1, <3>2
  <2>3. CASE s = 4 /\ stage' = Stages[5]
    <3>1. 5 \in 1 .. 8 /\ s < 5 /\ 5 = s + 1 /\ 5 # 8 /\ ~(5 <= 3)
      BY <2>3
    <3>. QED BY <2>3, <3>1
  <2>4. CASE s \in {5, 6} /\ result /\ stage' = Stages[s + 1]
    <3>1. s + 1 \in 1 .. 8 /\ s + 1 # 4 /\ s + 1 # 8 /\ s < s + 1
      BY <2>4
    <3>. QED BY <2>4, <3>1
  <2>5. CASE s = 7 /\ result /\ mode.test /\ stage' = Stages[8]
    <3>1. 8 \in 1 .. 8 /\ s < 8 /\ 8 = s + 1
      BY <2>5
    <3>. QED BY <2>5, <3>1
  <2>. QED BY <2>1, <2>2, <2>3, <2>4, <2>5 DEF GoesOn
<1>5. stage = "const data" <=> s = 4
  <2>1. s \in {1, 2, 3, 4, 5, 6, 7, 8}
    OBVIOUS
  <2>. QED BY <2>1, StagesAre
<1>6. stage' = "data" <=> t = 5
  <2>1. t \in {1, 2, 3, 4, 5, 6, 7, 8}
    OBVIOUS
  <2>. QED BY <1>4, <2>1, StagesAre
<1>7. AtStage' /\ stage' \in AllStages /\ stage' \notin Later
      /\ stage' \notin {"failed", "shutdown 1", "exit", "cleanup", "idle", "left"}
  <2>1. t \in DOMAIN Stages
    BY StagesAre
  <2>2. AtStage'
    BY <1>4, <2>1 DEF AtStage
  <2>3. t \in {1, 2, 3, 4, 5, 6, 7, 8}
    OBVIOUS
  <2>4. Stages[t] \notin Later /\ Stages[t] \notin {"failed", "shutdown 1", "exit", "cleanup", "idle", "left"}
    BY <2>3, StagesAre DEF Later
  <2>. QED BY <1>4, <2>1, <2>2, <2>4 DEF AllStages
<1>8. \A i \in Items : at[i] \notin Busy
  BY <1>2, OverIs
<1>9. Types' /\ PoolIsRight' /\ Window' /\ MainIsRight' /\ SessionIsRight'
  <2>1. live' \in BOOLEAN /\ main_function' \in BOOLEAN
    BY <1>1, <1>2 DEF Types
  <2>. QED BY <1>2, <1>3, <1>7, <1>8, <2>1, MovesOn
<1>10. ~result' => s = 4 /\ t = 5 /\ ~result /\ \E i \in ItemsOf(program, Stages[4]) : at[i] = "bad"
  <2>1. SUFFICES ASSUME ~result' PROVE s = 4 /\ t = 5 /\ ~result /\ \E i \in ItemsOf(program, Stages[4]) : at[i] = "bad"
    OBVIOUS
  <2>2. s = 4 /\ ~result
    BY <1>2, <1>5, <2>1
  <2>3. t = 5 /\ s # 5
    BY <1>4, <2>2
  <2>. QED BY <1>2, <2>2, <2>3, OverIs
<1>11. Results'
  <2>1. mode' = mode /\ program' = program /\ \A u : Work(u)' = Work(u)
    BY <1>2, WholeStays
  <2>2. InParallel' => mode.parallel
    BY <2>1 DEF InParallel
  <2>3. ~result' /\ mode.parallel => Len(Work(stage)') = 0
    <3>1. SUFFICES ASSUME ~result', mode.parallel PROVE Len(Work(stage)') = 0
      OBVIOUS
    <3>2. PICK i \in ItemsOf(program, Stages[4]) : at[i] = "bad"
      BY <1>10, <3>1
    <3>3. 4 \in 1 .. 8 /\ 4 \in 4 .. 8 /\ ~(mode.serve /\ 4 = 8)
      OBVIOUS
    <3>4. i \in Items /\ program.does[i] # "main"
      BY <1>1, <3>3, Places
    <3>5. i \in Failing(program)
      BY <1>1, <3>2, <3>4 DEF MainIsRight
    <3>6. PICK n \in 1 .. Len(Work(Stages[4])) : i = Work(Stages[4])[n]
      <4>1. ItemsOf(program, Stages[4]) = {Work(Stages[4])[n] : n \in 1 .. Len(Work(Stages[4]))}
        BY <1>1, <3>3, WorkIs
      <4>. QED BY <4>1
    <3>7. Work(Stages[5]) = <<>>
      BY <1>1, <3>1, <3>3, <3>5, <3>6, LastFails
    <3>8. Work(stage)' = Work(Stages[5])
      BY <1>4, <1>10, <2>1, <3>1 DEF Work
    <3>. QED BY <3>7, <3>8
  <2>4. AtStage' /\ Short(stage)' /\ ~result' => awaited' = next' /\ (InParallel' => next' = Len(Work(stage)'))
    BY <1>2, <2>2, <2>3
  <2>5. \A n \in 1 .. 0 : FALSE
    OBVIOUS
  <2>6. ~result' => stage' = "data" /\ \E i \in Items : at'[i] = "bad"
    <3>1. 4 \in 1 .. 8
      OBVIOUS
    <3>2. ItemsOf(program, Stages[4]) \subseteq Items
      BY <1>1, <3>1, Places
    <3>. QED BY <1>3, <1>6, <1>10, <3>2
  <2>. QED BY <1>2, <2>4, <2>5, <2>6 DEF Results
<1>12. Order'
  <2>1. \A u \in DOMAIN Stages : stage' = Stages[u] => u = t
    BY <1>4, StagesAre
  <2>2. \A u : ItemsOf(program, u)' = ItemsOf(program, u)
    BY <1>2, WholeStays
  <2>3. ASSUME NEW i \in Items, at[i] # "open"
        PROVE  \E r \in 1 .. t - 1 : i \in ItemsOf(program, Stages[r])
    <3>1. PICK r \in 1 .. s : i \in ItemsOf(program, Stages[r])
      BY <1>1, <2>3, BegunPlace
    <3>2. r \in 1 .. t - 1
      BY <1>4
    <3>. QED BY <3>1, <3>2
  <2>4. ASSUME NEW r \in 1 .. t - 1, NEW i \in ItemsOf(program, Stages[r])
        PROVE  \/ at[i] = "good"
               \/ mode.serve /\ r \in {2, 3} /\ t > 3
               \/ stage' = "data" /\ ~result'
    <3>1. CASE r < s
      <4>1. s # 5 \/ result
        BY <1>4
      <4>2. r \in 1 .. s - 1
        BY <3>1
      <4>3. at[i] = "good" \/ (mode.serve /\ r \in {2, 3} /\ s > 3)
        BY <2>4, <4>1, <4>2, BehindIs
      <4>4. s > 3 => t > 3
        BY <1>4
      <4>. QED BY <4>3, <4>4
    <3>2. CASE r = s
      <4>1. CASE result
        <5>1. ~(mode.serve /\ s = 8)
          BY <1>4
        <5>. QED BY <1>2, <2>4, <3>2, <4>1, <5>1, OverIs
      <4>2. CASE ~result /\ s = 4
        <5>1. t = 5
          BY <1>4, <4>2
        <5>. QED BY <1>2, <1>5, <1>6, <4>2, <5>1
      <4>3. CASE ~result /\ s \in {2, 3} /\ mode.serve
        <5>1. CASE t > 3
          BY <3>2, <4>3, <5>1
        <5>2. CASE ~(t > 3)
          BY <1>4, <4>3, <5>2
        <5>. QED BY <5>1, <5>2
      <4>. QED BY <1>4, <4>1, <4>2, <4>3
    <3>3. CASE r > s
      <4>1. s = 2 /\ r = 3 /\ t > 3 /\ mode.serve
        BY <1>4, <3>3
      <4>. QED BY <4>1
    <3>. QED BY <3>1, <3>2, <3>3
  <2>5. mode' = mode
    BY <1>2, WholeStays
  <2>. QED BY <1>3, <2>1, <2>2, <2>3, <2>4, <2>5 DEF Order
<1>13. Stations'
  <2>1. stage' = "tests" <=> t = 8
    <3>1. t \in {1, 2, 3, 4, 5, 6, 7, 8}
      OBVIOUS
    <3>. QED BY <1>4, <3>1, StagesAre
  <2>2. mode' = mode /\ program' = program
    BY <1>2, WholeStays
  <2>3. stage' \in {Stages[u] : u \in 4 .. 8} =>
          "types" \notin program.bad /\ (mode.serve \/ mode.test \/ Mains # {})
    <3>1. SUFFICES ASSUME stage' \in {Stages[u] : u \in 4 .. 8}
                   PROVE  "types" \notin program.bad /\ (mode.serve \/ mode.test \/ Mains # {})
      OBVIOUS
    <3>2. t >= 4
      <4>1. PICK u \in 4 .. 8 : stage' = Stages[u]
        BY <3>1
      <4>2. u \in 1 .. 8
        OBVIOUS
      <4>3. u = t
        BY <1>4, <4>1, <4>2, StagesAre
      <4>. QED BY <4>3
    <3>3. CASE s >= 4
      <4>1. s \in 4 .. 8
        BY <3>3
      <4>. QED BY <1>1, <4>1 DEF Stations
    <3>4. CASE ~(s >= 4)
      <4>1. s \in {2, 3} /\ t = 4
        BY <1>4, <3>2, <3>4
      <4>2. "types" \notin program.bad /\ ~MissingMain
        BY <1>4, <4>1
      <4>3. main_function => Mains # {}
        BY <1>1 DEF MainIsRight, Stations, Mains
      <4>. QED BY <4>2, <4>3 DEF MissingMain
    <3>. QED BY <3>3, <3>4
  <2>4. live
    BY <1>1, <1>3 DEF Stations
  <2>5. \A i \in Items : at[i] # "open" => i \in Due
    BY <1>1 DEF Stations
  <2>6. stage' = "tests" => mode.test
    BY <1>4, <2>1
  <2>7. stage' # "left" /\ stage' # "cleanup" /\ stage' # "idle" /\ stage' # "linking"
        /\ stage' # "shutdown 0" /\ stage' # "failed" /\ stage' # "shutdown 1"
    BY <1>7 DEF Later
  <2>. QED BY <1>2, <1>3, <1>7, <2>2, <2>3, <2>4, <2>5, <2>6, <2>7 DEF Stations
<1>. QED BY <1>9, <1>11, <1>12, <1>13 DEF Inv

(* Away from the stages, only the stations have to be looked at. *)
Away == Later \cup {"failed", "shutdown 1", "exit", "cleanup", "idle", "left"}

(* Nothing is said of the stage's items when the main thread is at no
   stage. *)
LEMMA AwayIs ==
  ASSUME stage' \in Away
  PROVE  /\ stage' \in AllStages /\ ~AtStage' /\ Results' /\ Order'
         /\ stage' \notin {Stages[s] : s \in 4 .. 8} /\ stage' # "tests"
<1>1. \A s \in 1 .. 8 : Stages[s] \notin Away
  <2>1. ASSUME NEW s \in 1 .. 8
        PROVE  Stages[s] \notin Away
    <3>1. s \in {1, 2, 3, 4, 5, 6, 7, 8}
      OBVIOUS
    <3>. QED BY <3>1, StagesAre DEF Away, Later
  <2>. QED BY <2>1
<1>2. \A s \in DOMAIN Stages : stage' # Stages[s]
  BY <1>1, StagesAre
<1>3. ~AtStage'
  BY <1>2 DEF AtStage
<1>4. Results'
  BY <1>3 DEF Results
<1>5. Order'
  BY <1>2 DEF Order
<1>6. stage' \in AllStages
  BY DEF Away, AllStages
<1>7. \A s \in 4 .. 8 : s \in 1 .. 8
  OBVIOUS
<1>8. stage' \notin {Stages[s] : s \in 4 .. 8}
  BY <1>1, <1>7
<1>9. stage' # "tests"
  BY DEF Away, Later
<1>. QED BY <1>3, <1>4, <1>5, <1>6, <1>8, <1>9

(* Between stages, nothing but the main thread's place and its outcome
   change. *)
LEMMA MovesAway ==
  ASSUME Inv, \A i \in Items : at[i] \notin Busy, UNCHANGED <<whole, at, pool>>,
         UNCHANGED <<holder, bindings, asked, said>>,
         stage' \in Away, next' = 0, awaited' = 0, here' = NoItem, result' \in BOOLEAN,
         live' \in BOOLEAN, main_function' \in BOOLEAN, main_function' => main_function,
         fip' \in {fip, Off}, status' \in {"none", "0", "1"},
         status' \in {"0", "1"} \/ stage' = "idle" => fip' = Off,
         Stations'
  PROVE  Inv'
<1>1. stage' \in AllStages /\ ~AtStage' /\ Results' /\ Order'
  BY AwayIs
<1>2. Types' /\ PoolIsRight' /\ Window' /\ MainIsRight' /\ SessionIsRight'
  BY <1>1, MovesOn
<1>. QED BY <1>1, <1>2 DEF Inv

(* The stations away from the stages. *)
LEMMA StationsAway ==
  ASSUME Types, Stations, UNCHANGED whole, at' = at, stage' \in Away,
         stage' = "left" => /\ "types" \in program.bad
                            /\ \A i \in Items : at[i] # "open" =>
                                 \E s \in 1 .. 3 : i \in ItemsOf(program, Stages[s]),
         stage' \in {"cleanup", "idle", "left"} => mode.serve,
         stage' \in Later =>
           /\ "types" \notin program.bad /\ ~mode.serve /\ (mode.test \/ Mains # {})
           /\ \A i \in Due : at[i] = "good",
         stage' \in Later \ {"analysis"} => "analysis" \notin program.bad,
         stage' \in {"linking", "shutdown 0"} => "generation" \notin program.bad,
         stage' = "shutdown 0" => "linking" \notin program.bad,
         stage' \in {"analysis", "generation"} => live',
         stage' \in {"failed", "shutdown 1"} => Ailing,
         status' = "0" => ~Ailing /\ \A i \in Due : at[i] = "good",
         status' = "1" => Ailing
  PROVE  Stations'
<1>1. /\ mode' = mode /\ program' = program
      /\ \A t : ItemsOf(program, t)' = ItemsOf(program, t)
      /\ Due' = Due /\ Mains' = Mains /\ Ailing' = Ailing
  BY WholeStays
<1>2. ~AtStage'
  BY AwayIs
<1>3. stage' \notin {Stages[s] : s \in 4 .. 8}
  BY AwayIs
<1>4. stage' # "tests"
  BY AwayIs
<1>5. \A i \in Items : at'[i] # "open" => i \in Due
  BY DEF Stations
<1>. QED BY <1>1, <1>2, <1>3, <1>4, <1>5 DEF Stations

(* Out of the stages: what the place found stands for. *)
LEMMA GoesAwayKeeps ==
  ASSUME DriverCareless = {}, Inv, NextStage, NEW s \in 1 .. 8, stage = Stages[s],
         status' = status, GoesAway(s)
  PROVE  Inv'
<1>1. Types /\ Window /\ Order /\ Stations /\ MainIsRight
  BY DEF Inv
<1>2. /\ StageIsOver
      /\ UNCHANGED <<whole, at, pool>> /\ UNCHANGED <<holder, bindings, asked, said>>
      /\ next' = 0 /\ awaited' = 0 /\ here' = NoItem /\ result' \in BOOLEAN
      /\ live' = live /\ main_function' = main_function /\ fip' = fip /\ status = "none"
      /\ Due' = Due /\ Mains' = Mains /\ Ailing' = Ailing
  BY NextStageIs
<1>3. AtStage /\ at' = at /\ status' = "none"
  BY <1>2 DEF StageIsOver
<1>4. \A i \in Items : at[i] \notin Busy
  BY <1>2, OverIs
<1>5. live' \in BOOLEAN /\ main_function' \in BOOLEAN
  BY <1>1, <1>2 DEF Types
<1>6. CASE ((s = 7 /\ ~mode.test) \/ s = 8) /\ result /\ ~mode.serve /\ stage' = "analysis"
  <2>1. stage \in {Stages[u] : u \in 4 .. 8}
    <3>1. s \in 4 .. 8
      BY <1>6
    <3>. QED BY <3>1
  <2>2. "types" \notin program.bad /\ (mode.test \/ Mains # {})
    BY <1>1, <1>6, <2>1 DEF Stations
  <2>3. \A i \in Due : at[i] = "good"
    <3>1. ASSUME NEW i \in Due
          PROVE  at[i] = "good"
      <4>1. PICK r \in 1 .. 8 : (r = 8 => mode.test) /\ i \in ItemsOf(program, Stages[r])
        BY <1>1, DueIs
      <4>2. CASE r = s
        BY <1>2, <1>6, <4>1, <4>2, OverIs
      <4>3. CASE r # s
        <5>1. r \in 1 .. s - 1
          BY <1>6, <4>1, <4>3
        <5>. QED BY <1>6, <4>1, <5>1, BehindIs
      <4>. QED BY <4>2, <4>3
    <3>. QED BY <3>1
  <2>4. live'
    BY <1>1, <1>2, <1>3 DEF Stations
  <2>5. stage' \in Away
    BY <1>6 DEF Away, Later
  <2>6. Stations'
    BY <1>1, <1>2, <1>3, <1>6, <2>2, <2>3, <2>4, <2>5, StationsAway
  <2>. QED BY <1>2, <1>3, <1>4, <1>5, <1>6, <2>5, <2>6, MovesAway
<1>7. CASE /\ ~mode.serve /\ stage' = "failed"
           /\ ~result \/ (s = 3 /\ result /\ (MissingMain \/ "types" \in program.bad))
  <2>1. Ailing
    <3>1. CASE ~result
      <4>1. PICK i \in Items : at[i] = "bad"
        BY <1>2, <3>1, OverIs
      <4>. QED BY <1>1, <4>1, BadIsAiling
    <3>2. CASE "types" \in program.bad
      BY <3>2 DEF Ailing
    <3>3. CASE s = 3 /\ result /\ MissingMain
      <4>1. SUFFICES ASSUME NEW i \in Mains PROVE FALSE
        BY <3>3 DEF Ailing, MissingMain
      <4>2. i \in Due /\ program.does[i] = "main" /\ i \in Items
        BY <1>1, DueIs DEF Mains
      <4>3. PICK r \in 1 .. 8 : i \in ItemsOf(program, Stages[r])
        BY <1>1, <4>2, DueIs
      <4>4. r <= 3
        BY <1>1, <4>2, <4>3, Places
      <4>5. at[i] = "good"
        <5>1. CASE r = s
          <6>1. ~(mode.serve /\ s = 8)
            BY <3>3
          <6>. QED BY <1>2, <3>3, <4>3, <5>1, <6>1, OverIs
        <5>2. CASE r # s
          <6>1. r \in 1 .. s - 1 /\ ~(s > 3) /\ s # 5
            BY <3>3, <4>4, <5>2
          <6>. QED BY <4>3, <6>1, BehindIs
        <5>. QED BY <5>1, <5>2
      <4>. QED BY <1>1, <1>3, <3>3, <4>2, <4>5 DEF MainIsRight, MissingMain
    <3>. QED BY <1>7, <3>1, <3>2, <3>3
  <2>2. stage' \in Away /\ stage' \notin Later
    BY <1>7 DEF Away, Later
  <2>3. Stations'
    BY <1>1, <1>2, <1>3, <1>7, <2>1, <2>2, StationsAway
  <2>. QED BY <1>2, <1>3, <1>4, <1>5, <1>7, <2>2, <2>3, MovesAway
<1>8. CASE s \in {2, 3} /\ mode.serve /\ "types" \in program.bad /\ stage' = "left"
  <2>1. \A i \in Items : at[i] # "open" => \E r \in 1 .. 3 : i \in ItemsOf(program, Stages[r])
    <3>1. ASSUME NEW i \in Items, at[i] # "open"
          PROVE  \E r \in 1 .. 3 : i \in ItemsOf(program, Stages[r])
      <4>1. PICK r \in 1 .. s : i \in ItemsOf(program, Stages[r])
        BY <1>1, <3>1, BegunPlace
      <4>2. r \in 1 .. 3
        BY <1>8
      <4>. QED BY <4>1, <4>2
    <3>. QED BY <3>1
  <2>2. stage' \in Away /\ stage' \notin Later
    BY <1>8 DEF Away, Later
  <2>3. Stations'
    BY <1>1, <1>2, <1>3, <1>8, <2>1, <2>2, StationsAway
  <2>. QED BY <1>2, <1>3, <1>4, <1>5, <1>8, <2>2, <2>3, MovesAway
<1>9. CASE mode.serve /\ stage' = "cleanup"
  <2>1. stage' \in Away /\ stage' \notin Later
    BY <1>9 DEF Away, Later
  <2>2. Stations'
    BY <1>1, <1>2, <1>3, <1>9, <2>1, StationsAway
  <2>. QED BY <1>2, <1>3, <1>4, <1>5, <1>9, <2>1, <2>2, MovesAway
<1>. QED BY <1>6, <1>7, <1>8, <1>9 DEF GoesAway

(* The end of a stage, on any of its ways. *)
LEMMA NextStageKeeps ==
  ASSUME DriverCareless = {}, Inv, NextStage
  PROVE  Inv'
<1>1. AtStage /\ Types
  BY DEF NextStage, AtWork, AtStage, Inv
<1>2. PICK s \in 1 .. 8 : stage = Stages[s]
  BY <1>1, StageIs
<1>. QED BY <1>2, NextStageGoes, GoesOnKeeps, GoesAwayKeeps

----------------------------------------
(* The main thread behind the stages. *)

(* The steps behind the stages find no item on its way. *)
LEMMA MainStepIs ==
  ASSUME Inv, NEW from \in Away, NEW to \in Away, MainStep(from, to)
  PROVE  /\ \A i \in Items : at[i] \notin Busy
         /\ UNCHANGED <<whole, at, pool>> /\ at' = at /\ stage = from /\ stage' = to
         /\ next' = 0 /\ awaited' = 0 /\ here' = NoItem /\ result' \in BOOLEAN
         /\ live \in BOOLEAN /\ main_function \in BOOLEAN /\ status = "none"
<1>1. Types /\ Window
  BY DEF Inv
<1>2. /\ UNCHANGED <<whole, next, awaited, result, here, at, pool>>
      /\ stage = from /\ stage' = to /\ status = "none"
  BY DEF MainStep
<1>3. ~AtStage
  BY <1>1, <1>2, StageIsNoOther DEF Away
<1>4. \A i \in Items : at[i] \notin Busy
  BY <1>1, <1>3 DEF Window
<1>5. next = 0 /\ here = NoItem
  BY <1>1, <1>3 DEF Window
<1>6. awaited = 0 /\ result \in BOOLEAN /\ live \in BOOLEAN /\ main_function \in BOOLEAN
  BY <1>1, <1>5 DEF Types
<1>. QED BY <1>2, <1>4, <1>5, <1>6

(* The analysis begins when all is parsed. *)
LEMMA AnalyzeKeeps ==
  ASSUME Inv, Analyze
  PROVE  Inv'
<1>1. PICK to : to = IF "analysis" \in program.bad THEN "failed" ELSE "generation"
  OBVIOUS
<1>2. to \in Away /\ "analysis" \in Away
  BY <1>1 DEF Away, Later
<1>3. MainStep("analysis", to) /\ UNCHANGED <<live, main_function, session, status>>
  BY <1>1 DEF Analyze
<1>4. /\ \A i \in Items : at[i] \notin Busy
      /\ UNCHANGED <<whole, at, pool>> /\ at' = at /\ stage = "analysis" /\ stage' = to
      /\ next' = 0 /\ awaited' = 0 /\ here' = NoItem /\ result' \in BOOLEAN
      /\ live \in BOOLEAN /\ main_function \in BOOLEAN /\ status = "none"
  BY <1>2, <1>3, MainStepIs
<1>5. UNCHANGED <<holder, bindings, asked, said>> /\ fip' = fip
  BY <1>3 DEF session
<1>6. Types /\ Stations
  BY DEF Inv
<1>7. to = "failed" => Ailing
  BY <1>1 DEF Ailing
<1>8. Stations'
  <2>1. /\ "types" \notin program.bad /\ ~mode.serve /\ (mode.test \/ Mains # {})
        /\ \A i \in Due : at[i] = "good"
    BY <1>4, <1>6 DEF Stations, Later
  <2>2. live'
    <3>1. live /\ live' = live
      BY <1>3, <1>4, <1>6 DEF Stations
    <3>. QED BY <3>1
  <2>3. stage' \in Away /\ at' = at /\ UNCHANGED whole /\ status' = "none"
        /\ stage' \in {"failed", "generation"}
    BY <1>1, <1>2, <1>3, <1>4
  <2>4. stage' = "failed" => Ailing /\ stage' \notin Later
    BY <1>4, <1>7 DEF Later
  <2>5. stage' = "generation" => "analysis" \notin program.bad
    BY <1>1, <1>4
  <2>. QED BY <1>6, <2>1, <2>2, <2>3, <2>4, <2>5, StationsAway
<1>. QED BY <1>1, <1>2, <1>3, <1>4, <1>5, <1>8, MovesAway

(* The generator clears the parsers when no item is on its way. *)
LEMMA GenerateKeeps ==
  ASSUME Inv, Generate
  PROVE  Inv'
<1>1. PICK to : to = IF "generation" \in program.bad THEN "failed" ELSE "linking"
  OBVIOUS
<1>2. to \in Away /\ "generation" \in Away
  BY <1>1 DEF Away, Later
<1>3. /\ MainStep("generation", to) /\ UNCHANGED <<session, status>>
      /\ live' = ("generation" \in program.bad) /\ main_function' = (main_function /\ live')
  BY <1>1 DEF Generate
<1>4. /\ \A i \in Items : at[i] \notin Busy
      /\ UNCHANGED <<whole, at, pool>> /\ at' = at /\ stage = "generation" /\ stage' = to
      /\ next' = 0 /\ awaited' = 0 /\ here' = NoItem /\ result' \in BOOLEAN
      /\ live \in BOOLEAN /\ main_function \in BOOLEAN /\ status = "none"
  BY <1>2, <1>3, MainStepIs
<1>5. UNCHANGED <<holder, bindings, asked, said>> /\ fip' = fip
  BY <1>3 DEF session
<1>6. Types /\ Stations
  BY DEF Inv
<1>7. to = "failed" => Ailing
  BY <1>1 DEF Ailing
<1>8. Stations'
  <2>1. /\ "types" \notin program.bad /\ ~mode.serve /\ (mode.test \/ Mains # {})
        /\ \A i \in Due : at[i] = "good"
        /\ "analysis" \notin program.bad
    BY <1>4, <1>6 DEF Stations, Later
  <2>. QED BY <1>1, <1>2, <1>3, <1>4, <1>6, <1>7, <2>1, StationsAway
<1>9. live' \in BOOLEAN /\ main_function' \in BOOLEAN /\ (main_function' => main_function)
  <2>1. live' \in BOOLEAN
    BY <1>3
  <2>2. main_function' \in BOOLEAN
    BY <1>3
  <2>3. main_function' => main_function
    BY <1>3
  <2>. QED BY <2>1, <2>2, <2>3
<1>. QED BY <1>1, <1>2, <1>3, <1>4, <1>5, <1>8, <1>9, MovesAway

(* Linking comes last, with nothing left that could fail unseen. *)
LEMMA LinkKeeps ==
  ASSUME Inv, Link
  PROVE  Inv'
<1>1. PICK to : to = IF "linking" \in program.bad THEN "shutdown 1" ELSE "shutdown 0"
  OBVIOUS
<1>2. to \in Away /\ "linking" \in Away
  BY <1>1 DEF Away, Later
<1>3. MainStep("linking", to) /\ UNCHANGED <<live, main_function, session, status>>
  BY <1>1 DEF Link
<1>4. /\ \A i \in Items : at[i] \notin Busy
      /\ UNCHANGED <<whole, at, pool>> /\ at' = at /\ stage = "linking" /\ stage' = to
      /\ next' = 0 /\ awaited' = 0 /\ here' = NoItem /\ result' \in BOOLEAN
      /\ live \in BOOLEAN /\ main_function \in BOOLEAN /\ status = "none"
  BY <1>2, <1>3, MainStepIs
<1>5. UNCHANGED <<holder, bindings, asked, said>> /\ fip' = fip
  BY <1>3 DEF session
<1>6. Types /\ Stations
  BY DEF Inv
<1>7. to = "shutdown 1" => Ailing
  BY <1>1 DEF Ailing
<1>8. Stations'
  <2>1. /\ "types" \notin program.bad /\ ~mode.serve /\ (mode.test \/ Mains # {})
        /\ \A i \in Due : at[i] = "good"
        /\ "analysis" \notin program.bad /\ "generation" \notin program.bad
    BY <1>4, <1>6 DEF Stations, Later
  <2>. QED BY <1>1, <1>2, <1>3, <1>4, <1>6, <1>7, <2>1, StationsAway
<1>. QED BY <1>1, <1>2, <1>3, <1>4, <1>5, <1>8, MovesAway

(* The parsers that failed are cleared when no item is on its way. *)
LEMMA ClearInstancesKeeps ==
  ASSUME Inv, ClearInstances
  PROVE  Inv'
<1>1. "failed" \in Away /\ "shutdown 1" \in Away /\ "shutdown 1" \notin Later
  BY DEF Away, Later
<1>2. /\ MainStep("failed", "shutdown 1") /\ UNCHANGED <<session, status>>
      /\ live' = FALSE /\ main_function' = FALSE
  BY DEF ClearInstances
<1>3. /\ \A i \in Items : at[i] \notin Busy
      /\ UNCHANGED <<whole, at, pool>> /\ at' = at /\ stage = "failed" /\ stage' = "shutdown 1"
      /\ next' = 0 /\ awaited' = 0 /\ here' = NoItem /\ result' \in BOOLEAN
      /\ live \in BOOLEAN /\ main_function \in BOOLEAN /\ status = "none"
  BY <1>1, <1>2, MainStepIs
<1>4. UNCHANGED <<holder, bindings, asked, said>> /\ fip' = fip
  BY <1>2 DEF session
<1>5. Types /\ Stations
  BY DEF Inv
<1>6. Stations'
  <2>1. Ailing
    BY <1>3, <1>5 DEF Stations
  <2>. QED BY <1>1, <1>2, <1>3, <1>5, <2>1, StationsAway
<1>. QED BY <1>1, <1>2, <1>3, <1>4, <1>6, MovesAway

(* More than one is not at most one. *)
LEMMA NotMoreThanOne ==
  ASSUME NEW n \in Nat
  PROVE  n > 1 <=> ~(n <= 1)
OBVIOUS

(* A program that has come through everything has nothing that fails. *)
LEMMA NothingAils ==
  ASSUME Inv, stage = "shutdown 0"
  PROVE  ~Ailing /\ \A i \in Due : at[i] = "good"
<1>1. Types /\ Stations /\ MainIsRight
  BY DEF Inv
<1>2. /\ \A i \in Due : at[i] = "good"
      /\ mode.test \/ Mains # {}
      /\ "types" \notin program.bad /\ "analysis" \notin program.bad
      /\ "generation" \notin program.bad /\ "linking" \notin program.bad
  BY <1>1 DEF Stations, Later
<1>3. program.bad = {}
  BY <1>1, <1>2, ProgramIs, ZenonT(60) DEF Outcomes
<1>4. Due \subseteq Items /\ Mains \subseteq Due
  BY <1>1, DueIs
<1>5. Due \cap Failing(program) = {}
  BY <1>1, <1>2, <1>4 DEF MainIsRight
<1>6. \A i, j \in Mains : i = j
  BY <1>1, <1>2, <1>4 DEF MainIsRight, Mains
<1>7. IsFiniteSet(Mains)
  BY <1>4, ItemsAreFinite
<1>8. Cardinality(Mains) <= 1 /\ Cardinality(Mains) \in Nat
  BY <1>6, <1>7, AtMostOne, FS_CardinalityType
<1>9. ~(Cardinality(Mains) > 1)
  BY <1>8, NotMoreThanOne
<1>. QED BY <1>2, <1>3, <1>5, <1>9 DEF Ailing

(* The session is off when the exit status is known. *)
LEMMA ShutdownKeeps ==
  ASSUME Inv, Shutdown
  PROVE  Inv'
<1>1. Types /\ Stations
  BY DEF Inv
<1>2. /\ fip' = Off /\ UNCHANGED <<live, main_function, holder, bindings, asked, said>>
  BY DEF Shutdown
<1>3. /\ {"shutdown 0", "shutdown 1", "exit", "cleanup", "idle"} \subseteq Away
      /\ "exit" \notin Later /\ "idle" \notin Later
  BY DEF Away, Later
<1>4. CASE MainStep("shutdown 0", "exit") /\ status' = "0"
  <2>1. /\ \A i \in Items : at[i] \notin Busy
        /\ UNCHANGED <<whole, at, pool>> /\ at' = at /\ stage = "shutdown 0" /\ stage' = "exit"
        /\ next' = 0 /\ awaited' = 0 /\ here' = NoItem /\ result' \in BOOLEAN
        /\ live \in BOOLEAN /\ main_function \in BOOLEAN /\ status = "none"
    BY <1>3, <1>4, MainStepIs
  <2>2. ~Ailing /\ \A i \in Due : at[i] = "good"
    BY <2>1, NothingAils
  <2>3. Stations'
    BY <1>1, <1>3, <1>4, <2>1, <2>2, StationsAway
  <2>. QED BY <1>2, <1>3, <1>4, <2>1, <2>3, MovesAway
<1>5. CASE MainStep("shutdown 1", "exit") /\ status' = "1"
  <2>1. /\ \A i \in Items : at[i] \notin Busy
        /\ UNCHANGED <<whole, at, pool>> /\ at' = at /\ stage = "shutdown 1" /\ stage' = "exit"
        /\ next' = 0 /\ awaited' = 0 /\ here' = NoItem /\ result' \in BOOLEAN
        /\ live \in BOOLEAN /\ main_function \in BOOLEAN /\ status = "none"
    BY <1>3, <1>5, MainStepIs
  <2>2. Ailing
    BY <1>1, <2>1 DEF Stations
  <2>3. Stations'
    BY <1>1, <1>3, <1>5, <2>1, <2>2, StationsAway
  <2>. QED BY <1>2, <1>3, <1>5, <2>1, <2>3, MovesAway
<1>6. CASE MainStep("cleanup", "idle") /\ UNCHANGED status
  <2>1. /\ \A i \in Items : at[i] \notin Busy
        /\ UNCHANGED <<whole, at, pool>> /\ at' = at /\ stage = "cleanup" /\ stage' = "idle"
        /\ next' = 0 /\ awaited' = 0 /\ here' = NoItem /\ result' \in BOOLEAN
        /\ live \in BOOLEAN /\ main_function \in BOOLEAN /\ status = "none"
    BY <1>3, <1>6, MainStepIs
  <2>2. mode.serve
    BY <1>1, <2>1 DEF Stations
  <2>3. Stations'
    BY <1>1, <1>3, <1>6, <2>1, <2>2, StationsAway
  <2>. QED BY <1>2, <1>3, <1>6, <2>1, <2>3, MovesAway
<1>. QED BY <1>4, <1>5, <1>6 DEF Shutdown

(* The server that leaves has no session: no tag was imported. *)
LEMMA LeaveKeeps ==
  ASSUME DriverCareless = {}, Inv, Leave
  PROVE  Inv'
<1>1. Types /\ Stations /\ SessionIsRight
  BY DEF Inv
<1>2. {"left", "idle"} \subseteq Away /\ "idle" \notin Later
  BY DEF Away, Later
<1>3. MainStep("left", "idle") /\ UNCHANGED <<live, main_function, session, status>>
  BY DEF Leave
<1>4. /\ \A i \in Items : at[i] \notin Busy
      /\ UNCHANGED <<whole, at, pool>> /\ at' = at /\ stage = "left" /\ stage' = "idle"
      /\ next' = 0 /\ awaited' = 0 /\ here' = NoItem /\ result' \in BOOLEAN
      /\ live \in BOOLEAN /\ main_function \in BOOLEAN /\ status = "none"
  BY <1>2, <1>3, MainStepIs
<1>5. UNCHANGED <<holder, bindings, asked, said>> /\ fip' = fip
  BY <1>3 DEF session
<1>6. mode.serve
  BY <1>1, <1>4 DEF Stations
<1>7. fip = Off
  <2>1. SUFFICES ASSUME NEW i \in Asks(program), at[i] # "open" PROVE FALSE
    BY <1>1 DEF SessionIsRight
  <2>2. i \in Items
    BY DEF Asks
  <2>3. "types" \in program.bad /\ \E s \in 1 .. 3 : i \in ItemsOf(program, Stages[s])
    BY <1>1, <1>4, <2>1, <2>2 DEF Stations
  <2>. QED BY <1>1, <1>6, <2>1, <2>3, LeftIsSpared
<1>8. Stations'
  BY <1>1, <1>2, <1>3, <1>4, <1>6, StationsAway
<1>. QED BY <1>2, <1>3, <1>4, <1>5, <1>7, <1>8, MovesAway

----------------------------------------
(* Beginnings, and all steps. *)

(* The first stage, and a pool that is empty. *)
LEMMA FirstStage ==
  /\ 1 \in DOMAIN Stages /\ 1 \in 1 .. 8 /\ Stages[1] = "main file"
  /\ \A s \in 4 .. 8 : Stages[s] # "main file"
  /\ \A s \in DOMAIN Stages : Stages[s] = "main file" => s = 1
  /\ \A n \in 1 .. 0 : FALSE
<1>1. 1 \in 1 .. 8 /\ \A s \in 4 .. 8 : s \in 1 .. 8 /\ s # 1
  OBVIOUS
<1>2. DOMAIN Stages = 1 .. 8 /\ Stages[1] = "main file"
  BY StagesAre
<1>3. \A r, s \in 1 .. 8 : Stages[r] = Stages[s] => r = s
  BY StagesAre
<1>4. \A s \in 1 .. 8 : Stages[s] = "main file" => s = 1
  BY <1>1, <1>2, <1>3
<1>5. \A n \in 1 .. 0 : FALSE
  OBVIOUS
<1>. QED BY <1>1, <1>2, <1>4, <1>5

(* The compiler starts with nothing handed out and nothing known. *)
LEMMA InitIsRight ==
  ASSUME DriverInit
  PROVE  Inv
<1>1. /\ mode \in Modes /\ program \in Programs /\ Careful(mode, program)
      /\ stage = "main file" /\ next = 0 /\ awaited = 0 /\ result = TRUE /\ here = NoItem
      /\ at = Fresh /\ waiting = <<>> /\ running = {} /\ live = TRUE /\ main_function = FALSE
      /\ fip = Off /\ holder = NoItem /\ bindings = "absent" /\ asked = {} /\ said = {}
      /\ status = "none"
  BY DriverAssumption DEF DriverInit, DriverAssumption
<1>2. requests \in 0 .. Requests
  <2>1. Requests \in Nat
    BY DriverAssumption DEF DriverAssumption
  <2>2. requests = 0 \/ requests = Requests
    BY DEF DriverInit
  <2>. QED BY <2>1, <2>2
<1>3. at \in [Items -> {"open"}] /\ \A i \in Items : at[i] = "open"
  BY <1>1 DEF Fresh
<1>4. AtStage /\ stage = Stages[1] /\ 1 \in 1 .. 8
  <2>1. stage = Stages[1]
    BY <1>1, FirstStage
  <2>. QED BY <2>1, FirstStage DEF AtStage
<1>5. Types
  <2>1. fip \in Sessions
    BY <1>1 DEF Off, Sessions
  <2>2. stage \in AllStages
    BY <1>4 DEF AtStage, AllStages
  <2>3. at \in [Items -> {"open"} \cup Busy \cup {"good", "bad"}]
    BY <1>3
  <2>4. waiting \in Seq(Items)
    BY <1>1, EmptySeq
  <2>5. result \in BOOLEAN /\ live \in BOOLEAN
    BY <1>1
  <2>6. main_function \in BOOLEAN
    BY <1>1
  <2>7. next \in Nat /\ awaited \in 0 .. next
    <3>1. next = 0 /\ awaited = 0
      BY <1>1
    <3>. QED BY <3>1
  <2>8. running \subseteq Items /\ asked \subseteq Items
    BY <1>1
  <2>. QED BY <1>1, <1>2, <2>1, <2>2, <2>3, <2>4, <2>5, <2>6, <2>7, <2>8 DEF Types
<1>6. PoolIsRight
  <2>1. DOMAIN waiting = {}
    <3>1. Len(waiting) = 0 /\ DOMAIN waiting = 1 .. Len(waiting)
      BY <1>1, EmptySeq, LenProperties
    <3>. QED BY <3>1
  <2>. QED BY <1>1, <2>1 DEF PoolIsRight
<1>7. \A i \in Items : at[i] \notin Busy /\ at[i] # "good" /\ at[i] # "bad"
  BY <1>3 DEF Busy
<1>8. Window
  <2>1. Len(Work(stage)) \in Nat
    BY <1>4, <1>5, WorkIs
  <2>2. next <= Len(Work(stage))
    <3>1. next = 0
      BY <1>1
    <3>. QED BY <2>1, <3>1
  <2>. QED BY <1>1, <1>4, <1>7, <2>2 DEF Window
<1>9. Results
  <2>1. \A n \in 1 .. next : FALSE
    BY <1>1, FirstStage
  <2>2. \A n \in 1 .. awaited : FALSE
    BY <1>1, FirstStage
  <2>3. result
    BY <1>1
  <2>. QED BY <2>1, <2>2, <2>3 DEF Results
<1>10. Order
  <2>1. \A s \in DOMAIN Stages : stage = Stages[s] => s = 1
    BY <1>1, FirstStage
  <2>2. \A r \in 1 .. 1 - 1 : FALSE
    OBVIOUS
  <2>. QED BY <1>3, <2>1, <2>2 DEF Order
<1>11. Stations
  <2>1. \A s \in 4 .. 8 : stage # Stages[s]
    BY <1>1, FirstStage
  <2>2. stage \notin Later
    BY <1>1 DEF Later
  <2>. QED BY <1>1, <1>3, <2>1, <2>2 DEF Stations
<1>12. MainIsRight
  BY <1>1, <1>7 DEF MainIsRight, Busy
<1>13. SessionIsRight
  BY <1>1, <1>3 DEF SessionIsRight
<1>. QED BY <1>5, <1>6, <1>8, <1>9, <1>10, <1>11, <1>12, <1>13 DEF Inv

(* The next request finds no item on its way and no session. *)
LEMMA ServeKeeps ==
  ASSUME Inv, Serve
  PROVE  Inv'
<1>1. Types /\ PoolIsRight /\ Window /\ SessionIsRight
  BY DEF Inv
<1>2. /\ mode' = mode /\ program' \in Documents /\ Careful(mode, program')
      /\ stage' = "main file" /\ next' = 0 /\ awaited' = 0 /\ result' = TRUE /\ here' = here
      /\ at' = Fresh /\ waiting' = waiting /\ running' = running /\ live' = TRUE
      /\ main_function' = FALSE /\ fip' = fip /\ holder' = holder /\ bindings' = bindings
      /\ asked' = {} /\ said' = {} /\ status' = "none"
      /\ stage = "idle" /\ requests > 0 /\ requests' = requests - 1
  BY DEF Serve
<1>3. at' \in [Items -> {"open"}] /\ \A i \in Items : at'[i] = "open"
  BY <1>2 DEF Fresh
<1>4. /\ AtStage' /\ stage' = Stages[1] /\ stage' \notin Later
      /\ \A s \in DOMAIN Stages : stage' = Stages[s] => s = 1
      /\ \A s \in 4 .. 8 : stage' # Stages[s]
  <2>1. stage' = Stages[1]
    BY <1>2, FirstStage
  <2>2. AtStage'
    BY <2>1, FirstStage DEF AtStage
  <2>3. stage' \notin Later
    BY <1>2 DEF Later
  <2>. QED BY <1>2, <2>1, <2>2, <2>3, FirstStage
<1>5. ~AtStage
  <2>1. stage \in Away
    BY <1>2 DEF Away
  <2>. QED BY <1>1, <1>2, StageIsNoOther
<1>6. \A i \in Items : at[i] \notin Busy
  BY <1>1, <1>5 DEF Window
<1>7. program' \in Programs /\ program'.work["main file"] \in Seq(Items)
  <2>1. program' \in Programs /\ IsProgram(program')
    BY <1>2, DriverAssumption DEF DriverAssumption
  <2>. QED BY <2>1, FirstStage DEF IsProgram
<1>8. Types'
  <2>1. Careful(mode, program)'
    BY <1>2 DEF Careful, ItemsOf, Failing, Asks
  <2>2. requests' \in 0 .. Requests
    <3>1. Requests \in Nat
      BY DriverAssumption DEF DriverAssumption
    <3>2. requests \in 0 .. Requests
      BY <1>1 DEF Types
    <3>3. requests > 0 /\ requests' = requests - 1
      BY <1>2
    <3>. QED BY <3>1, <3>2, <3>3
  <2>3. at' \in [Items -> {"open"} \cup Busy \cup {"good", "bad"}]
    BY <1>3
  <2>4. stage' \in AllStages
    BY <1>4 DEF AtStage, AllStages
  <2>5. fip' \in Sessions' /\ stage' \in AllStages'
    BY <1>1, <1>2, <2>4 DEF Types, Sessions, AllStages, Later
  <2>6. result' \in BOOLEAN /\ live' \in BOOLEAN
    BY <1>2
  <2>7. main_function' \in BOOLEAN
    BY <1>2
  <2>8. next' \in Nat /\ awaited' \in 0 .. next'
    <3>1. next' = 0 /\ awaited' = 0
      BY <1>2
    <3>. QED BY <3>1
  <2>9. mode' \in Modes /\ here' \in Items \cup {NoItem} /\ holder' \in Items \cup {NoItem}
    BY <1>1, <1>2 DEF Types
  <2>10. waiting' \in Seq(Items) /\ running' \subseteq Items
    BY <1>1, <1>2 DEF Types
  <2>11. bindings' \in {"absent", "cut", "whole"} /\ asked' \subseteq Items /\ status' = "none"
    BY <1>1, <1>2 DEF Types
  <2>. QED BY <1>7, <2>1, <2>2, <2>3, <2>5, <2>6, <2>7, <2>8, <2>9, <2>10, <2>11 DEF Types
<1>9. PoolIsRight'
  <2>1. running = {}
    BY <1>1, <1>6 DEF PoolIsRight, Types
  <2>2. \A n \in DOMAIN waiting : waiting[n] \in Items
    BY <1>1, LenProperties DEF Types
  <2>3. DOMAIN waiting = {}
    BY <1>1, <1>6, <2>2, ZenonT(60) DEF PoolIsRight, Busy
  <2>. QED BY <1>2, <2>1, <2>3 DEF PoolIsRight
<1>10. \A i \in Items : at'[i] \notin Busy /\ at'[i] # "good" /\ at'[i] # "bad"
  BY <1>3 DEF Busy
<1>11. Window'
  <2>1. Work(stage)' = program'.work["main file"]
    BY <1>2 DEF Work
  <2>2. Len(Work(stage)') \in Nat
    BY <1>7, <2>1, LenProperties
  <2>3. here' = NoItem
    BY <1>1, <1>2, <1>5 DEF Window
  <2>4. next' <= Len(Work(stage)')
    <3>1. next' = 0
      BY <1>2
    <3>. QED BY <2>2, <3>1
  <2>. QED BY <1>2, <1>4, <1>10, <2>3, <2>4 DEF Window
<1>12. Results'
  <2>1. \A n \in 1 .. next' : FALSE
    BY <1>2, FirstStage
  <2>2. \A n \in 1 .. awaited' : FALSE
    BY <1>2, FirstStage
  <2>3. result'
    BY <1>2
  <2>. QED BY <2>1, <2>2, <2>3 DEF Results
<1>13. Order'
  <2>1. \A r \in 1 .. 1 - 1 : FALSE
    OBVIOUS
  <2>. QED BY <1>3, <1>4, <2>1 DEF Order
<1>14. Stations'
  BY <1>2, <1>3, <1>4 DEF Stations
<1>15. MainIsRight'
  BY <1>2, <1>10 DEF MainIsRight, Busy
<1>16. SessionIsRight'
  <2>1. fip = Off /\ Off' = Off
    BY <1>1, <1>2 DEF SessionIsRight, Off
  <2>2. bindings # "cut"
    BY <1>1, <1>6 DEF SessionIsRight, Busy
  <2>. QED BY <1>2, <1>3, <2>1, <2>2 DEF SessionIsRight
<1>. QED BY <1>8, <1>9, <1>11, <1>12, <1>13, <1>14, <1>15, <1>16 DEF Inv

(* Nothing changes. *)
LEMMA StutterKeeps ==
  ASSUME Inv, UNCHANGED driver_vars
  PROVE  Inv'
<1>1. /\ UNCHANGED whole /\ stage' = stage /\ next' = next /\ awaited' = awaited
      /\ result' = result /\ here' = here /\ at' = at /\ waiting' = waiting /\ running' = running
      /\ live' = live /\ main_function' = main_function /\ fip' = fip /\ holder' = holder
      /\ bindings' = bindings /\ asked' = asked /\ said' = said /\ status' = status
  BY DEF driver_vars, thread, pool, session
<1>2. /\ mode' = mode /\ program' = program /\ requests' = requests
      /\ \A t : Work(t)' = Work(t)
      /\ \A t : ItemsOf(program, t)' = ItemsOf(program, t)
      /\ Due' = Due /\ Mains' = Mains /\ Ailing' = Ailing
      /\ Asks(program)' = Asks(program) /\ Failing(program)' = Failing(program)
  BY <1>1, WholeStays
<1>3. Careful(mode, program)' = Careful(mode, program)
  BY <1>2 DEF Careful, ItemsOf, Failing, Asks
<1>4. AtStage' = AtStage /\ InParallel' = InParallel /\ Work(stage)' = Work(stage)
      /\ Short(stage)' = Short(stage) /\ Off' = Off
  BY <1>1, <1>2 DEF AtStage, InParallel, Work, Short, Off
<1>5. Types' /\ PoolIsRight'
  <2>1. fip' \in Sessions' /\ stage' \in AllStages'
    BY <1>1 DEF Inv, Types, Sessions, AllStages, Later
  <2>2. Types'
    BY <1>1, <1>2, <1>3, <2>1 DEF Inv, Types
  <2>3. PoolIsRight'
    BY <1>1 DEF Inv, PoolIsRight
  <2>. QED BY <2>2, <2>3
<1>6. Window' /\ Results'
  BY <1>1, <1>4 DEF Inv, Window, Results
<1>7. Order'
  BY <1>1, <1>2, <1>4 DEF Inv, Order
<1>8. Stations'
  BY <1>1, <1>2, <1>4 DEF Inv, Stations
<1>9. MainIsRight' /\ SessionIsRight'
  BY <1>1, <1>2, <1>4 DEF Inv, MainIsRight, SessionIsRight
<1>. QED BY <1>5, <1>6, <1>7, <1>8, <1>9 DEF Inv

(* Every step keeps the invariant: one lemma for each action. *)
LEMMA StepKeeps ==
  ASSUME DriverCareless = {}, Inv, [DriverNext]_driver_vars
  PROVE  Inv'
<1>1. CASE PickUp
  BY <1>1, PickUpKeeps
<1>2. CASE ThreadStep
  BY <1>2, HandOutKeeps, GetKeeps, TakeKeeps, PutKeeps, NextStageKeeps, AnalyzeKeeps,
     GenerateKeeps, LinkKeeps, ClearInstancesKeeps, ShutdownKeeps, LeaveKeeps DEF ThreadStep
<1>3. CASE Serve
  BY <1>3, ServeKeeps
<1>4. CASE \E i \in Items : ItemStep(i)
  BY <1>4, ParseKeeps, ParseBindingsKeeps, FindMainKeeps, StoreMainKeeps, EnterKeeps, InitKeeps,
     RequestKeeps, GenerateBindingsKeeps, ReportKeeps DEF ItemStep
<1>5. CASE UNCHANGED driver_vars
  BY <1>5, StutterKeeps
<1>. QED BY <1>1, <1>2, <1>3, <1>4, <1>5 DEF DriverNext, DriverEnded

----------------------------------------
(* The properties. *)

(* The invariant is stronger than each of the three properties. *)
LEMMA StagesFollowInv ==
  ASSUME Inv
  PROVE  StagesAreSound
<1>1. /\ Types /\ PoolIsRight /\ Window /\ Results /\ Order /\ Stations
  BY DEF Inv
<1>2. next \in 0 .. Cardinality(Items)
  <2>1. Cardinality(Items) \in Nat /\ next \in Nat
    BY <1>1, DriverAssumption, FS_CardinalityType DEF DriverAssumption, Types
  <2>2. CASE AtStage
    <3>1. PICK s \in 1 .. 8 : stage = Stages[s]
      BY <1>1, <2>2, StageIs
    <3>2. Len(Work(stage)) <= Cardinality(Items) /\ Len(Work(stage)) \in Nat
      BY <1>1, <3>1, WorkFits, WorkIs
    <3>3. next <= Len(Work(stage))
      BY <1>1, <2>2 DEF Window
    <3>. QED BY <2>1, <3>2, <3>3
  <2>3. CASE ~AtStage
    <3>1. next = 0
      BY <1>1, <2>3 DEF Window
    <3>. QED BY <2>1, <3>1
  <2>. QED BY <2>2, <2>3
<1>3. DriverTypeOK
  <2>1. at \in [Items -> {"open"} \cup Busy \cup Verdicts]
    BY <1>1 DEF Types, Verdicts
  <2>2. running \subseteq {i \in Items : at[i] \in Busy}
    BY <1>1 DEF Types, PoolIsRight
  <2>3. said \subseteq Items
    BY DEF Inv, Types, SessionIsRight
  <2>4. \A n \in DOMAIN waiting : at[waiting[n]] = "queued"
    BY <1>1 DEF PoolIsRight
  <2>. QED BY <1>1, <1>2, <2>1, <2>2, <2>3, <2>4 DEF DriverTypeOK, Types
<1>4. TasksDieFirst
  BY <1>1 DEF TasksDieFirst, Window, Stations
<1>5. StagesFollow
  <2>. DEFINE position(i) == CHOOSE s \in DOMAIN Stages : i \in ItemsOf(program, Stages[s])
  <2>1. ASSUME NEW i \in Items, NEW s \in 1 .. 8, i \in ItemsOf(program, Stages[s])
        PROVE  position(i) = s
    <3>1. DOMAIN Stages = 1 .. 8
      BY StagesAre
    <3>2. \A r \in 1 .. 8 : i \in ItemsOf(program, Stages[r]) => r = s
      BY <1>1, <2>1, Places
    <3>3. position(i) \in DOMAIN Stages /\ i \in ItemsOf(program, Stages[position(i)])
      BY <2>1, <3>1
    <3>. QED BY <3>1, <3>2, <3>3
  <2>2. ASSUME NEW i \in Items, at[i] \in Busy \ {"queued"}
        PROVE  /\ stage = Stages[position(i)]
               /\ \A j \in Items : at[j] # "open" /\ position(j) < position(i) =>
                    \/ at[j] = "good"
                    \/ mode.serve /\ Stages[position(j)] \in Waves
    <3>1. AtStage
      BY <1>1, <2>2, BusyPlace
    <3>2. PICK s \in 1 .. 8 : stage = Stages[s] /\ i \in ItemsOf(program, Stages[s])
      BY <1>1, <2>2, BusyPlace
    <3>3. position(i) = s
      BY <2>1, <3>2
    <3>4. ASSUME NEW j \in Items, at[j] # "open", position(j) < position(i)
          PROVE  \/ at[j] = "good"
                 \/ mode.serve /\ Stages[position(j)] \in Waves
      <4>1. PICK r \in 1 .. s : j \in ItemsOf(program, Stages[r])
        BY <1>1, <3>2, <3>4, BegunPlace
      <4>2. r \in 1 .. 8
        OBVIOUS
      <4>3. position(j) = r
        BY <2>1, <4>1, <4>2
      <4>4. r \in 1 .. s - 1 /\ s \in DOMAIN Stages
        <5>1. r < s
          BY <3>3, <3>4, <4>3
        <5>2. r \in 1 .. s - 1
          BY <5>1
        <5>. QED BY <5>2, StagesAre
      <4>5. ~(stage = "data" /\ ~result)
        <5>1. SUFFICES ASSUME stage = "data", ~result PROVE FALSE
          OBVIOUS
        <5>2. Short(stage)
          BY <5>1 DEF Short, Waves
        <5>3. awaited = next /\ next \in Nat
          BY <1>1, <3>1, <5>1, <5>2 DEF Results, Types
        <5>. QED BY <1>1, <2>2, <5>3 DEF Window
      <4>6. at[j] = "good" \/ (mode.serve /\ r \in {2, 3})
        BY <1>1, <3>2, <4>1, <4>4, <4>5 DEF Order
      <4>7. r \in {2, 3} => Stages[r] \in Waves
        BY StagesAre DEF Waves
      <4>. QED BY <4>3, <4>6, <4>7
    <3>. HIDE DEF position
    <3>. QED BY <3>2, <3>3, <3>4
  <2>. QED BY <2>2 DEF StagesFollow
<1>. QED BY <1>3, <1>4, <1>5 DEF StagesAreSound

(* The item with the mutex uses the session of its own project. *)
LEMMA SessionsFollowInv ==
  ASSUME Inv
  PROVE  SessionsAreSound
<1>1. Types /\ SessionIsRight
  BY DEF Inv
<1>2. \A i \in Items : at[i] \in {"starting", "asking", "writing"} => holder = i
  BY <1>1 DEF SessionIsRight
<1>3. ASSUME NEW i \in Items, at[i] = "asking"
      PROVE  fip.modules = "up" /\ fip.of = program.project
  <2>1. fip.modules = "up"
    BY <1>1, <1>3 DEF SessionIsRight
  <2>2. fip # Off
    BY <2>1 DEF Off
  <2>. QED BY <1>1, <2>1, <2>2 DEF SessionIsRight
<1>4. \A i \in Items : at[i] # "torn"
  BY <1>1 DEF Types, Busy
<1>5. (status \in {"0", "1"} \/ stage = "idle") => fip = Off
  BY <1>1 DEF SessionIsRight
<1>. QED BY <1>2, <1>3, <1>4, <1>5 DEF SessionsAreSound

(* An exit status is given when all items it is about are known. *)
LEMMA StatusFollowsInv ==
  ASSUME Inv
  PROVE  StatusTellsTheTruth
<1>1. status # "crashed" /\ said \subseteq asked
  BY DEF Inv, Types, SessionIsRight
<1>2. status = "0" => ~Ailing /\ \A i \in Due : at[i] = "good"
  BY DEF Inv, Stations
<1>3. status = "1" => Ailing
  BY DEF Inv, Stations
<1>. QED BY <1>1, <1>2, <1>3 DEF StatusTellsTheTruth, Ailing, Mains, Due

(* The invariant holds always. *)
LEMMA DriverInvariant ==
  ASSUME DriverCareless = {}
  PROVE  DriverSpec => []Inv
<1>1. DriverInit => Inv
  BY InitIsRight
<1>2. Inv /\ [DriverNext]_driver_vars => Inv'
  BY StepKeeps
<1>. QED BY <1>1, <1>2, PTL DEF DriverSpec

(* The stages come in order, and nothing is destroyed while an item is on
   its way that has a reference to it. *)
THEOREM StagesStaySound ==
  ASSUME DriverCareless = {}
  PROVE  DriverSpec => []StagesAreSound
<1>1. Inv => StagesAreSound
  BY StagesFollowInv
<1>. QED BY <1>1, DriverInvariant, PTL

(* One item at a time uses the session of the Flint Interop Protocol, with
   modules of the program's own project, and none is left behind. *)
THEOREM SessionsStaySound ==
  ASSUME DriverCareless = {}
  PROVE  DriverSpec => []SessionsAreSound
<1>1. Inv => SessionsAreSound
  BY SessionsFollowInv
<1>. QED BY <1>1, DriverInvariant, PTL

(* The compiler does not crash, and its exit status says whether the
   program is all right, whatever order the items were handled in. *)
THEOREM StatusStaysTrue ==
  ASSUME DriverCareless = {}
  PROVE  DriverSpec => []StatusTellsTheTruth
<1>1. Inv => StatusTellsTheTruth
  BY StatusFollowsInv
<1>. QED BY <1>1, DriverInvariant, PTL

----------------------------------------
(***************************************************************************)
(* The order of code generation, for any finite set of files, any tree of  *)
(* owners over them and any names that tell them apart.                    *)
(***************************************************************************)

(* What the directories of a program have to give: added_file_names and
   dependants_compiled take two files of one file_name for the same file. *)
NamesDiffer ==
  \A n \in Namings : \A f, g \in Files : n[f] = n[g] => f = g

(* What was generated, and every tip the loop has passed, is generated
   after all it owns; so will be what waits. *)
WavesClimb ==
  /\ tips \ todo \subseteq Range(generated)
  /\ \A f \in tips : Owned(f) \subseteq Range(generated)
  /\ \A f \in new_tips : Owned(f) \subseteq Range(generated) \cup tips

(* The waves get past every file: one that is neither generated nor a tip
   owns a file that will make it one. *)
Awaits(f) == \E g \in Owned(f) : g \notin Range(generated) \/ g \in todo

NothingIsForgotten ==
  /\ \A f \in Files : f \in Range(generated) \cup tips \cup new_tips \/ Awaits(f)
  /\ tips = {} => new_tips = {}
  /\ outcome = "done" => tips = {}

GenerationInv == TypeOK /\ DependenciesFirst /\ WavesClimb /\ NothingIsForgotten

----------------------------------------
(* Every file is below the main file: a set that holds main and, with a
   file, all that the file owns, holds all files. *)
LEMMA TreeIsWhole ==
  ASSUME NEW r, Tree(r), NEW X \in SUBSET Files,
         Main \in X, \A f \in Files : r[f] \in X => f \in X
  PROVE  X = Files
<1>. DEFINE climb == CHOOSE c : c = [n \in Nat |->
               IF n = 0 THEN {Main} ELSE c[n - 1] \cup {f \in Files : r[f] \in c[n - 1]}]
<1>1. IsFiniteSet(Files) /\ Main \in Files
  BY CodegenAssumption
<1>2. IsDescendants(climb[Cardinality(Files)], Main, r, Files)
  BY <1>1, Descendants, ZenonT(60)
<1>3. climb[Cardinality(Files)] = Files
  BY DEF Tree
<1>. HIDE DEF climb
<1>4. IsDescendants(Files, Main, r, Files)
  BY <1>2, <1>3
<1>. QED BY <1>4 DEF IsDescendants

(* No branch is endless: a set of files each of which owns another of them
   is empty.  Each has one owner, so there would be as many owners in it
   as owned files, and the rest of the files would be a whole tree. *)
LEMMA NoEndlessBranch ==
  ASSUME NEW r \in [Files -> Files \cup {NoFile}], Tree(r), NEW U \in SUBSET Files,
         \A f \in U : \E g \in U : r[g] = f
  PROVE  U = {}
<1>. DEFINE W == {g \in U : r[g] \in U}
            up == [g \in W |-> r[g]]
<1>1. IsFiniteSet(Files) /\ Main \in Files /\ NoFile \notin Files
  BY CodegenAssumption
<1>2. IsFiniteSet(U) /\ IsFiniteSet(W) /\ W \subseteq U
  BY <1>1, FS_Subset
<1>3. up \in Surjection(W, U)
  BY DEF Surjection
<1>4. Cardinality(U) <= Cardinality(W)
  <2>. HIDE DEF up, W
  <2>. QED BY <1>2, <1>3, FS_Surjection
<1>5. W = U
  <2>1. Cardinality(W) <= Cardinality(U) /\ (Cardinality(U) = Cardinality(W) => U = W)
    BY <1>2, FS_Subset
  <2>2. Cardinality(W) \in Nat /\ Cardinality(U) \in Nat
    BY <1>2, FS_CardinalityType
  <2>. QED BY <1>4, <2>1, <2>2
<1>6. r[Main] \notin Files
  BY <1>1 DEF Tree
<1>7. Main \in Files \ U
  BY <1>1, <1>5, <1>6
<1>8. \A f \in Files : r[f] \in Files \ U => f \in Files \ U
  BY <1>5
<1>9. Files \ U = Files
  BY <1>7, <1>8, TreeIsWhole
<1>. QED BY <1>9

(* Generating one more file keeps the order, once all it owns is there. *)
LEMMA AppendKeepsOrder ==
  ASSUME generated \in Seq(Files), DependenciesFirst, NEW f \in Files,
         Owned(f) \subseteq Range(generated), f \notin Range(generated),
         generated' = Append(generated, f), root' = root
  PROVE  DependenciesFirst' /\ Range(generated') = Range(generated) \cup {f}
<1>. DEFINE n == Len(generated)
<1>1. /\ n \in Nat /\ DOMAIN generated = 1 .. n /\ DOMAIN generated' = 1 .. n + 1
      /\ generated'[n + 1] = f /\ \A i \in 1 .. n : generated'[i] = generated[i]
  BY AppendProperties, LenProperties
<1>. HIDE DEF n
<1>2. Range(generated') = Range(generated) \cup {f}
  BY <1>1 DEF Range
<1>3. ASSUME NEW i \in 1 .. n + 1
      PROVE  /\ Owned(generated'[i]) \subseteq {generated'[j] : j \in 1 .. i - 1}
             /\ generated'[i] \notin {generated'[j] : j \in 1 .. i - 1}
  <2>1. CASE i = n + 1
    <3>1. {generated'[j] : j \in 1 .. i - 1} = Range(generated)
      BY <1>1, <2>1 DEF Range
    <3>. QED BY <1>1, <2>1, <3>1
  <2>2. CASE i # n + 1
    <3>1. i \in 1 .. n /\ \A j \in 1 .. i - 1 : j \in 1 .. n
      BY <1>1, <2>2
    <3>2. {generated'[j] : j \in 1 .. i - 1} = {generated[j] : j \in 1 .. i - 1}
      BY <1>1, <3>1
    <3>. QED BY <1>1, <3>1, <3>2 DEF DependenciesFirst
  <2>. QED BY <2>1, <2>2
<1>4. \A g : Owned(g)' = Owned(g)
  BY DEF Owned
<1>. QED BY <1>1, <1>2, <1>3, <1>4 DEF DependenciesFirst, Owned

----------------------------------------
(* The invariant holds at the start. *)
LEMMA GenerationInitInv == Init => GenerationInv
<1>. SUFFICES ASSUME Init PROVE GenerationInv
  OBVIOUS
<1>1. generated = <<>> /\ Range(generated) = {} /\ generated \in Seq(Files)
      /\ DOMAIN generated = {}
  BY DEF Init, Range
<1>2. TypeOK
  BY <1>1 DEF Init, TypeOK
<1>. QED BY <1>1, <1>2 DEF Init, GenerationInv, DependenciesFirst, WavesClimb, NothingIsForgotten, Awaits,
               Owned

(* With names that differ, dependants_compiled looks at the files. *)
LEMMA CompiledMeansCompiled ==
  ASSUME TypeOK, NamesDiffer, NEW r \in Files
  PROVE  /\ dependants_compiled(r) <=> Owned(r) \subseteq Range(generated) \cup tips
         /\ name[r] \in added <=> r \in new_tips
<1>1. Owned(r) \subseteq Files /\ tips \subseteq Files /\ new_tips \subseteq Files
      /\ name \in Namings /\ added = {name[f] : f \in new_tips}
  BY DEF TypeOK, Owned
<1>2. \A f, g \in Files : name[f] = name[g] => f = g
  BY <1>1 DEF NamesDiffer
<1>. QED BY <1>1, <1>2 DEF dependants_compiled, generated_files_contain

(* Handling a tip keeps the invariant: it is generated after what it owns,
   and its root is a new tip if this was the last file it waited for. *)
LEMMA HandleKeeps ==
  ASSUME GenerationInv, NamesDiffer, NEW f \in Files, Handle(f)
  PROVE  GenerationInv'
<1>. USE DEF GenerationInv
<1>1. /\ outcome = "running" /\ outcome' = "running" /\ f \in todo /\ f \in tips
      /\ todo' = todo \ {f} /\ tips' = tips /\ root' = root /\ name' = name
      /\ root \in [Files -> Files \cup {NoFile}] /\ tips \subseteq Files /\ new_tips \subseteq Files
  BY DEF Handle, graph, TypeOK
<1>2. /\ generated' \in Seq(Files) /\ Range(generated') = Range(generated) \cup {f}
      /\ DependenciesFirst'
  <2>1. CASE f \in Range(generated)
    <3>1. generated' = generated
      BY <2>1 DEF Handle, generated_files_contain
    <3>. QED BY <1>1, <2>1, <3>1 DEF TypeOK, DependenciesFirst, Owned
  <2>2. CASE f \notin Range(generated)
    <3>1. generated' = Append(generated, f) /\ generated \in Seq(Files)
      BY <2>2 DEF Handle, generated_files_contain, TypeOK
    <3>2. Owned(f) \subseteq Range(generated)
      BY <1>1 DEF WavesClimb
    <3>3. generated' \in Seq(Files)
      BY <3>1, AppendProperties
    <3>. QED BY <1>1, <2>2, <3>1, <3>2, <3>3, AppendKeepsOrder
  <2>. QED BY <2>1, <2>2
<1>3. \/ /\ root[f] \in Files /\ dependants_compiled(root[f])
         /\ new_tips' = new_tips \cup {root[f]} /\ added' = added \cup {name[root[f]]}
      \/ /\ root[f] \in Files => ~dependants_compiled(root[f]) \/ name[root[f]] \in added
         /\ new_tips' = new_tips /\ added' = added
  BY <1>1, CodegenAssumption DEF Handle, Climb
<1>4. \A g : Owned(g)' = Owned(g)
  BY <1>1 DEF Owned
<1>5. TypeOK'
  BY <1>1, <1>2, <1>3 DEF TypeOK, Tree
<1>6. WavesClimb'
  <2>1. tips' \ todo' \subseteq Range(generated')
        /\ \A g \in tips' : Owned(g)' \subseteq Range(generated')
    BY <1>1, <1>2, <1>4 DEF WavesClimb
  <2>2. \A g \in new_tips' : Owned(g) \subseteq Range(generated) \cup tips
    BY <1>3, CompiledMeansCompiled DEF WavesClimb
  <2>. QED BY <1>1, <1>2, <1>4, <2>1, <2>2 DEF WavesClimb
<1>7. ASSUME NEW g \in Files, g \notin Range(generated') \cup tips' \cup new_tips'
      PROVE  \E h \in Owned(g) : h \notin Range(generated') \/ h \in todo'
  <2>1. PICK h \in Owned(g) : h \notin Range(generated) \/ h \in todo
    BY <1>1, <1>2, <1>3, <1>7 DEF NothingIsForgotten, Awaits
  <2>2. CASE h # f
    BY <1>1, <1>2, <2>1, <2>2
  <2>3. CASE h = f
    <3>1. root[f] = g /\ g \notin new_tips
      BY <1>3, <1>7, <2>1, <2>3 DEF Owned
    <3>2. ~(Owned(g) \subseteq Range(generated) \cup tips)
      BY <1>3, <1>7, <3>1, CompiledMeansCompiled
    <3>. QED BY <1>1, <1>2, <3>2
  <2>. QED BY <2>2, <2>3
<1>8. NothingIsForgotten'
  BY <1>1, <1>4, <1>7 DEF NothingIsForgotten, Awaits
<1>. QED BY <1>2, <1>5, <1>6, <1>8

(* Every step keeps the invariant. *)
LEMMA GenerationStepKeeps ==
  ASSUME GenerationInv, NamesDiffer, [Next]_vars
  PROVE  GenerationInv'
<1>1. CASE \E f \in Files : Handle(f)
  BY <1>1, HandleKeeps
<1>2. CASE (\E f \in Files : GenerateFails(f)) \/ Finish
  <2>1. /\ UNCHANGED <<root, name, tips, todo, new_tips, added, generated>>
        /\ outcome' \in {"failed", "done"} /\ (outcome' = "done" => tips = {})
    BY <1>2 DEF GenerateFails, Finish, graph
  <2>2. TypeOK' /\ DependenciesFirst' /\ WavesClimb'
    BY <2>1 DEF GenerationInv, TypeOK, Tree, DependenciesFirst, WavesClimb, Owned
  <2>3. NothingIsForgotten'
    BY <2>1 DEF GenerationInv, NothingIsForgotten, Awaits, Owned
  <2>. QED BY <2>2, <2>3 DEF GenerationInv
<1>3. CASE NextWave
  <2>1. /\ UNCHANGED <<root, name, generated, outcome>> /\ outcome = "running"
        /\ todo = {} /\ tips' = new_tips /\ todo' = new_tips /\ new_tips' = {} /\ added' = {}
    BY <1>3 DEF NextWave, graph
  <2>2. tips \subseteq Range(generated)
    BY <2>1 DEF GenerationInv, WavesClimb
  <2>3. \A g : Owned(g)' = Owned(g)
    BY <2>1 DEF Owned
  <2>4. TypeOK' /\ DependenciesFirst'
    BY <2>1 DEF GenerationInv, TypeOK, Tree, DependenciesFirst, Owned
  <2>5. WavesClimb'
    BY <2>1, <2>2, <2>3 DEF GenerationInv, WavesClimb
  <2>6. NothingIsForgotten'
    BY <2>1, <2>2, <2>3 DEF GenerationInv, NothingIsForgotten, Awaits
  <2>. QED BY <2>4, <2>5, <2>6 DEF GenerationInv
<1>4. CASE Ended \/ UNCHANGED vars
  <2>1. UNCHANGED <<root, name, tips, todo, new_tips, added, generated, outcome>>
    BY <1>4 DEF Ended, vars, graph
  <2>2. TypeOK' /\ DependenciesFirst' /\ WavesClimb'
    BY <2>1 DEF GenerationInv, TypeOK, Tree, DependenciesFirst, WavesClimb, Owned
  <2>3. NothingIsForgotten'
    BY <2>1 DEF GenerationInv, NothingIsForgotten, Awaits, Owned
  <2>. QED BY <2>2, <2>3 DEF GenerationInv
<1>. QED BY <1>1, <1>2, <1>3, <1>4 DEF Next, Step

(* When the tips have run out, what is not generated would be an endless
   branch. *)
LEMMA EveryFileComes ==
  ASSUME GenerationInv
  PROVE  EveryFileIsGenerated
<1>. DEFINE U == Files \ Range(generated)
<1>1. SUFFICES ASSUME outcome = "done" PROVE Range(generated) = Files
  BY DEF EveryFileIsGenerated
<1>2. tips = {} /\ new_tips = {} /\ todo = {}
  BY <1>1 DEF GenerationInv, TypeOK, NothingIsForgotten
<1>3. \A f \in U : \E g \in U : root[g] = f
  BY <1>2 DEF GenerationInv, NothingIsForgotten, Awaits, Owned
<1>4. U = {}
  BY <1>3, NoEndlessBranch DEF GenerationInv, TypeOK
<1>5. Range(generated) \subseteq Files
  BY DEF GenerationInv, TypeOK, Range
<1>. QED BY <1>4, <1>5

----------------------------------------
(* Every file is generated after all the files it owns, once, and none is
   left out when the generation ends, for a program of any size, whichever
   tip of a wave is handled first, if the names of its files differ. *)
THEOREM OrderStaysSound ==
  ASSUME NamesDiffer
  PROVE  Spec => []OrderIsSound
<1>1. Init => GenerationInv
  BY GenerationInitInv
<1>2. GenerationInv /\ [Next]_vars => GenerationInv'
  BY GenerationStepKeeps
<1>3. GenerationInv => OrderIsSound
  BY EveryFileComes DEF GenerationInv, OrderIsSound
<1>. QED BY <1>1, <1>2, <1>3, PTL DEF Spec
=============================================================================
