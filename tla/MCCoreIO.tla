------------------------------ MODULE MCCoreIO ------------------------------
EXTENDS CoreIO, ExternTypes, TestRunner

CONSTANT a

(* A variable, one whose name ends early, and one without a name. *)
SomeNames == {<<a>>, <<a, NUL>>, << >>}
SomeValues == {<< >>, <<a>>, <<NUL>>}

(* Structs of up to three elements, the two of the repository's examples
   (interop/5_data_passing and 7_tuples), some with many small elements,
   some that are too large; vectors of every kind; numbers and strings. *)
Shape(form, elems) == [form |-> form, elems |-> elems]
Of(k, n) == [e \in 1 .. n |-> k]
Mixed == UNION {[1 .. n -> {"i8", "i32", "i64", "f32"}] : n \in 1 .. 3}
Listed ==
  {<<"i32", "i32", "f32", "bool">>, Of("i8", 5), Of("i8", 8), Of("f32", 4), <<"f64", "ptr">>, <<"i64", "bool">>,
   <<"i32", "i16", "i64">>, <<"i8", "i16", "i32", "i64">>, <<"i64", "i8", "i16", "i32">>, <<"f64", "f32", "i8">>}
Structs == {Shape("data", e) : e \in Mixed \union Listed}
           \union {Shape(f, e) : f \in {"tuple", "group"}, e \in Listed \union {Of("i64", 3), <<"i32", "i8">>}}
Vectors ==
  {Shape("vector", Of(k, n)) : k \in {"i8", "i16", "i32", "f32"}, n \in {2, 3, 4, 8}}
    \union {Shape("vector", Of(k, n)) : k \in {"i64", "f64"}, n \in {2, 3, 4}}
    \union {Shape("vector", Of("bool", 8))}
Scalars == {Shape("scalar", <<k>>) : k \in {"bool", "i16", "i32", "f32", "f64", "str"}}

(* A shape in front of a number and returned, and behind one (or behind
   something of two registers, or of none); many registers. *)
Signature(ps, r) == [params |-> ps, result |-> r]
Number == Shape("scalar", <<"i32">>)
Halves == Shape("data", <<"i64", "i32">>)
Large == Shape("data", Of("i64", 3))
SomeSignatures ==
  {Signature(<<Number>>, Number)}
    \union {Signature(<<t, Number>>, t) : t \in Structs \union Vectors \union Scalars}
    \union {Signature(<<Number>>, t) : t \in Structs \union Vectors}
    \union {Signature(<<s, Number>>, Large) : s \in Scalars \union Vectors}
    \union {Signature(<<s, t, Number>>, Number) : s \in {Number, Halves, Large}, t \in {Halves, Large, Number}}
    \union {Signature(<<Halves, Halves, Halves>>, t) : t \in {Number, Large}}

(* Programs with all ways to call main and shared data in up to two files,
   and with up to three tests in two files, that print lines as wide as
   the box, wider and narrower, in colours and with letters of up to four
   bytes. *)
Argvs == {<<"p">>, <<"p", "x">>, <<"p", "x", "y">>}
F(f, n, i) == Field(f, n, i)
SomeShared ==
  {<< >>, <<F(1, "n", NumberOf(3)), F(1, "m", Reads("n")), F(1, "o", Reads("m"))>>,
   <<F(1, "s", TextLiteral("t")), F(2, "k", NumberOf(5)), F(2, "z", NoInit), F(2, "l", Reads("k"))>>,
   <<F(1, "n", NumberOf(3)), F(2, "m", Reads("n"))>>,
   <<F(1, "s", TextLiteral("t")), F(1, "u", Reads("s"))>>,
   <<F(1, "m", Reads("n")), F(1, "n", NumberOf(3))>>}
Mains ==
  {[form |-> "main", fields |-> s, takes_args |-> TRUE, argv |-> v, returns |-> r, tests |-> << >>] :
     s \in SomeShared, v \in Argvs, r \in BOOLEAN}
  \union {[form |-> "main", fields |-> s, takes_args |-> FALSE, argv |-> <<"p">>, returns |-> r, tests |-> << >>] :
     s \in SomeShared, r \in BOOLEAN}
Tests(ts) == [form |-> "tests", fields |-> << >>, takes_args |-> FALSE, argv |-> <<"p">>, returns |-> FALSE, tests |-> ts]
ATest(f, n, an) == [file |-> f, name |-> n, annotations |-> an]
Few == {{}, {"test_should_fail"}, {"test_output_always"}, {"test_output_never", "test_should_fail"}}
TestPrograms ==
  {Tests(<< >>), [Tests(<<ATest(1, "a", {})>>) EXCEPT !.fields = <<F(2, "n", NumberOf(3))>>]}
  \union {Tests(<<ATest(1, "a", an)>>) : an \in SUBSET Annotations}
  \union {Tests(<<ATest(f[1], "a", an), ATest(f[2], "b", bn)>>) : f \in {<<1, 1>>, <<2, 1>>}, an, bn \in SUBSET Annotations}
  \union {Tests(<<ATest(2, "a", an), ATest(1, "b", bn), ATest(2, "c", {})>>) : an, bn \in Few}
SomePrograms == Mains \union TestPrograms

Letter == Glyph(1, <<97>>)
Umlaut == Glyph(1, <<195, 164>>)
Arrow == Glyph(1, <<226, 134, 146>>)
Script == Glyph(1, <<240, 157, 146, 156>>)
Green == Glyph(0, <<27, 91, 51, 50, 109>>)
Cut == Glyph(0, <<27, 91, 51>>)
Glyphs == {Letter, Umlaut, Arrow, Script, Green}
Row(n) == [i \in 1 .. n |-> Letter]
Lines == UNION {[1 .. n -> Glyphs] : n \in 0 .. 2}
SomeOutputs == {<< >>, <<Row(10) \o <<Green>>, <<Letter>>>>}
ManyOutputs ==
  {<<l, m>> : l, m \in Lines} \union {<<Row(n) \o l, m>> : n \in {7, 8, 9}, l, m \in {x \in Lines : Len(x) <= 1}}
  \union {<<<<Letter, Cut>>, Row(9)>>}

NotCalled ==
  /\ signature = Signature(<<Number>>, Number) /\ step = "declare"
  /\ declared = [params |-> << >>, result |-> << >>] /\ converted = << >> /\ valid = TRUE
  /\ arrived = NoInputs /\ received = << >> /\ blocks = {}
NoUse == use = "files" /\ fs_at = "idle" /\ disk = Missing /\ oob_mode = "PRINT"

NotStarted ==
  /\ program = Tests(<< >>) /\ instances = << >> /\ phase = "exit" /\ heads = FALSE
  /\ header = [capacity |-> NotSet, thread_id |-> NotSet, flags |-> NotSet, stack_ptr |-> NotSet]
  /\ data = NotSet /\ args_array = NotSet /\ shared = << >> /\ outcome = NotSet
  /\ report = << >> /\ freed_message = 0 /\ exit_code = 0
  /\ test_files = << >> /\ test = [file |-> 0, index |-> 0] /\ capturing_test = FALSE
  /\ captured = << >> /\ terminal_log = <<Entry("no tests")>> /\ test_fail = FALSE /\ counter = 0 /\ ran = << >>

(* A program that uses the core modules, or one that calls C itself, or
   one of which only the beginning and the end are looked at. *)
IOSpec ==
  /\ \/ CoreInit /\ NotCalled /\ NotStarted
     \/ CoreInit /\ NoUse /\ BoundaryInit /\ NotStarted
     \/ CoreInit /\ NoUse /\ NotCalled /\ ProgramInit
  /\ [][\/ CoreNext /\ NotCalled /\ NotStarted /\ UNCHANGED <<boundary_vars, startup_vars, runner_vars>>
        \/ NoUse /\ NotStarted /\ BoundaryNext /\ UNCHANGED <<core_vars, startup_vars, runner_vars>>
        \/ NoUse /\ NotCalled /\ ProgramNext /\ UNCHANGED <<core_vars, boundary_vars>>
       ]_<<core_vars, boundary_vars, startup_vars, runner_vars>>
=============================================================================
