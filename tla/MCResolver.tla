----------------------------- MODULE MCResolver -----------------------------
(***************************************************************************)
(* The resolver on small programs of up to five files.                     *)
(***************************************************************************)
EXTENDS Resolver

CONSTANTS main, a, b, c, d

(* A program by the imports of its five files; files nobody imports are
   not part of it. *)
P(m, w, x, y, z) ==
  [f \in Files |-> CASE f = main -> m [] f = a -> w [] f = b -> x
                     [] f = c -> y    [] f = d -> z]

(* Programs in which calls meet: several files import the same new file,
   circles, a self-import, a file imported twice, a chain of waves, and
   library imports in between. *)
MCPrograms ==
  { P(<<a, b>>, <<c>>, <<c>>, <<>>, <<>>),
    P(<<a, b, c>>, <<d, Core>>, <<d, a>>, <<d, main>>, <<a>>),
    P(<<a, a>>, <<Library, b>>, <<b, c>>, <<a, d>>, <<>>),
    P(<<Core, a, b>>, <<c, d>>, <<d, c>>, <<a, b>>, <<d>>),
    P(<<a, b>>, <<c, b>>, <<a, d>>, <<d>>, <<c, main>>) }
=============================================================================
