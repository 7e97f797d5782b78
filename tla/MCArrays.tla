------------------------------ MODULE MCArrays ------------------------------
EXTENDS Arrays

ElementSymmetry == Permutations(Elements)

(* In one, two and three dimensions; of even, odd and no length. *)
SomeShapes == {<<0>>, <<1>>, <<3>>, <<2, 2>>, <<3, 1>>, <<2, 1, 2>>, <<1, 2, 2>>}

(* All in one dimension; in more, those that begin in the first two places
   and, in three, have one range behind the first dimension. *)
SomeRanges ==
  {r \in AllRanges :
     Len(r) > 1 =>
       /\ \A i \in DOMAIN r : r[i].from < 2 /\ r[i].to \in {Single, UntilEnd, 1, 2}
       /\ Len(r) = 3 => r[2].to = Single \/ r[3].to = Single}
=============================================================================
