------------------------------ MODULE RefHeap ------------------------------
(***************************************************************************)
(* What DIMA promises to the program it is linked into: storage that is    *)
(* handed out stays with its owner, at its address and with its contents,  *)
(* for as long as somebody holds a reference to it, and is given out again *)
(* only after the last reference was released.                             *)
(*                                                                         *)
(* Nothing is said of blocks, of slots that are scanned for, or of the     *)
(* order in which storage is reused: Dima.tla implements this module.      *)
(***************************************************************************)
EXTENDS Naturals

CONSTANTS Cells,    \* the addresses storage can have
          None      \* the contents of a cell that refers to nothing

VARIABLES live,     \* the cells that are handed out
          refs,     \* refs[c]: the reference count of a live cell
          contents  \* contents[c]: what the program stored in a live cell

heapVars == <<live, refs, contents>>

Init ==
    /\ live = {}
    /\ refs = [c \in Cells |-> 0]
    /\ contents = [c \in Cells |-> None]

(* A cell nobody owns is handed out with one reference and the default
   value; what it is first stored into is written in the same statement. *)
Allocate(c) ==
    /\ c \in Cells \ live
    /\ live' = live \cup {c}
    /\ refs' = [refs EXCEPT ![c] = 1]
    /\ \/ UNCHANGED contents
       \/ \E p \in live : contents' = [contents EXCEPT ![p] = c]

Retain(c) ==
    /\ c \in live
    /\ refs[c] > 0
    /\ refs' = [refs EXCEPT ![c] = @ + 1]
    /\ UNCHANGED <<live, contents>>

Release(c) ==
    /\ c \in live
    /\ refs[c] > 0
    /\ refs' = [refs EXCEPT ![c] = @ - 1]
    /\ UNCHANGED <<live, contents>>

(* Only a cell without references is taken back, and only that cell. *)
Reclaim(c) ==
    /\ c \in live
    /\ refs[c] = 0
    /\ live' = live \ {c}
    /\ contents' = [contents EXCEPT ![c] = None]
    /\ UNCHANGED refs

Next == \E c \in Cells : Allocate(c) \/ Retain(c) \/ Release(c) \/ Reclaim(c)

Spec == Init /\ [][Next]_heapVars
============================================================================
