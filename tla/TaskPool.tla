------------------------------ MODULE TaskPool ------------------------------
(***************************************************************************)
(* What a thread pool promises its callers: tasks start in the order they  *)
(* were handed in, at most Width of them run at a time, each runs exactly  *)
(* once, and closing the pool first runs everything it has accepted.       *)
(* ThreadPool implements this.                                             *)
(***************************************************************************)
EXTENDS Naturals, Sequences, FiniteSets

CONSTANTS
  Tasks,   (* what can be handed in, each at most once                     *)
  Width    (* how many tasks may run at the same time                      *)

VARIABLES
  waiting,  (* the tasks handed in and not started, in order               *)
  running,  (* the tasks running now                                       *)
  done,     (* the tasks that have run                                     *)
  phase     (* "open", "closing" or "closed"                               *)

vars == <<waiting, running, done, phase>>

Accepted == {waiting[i] : i \in DOMAIN waiting} \cup running \cup done

Init == waiting = <<>> /\ running = {} /\ done = {} /\ phase = "open"

Submit(t) ==
  /\ phase = "open" /\ t \notin Accepted
  /\ waiting' = Append(waiting, t)
  /\ UNCHANGED <<running, done, phase>>

Start ==
  /\ waiting # <<>> /\ phase # "closed"
  /\ Cardinality(running) < Width
  /\ running' = running \cup {Head(waiting)}
  /\ waiting' = Tail(waiting)
  /\ UNCHANGED <<done, phase>>

Complete(t) ==
  /\ t \in running
  /\ running' = running \ {t}
  /\ done' = done \cup {t}
  /\ UNCHANGED <<waiting, phase>>

BeginClose ==
  /\ phase = "open"
  /\ phase' = "closing"
  /\ UNCHANGED <<waiting, running, done>>

EndClose ==
  /\ phase = "closing"
  /\ waiting = <<>> /\ running = {}
  /\ phase' = "closed"
  /\ UNCHANGED <<waiting, running, done>>

Next ==
  \/ \E t \in Tasks : Submit(t) \/ Complete(t)
  \/ Start \/ BeginClose \/ EndClose

Spec == Init /\ [][Next]_vars

(* Accepted tasks run to their end, and closing ends. *)
Fairness ==
  /\ WF_vars(Start) /\ \A t \in Tasks : WF_vars(Complete(t))
  /\ WF_vars(EndClose)

FairSpec == Spec /\ Fairness
=============================================================================
