-------------------------------- MODULE Calls --------------------------------
(***************************************************************************)
(* Calls of the generated program: the frames of the thread stack, the     *)
(* values that cross them, and errors.  The generated code is that of      *)
(* generate_call, generate_callable_call and generate_rethrow in           *)
(* src/src/generator/generator_expression.cpp, of the return, throw and    *)
(* catch statements in generator_statement.cpp, and of the prologue of a   *)
(* function in generator_allocation.cpp.                                   *)
(*                                                                         *)
(* Every function has two parameters, one local variable and one return    *)
(* value, all of a type passed by reference whose values are freed (str).  *)
(* An address is an offset on the thread stack, or a callable, whose frame *)
(* is on the heap.                                                         *)
(***************************************************************************)
EXTENDS Integers, Sequences, FiniteSets

CONSTANTS
  Sizes,          \* sizes of function frames
  Capacity,       \* of the thread stack; TS_DATA_SIZE
  Callables,      \* callable values, each with a frame of its own
  Codes,          \* the values of the error set
  ArgumentLists,  \* forms of the arguments of a call, with the parameters' mutability
  MaxValues,      \* a bound on the values that live at the same time
  MaxSteps,       \* a bound on the statements that are no end of a function
  CallsCareless   \* what programs do although it is known to go wrong:
                  \* "alias", "mutable temporary", "skipped parameter",
                  \* "call in catch"

Nil == 0   \* the null pointer
Values == 1..MaxValues
Params == {"first", "second"}
DefaultError == [code |-> "none", message |-> Nil]
NoFrame == -1
NoCall == [to |-> NoFrame]

(* A frame has room for an error at least, and that of a function by
   itself fits: main's is entered without the check other calls make. *)
ASSUME CallsAssumption ==
  /\ Capacity \in Nat /\ MaxValues \in Nat /\ MaxSteps \in Nat
  /\ Sizes \subseteq 1..Capacity
  /\ Callables \cap Int = {}
  /\ \A list \in ArgumentLists :
       /\ list.args \in [Params -> {"temporary", "local"} \union Params]
       /\ list.mutable \in [Params -> BOOLEAN]

DefaultFrame == [ret |-> Nil, params |-> [i \in Params |-> Nil], local |-> Nil, err |-> DefaultError]

VARIABLES
  frames,       \* address -> frame; those nobody looks at any more are cleared
  activations,  \* the functions that are running, main first
  outcome,      \* of the function that has just returned: "none", "ok", "error"
  live,         \* the values on the heap
  leaked,         \* those that the code leaves behind knowingly
  raised,       \* the code of the error that was thrown last
  misfreed,      \* something was freed that was not alive
  steps,        \* the statements so far
  thread_stack  \* the header: stack_ptr and the flag for callables

calls == <<frames, activations, outcome, live, leaked, raised, misfreed, steps, thread_stack>>

Addresses == 0..(Capacity - 1) \union Callables

Top == activations[Len(activations)]
Frame == frames[Top.frame]
InFunction == activations # <<>> /\ outcome = "none"
Ready == InFunction /\ steps < MaxSteps
Pop == SubSeq(activations, 1, Len(activations) - 1)

(* Values that nothing refers to any more, not even a stale frame. *)
Mentioned ==
  live \union (UNION {{activations[k].call.values[i] : i \in Params} :
                        k \in {j \in DOMAIN activations : activations[j].call # NoCall}})
       \union (UNION {{f.ret, f.local, f.err.message} \union {f.params[i] : i \in Params} :
                        f \in {frames[a] : a \in Addresses}})
Unused == Values \ Mentioned
FreshValues(n) ==   \* the first n of them, in order
  {v \in Unused : Cardinality({w \in Unused : w < v}) < n}
HasFreshValues(n) == Cardinality(Unused) >= n
New == CHOOSE v \in FreshValues(1) : TRUE

Free(values) ==
  /\ misfreed' = (misfreed \/ ~(values \subseteq live \union {Nil}))

(* generate_function_allocations: the callee finds out whether a callable
   is called, takes the next free address, and resets the flag. *)
Entered(address, size, mutable, ts) ==
  [frame |-> address, size |-> size,
   next |-> IF ts.callable THEN ts.stack_ptr ELSE address + size,
   mutable |-> mutable, declared |-> FALSE, call |-> NoCall,
   caught |-> NoFrame, expected |-> "none"]

CallsInit ==
  /\ frames = [a \in Addresses |-> DefaultFrame]
  /\ \E size \in Sizes :
       activations = <<Entered(0, size, [i \in Params |-> FALSE], [stack_ptr |-> 0, callable |-> FALSE])>>
  /\ outcome = "none"
  /\ live = {}
  /\ leaked = {}
  /\ raised = "none"
  /\ misfreed = FALSE
  /\ steps = 0
  /\ thread_stack = [stack_ptr |-> 0, callable |-> FALSE]

Replace(top) == Append(Pop, top)
Step == Ready /\ steps' = steps + 1

DeclareLocal ==
  /\ Step /\ ~Top.declared /\ HasFreshValues(1)
  /\ frames' = [frames EXCEPT ![Top.frame].local = New]
  /\ live' = live \union {New}
  /\ activations' = Replace([Top EXCEPT !.declared = TRUE])
  /\ UNCHANGED <<outcome, leaked, raised, misfreed, thread_stack>>

(* An assignment to a mutable parameter. *)
AssignParameter(i) ==
  /\ Step /\ Top.mutable[i] /\ HasFreshValues(1)
  /\ Free({Frame.params[i]})
  /\ frames' = [frames EXCEPT ![Top.frame].params[i] = New]
  /\ live' = (live \ {Frame.params[i]}) \union {New}
  /\ UNCHANGED <<activations, outcome, leaked, raised, thread_stack>>

----------------------------------------
(* A call. *)

(* The forms an argument may have: the local variable, a parameter, or a
   temporary value, which is garbage after the call. *)
Forms ==
  {"temporary"} \union (IF Top.declared THEN {"local"} ELSE {})
                \union (IF Len(activations) > 1 THEN Params ELSE {})

Slot(frame, form) == IF form = "local" THEN frame.local ELSE frame.params[form]

Sound(args, mutable) ==
  /\ \A i \in Params : mutable[i] =>
       /\ args[i] \in Params => Top.mutable[args[i]]
       /\ args[i] = "temporary" => "mutable temporary" \in CallsCareless
  /\ "alias" \notin CallsCareless =>
       \A i, j \in Params :
         i # j /\ mutable[i] /\ args[i] # "temporary" => args[i] # args[j]

Temporaries(args) == {i \in Params : args[i] = "temporary"}

(* generate_call_arg_prep and the frame of the callee: references are
   loaded, temporaries are passed as they are. *)
Passed(args) ==
  LET fresh == FreshValues(Cardinality(Temporaries(args)))
  IN  [i \in Params |->
         IF args[i] # "temporary" THEN Slot(Frame, args[i])
         ELSE IF i = "first" \/ args["first"] # "temporary"
                THEN CHOOSE v \in fresh : \A w \in fresh : v <= w
                ELSE CHOOSE v \in fresh : \A w \in fresh : v >= w]

(* Catches are not nested. *)
MayCall(to, args, mutable, catches) ==
  /\ Step
  /\ "skipped parameter" \notin CallsCareless =>
       (to \in Callables /\ mutable["second"] /\ args["second"] # "temporary" =>
          mutable["first"] /\ args["first"] # "temporary")
  /\ \A i \in Params : args[i] \in Forms
  /\ Sound(args, mutable)
  /\ HasFreshValues(Cardinality(Temporaries(args)))
  /\ catches => Top.caught = NoFrame
  /\ "call in catch" \notin CallsCareless => Top.caught \in Callables \union {NoFrame}

Invoke(to, callee, frame, args, mutable, catches) ==
  /\ live' = live \union {Passed(args)[i] : i \in Temporaries(args)}
  /\ frames' = [frames EXCEPT ![to] = frame]
  /\ activations' =
       Append(Replace([Top EXCEPT !.call = [to |-> to, args |-> args, values |-> Passed(args),
                                         mutable |-> mutable, catches |-> catches]]), callee)
  /\ UNCHANGED <<outcome, leaked, raised, misfreed>>

(* generate_capacity_check *)
HasSpace(size) == Capacity - Top.next >= size

generate_call(size, args, mutable, catches) ==
  /\ MayCall(Top.next, args, mutable, catches)
  /\ HasSpace(size)
  /\ LET ts == [thread_stack EXCEPT !.callable = FALSE]
     IN  /\ Invoke(Top.next, Entered(Top.next, size, mutable, ts),
                   [DefaultFrame EXCEPT !.params = Passed(args)], args, mutable, catches)
         /\ thread_stack' = ts

(* Otherwise the program prints a message and aborts. *)
Overflow(size) ==
  /\ Ready
  /\ ~HasSpace(size)
  /\ activations' = <<>>
  /\ outcome' = "aborted"
  /\ UNCHANGED <<frames, live, leaked, raised, misfreed, steps, thread_stack>>

(* A callable keeps its frame from call to call and is not entered twice
   at a time; nor is it called while a catch looks at its error. *)
Idle(callable) ==
  \A k \in DOMAIN activations :
    activations[k].frame # callable /\ activations[k].caught # callable

(* A mistake: stack_ptr is not brought up to date. *)
CallWithoutStackPtr(callable, args, mutable, catches) ==
  /\ MayCall(callable, args, mutable, catches)
  /\ Idle(callable)
  /\ Invoke(callable, Entered(callable, 0, mutable, [thread_stack EXCEPT !.callable = TRUE]),
            [frames[callable] EXCEPT !.params = Passed(args)], args, mutable, catches)
  /\ UNCHANGED thread_stack

generate_callable_call(callable, args, mutable, catches) ==
  /\ MayCall(callable, args, mutable, catches)
  /\ Idle(callable)
  /\ Invoke(callable, Entered(callable, 0, mutable, [stack_ptr |-> Top.next, callable |-> TRUE]),
            [frames[callable] EXCEPT !.params = Passed(args)], args, mutable, catches)
  /\ thread_stack' = [stack_ptr |-> Top.next, callable |-> FALSE]

----------------------------------------
(* The end of the callee. *)

(* What the ends of the scopes free: the local variable, unless it is
   returned, and the message of an error that is being handled. *)
Cleanup(returned) ==
  (IF Top.declared THEN {Frame.local} \ returned ELSE {})
    \union (IF Top.caught # NoFrame THEN {frames[Top.caught].err.message} ELSE {})

Leave(frame, created, freed, how) ==
  /\ Free(freed)
  /\ live' = (live \union created) \ freed
  /\ frames' = [frames EXCEPT ![Top.frame] = frame]
  /\ activations' = Pop
  /\ outcome' = how
  /\ UNCHANGED <<steps, thread_stack>>

(* A local variable is moved to the caller, a parameter is cloned, and
   another expression makes a value of its own. *)
Return(what) ==
  /\ InFunction
  /\ what = "local" => Top.declared
  /\ what # "local" => HasFreshValues(1)
  /\ LET value == IF what = "local" THEN Frame.local ELSE New
     IN  Leave([Frame EXCEPT !.ret = value, !.err = DefaultError], {value}, Cleanup({value}), "ok")
  /\ UNCHANGED <<leaked, raised>>

(* The message of a thrown value is cloned, because a variable would free
   its own; but nothing frees that of a literal. *)
throw_literal(code) ==
  /\ InFunction
  /\ HasFreshValues(2)
  /\ LET original == New
         message == CHOOSE v \in FreshValues(2) : v # New
     IN  /\ Leave([Frame EXCEPT !.err = [code |-> code, message |-> message]],
                  {original, message}, Cleanup({}), "error")
         /\ leaked' = leaked \union {original}
  /\ raised' = code

throw_caught ==
  /\ InFunction
  /\ Top.caught # NoFrame
  /\ HasFreshValues(1)
  /\ LET error == frames[Top.caught].err
     IN  /\ Leave([Frame EXCEPT !.err = [code |-> error.code, message |-> New]],
                  {New}, Cleanup({}), "error")
         /\ raised' = error.code
  /\ UNCHANGED leaked

----------------------------------------
(* Back in the caller. *)

Returned == outcome \in {"ok", "error"} /\ activations # <<>>
Callee == frames[Top.call.to]

(* generate_call_arg_cleanup: what the callee left in its mutable
   parameters is stored to where the arguments came from, the last one
   last; temporaries are freed.  In the frame of a callable the parameters
   are found by an offset that only counts those that are stored back. *)
IsStoredBack(call, i) == call.mutable[i] /\ call.args[i] # "temporary"

Found(call, i) ==
  IF call.to \in Callables /\ i = "second" /\ ~IsStoredBack(call, "first")
    THEN "first" ELSE i

(* A mistake: mutable arguments are not stored back. *)
NothingStoredBack == Frame

StoredBack ==
  LET call == Top.call
      From(form) == {i \in Params : IsStoredBack(call, i) /\ call.args[i] = form}
      Now(form, old) ==
        IF From(form) = {} THEN old
        ELSE Callee.params[Found(call, IF "second" \in From(form) THEN "second" ELSE "first")]
  IN  [Frame EXCEPT !.local = Now("local", Frame.local),
                    !.params = [i \in Params |-> Now(i, Frame.params[i])]]
Garbage == {Top.call.values[i] : i \in Temporaries(Top.call.args)}

(* The caller's frame from now on, and the one that is of no use any more. *)
Back(frame, unused) ==
  frames' = [frames EXCEPT ![Top.frame] = frame, ![unused] = DefaultFrame]

(* The result becomes the value of the local variable, whose old value is
   freed, or is discarded. *)
TakeResult(store) ==
  /\ Returned /\ outcome = "ok"
  /\ LET old == IF Top.declared THEN {StoredBack.local} ELSE {}
         freed == Garbage \union IF store THEN old ELSE {Callee.ret}
     IN  /\ Free(freed)
         /\ live' = live \ freed
         /\ Back(IF store THEN [StoredBack EXCEPT !.local = Callee.ret] ELSE StoredBack,
                 Top.call.to)
         /\ activations' = Replace([Top EXCEPT !.call = NoCall, !.declared = @ \/ store])
  /\ outcome' = "none"
  /\ UNCHANGED <<leaked, raised, steps, thread_stack>>

(* A mistake: the caller returns as if without an error of its own. *)
RethrowNothing ==
  /\ Returned /\ outcome = "error" /\ ~Top.call.catches
  /\ Free(Garbage)
  /\ live' = live \ Garbage
  /\ Back(StoredBack, Top.call.to)
  /\ leaked' = leaked \union (IF Top.declared THEN {StoredBack.local} ELSE {})
                  \union (IF Top.caught # NoFrame THEN {frames[Top.caught].err.message} ELSE {})
  /\ activations' = Pop
  /\ UNCHANGED <<outcome, raised, steps, thread_stack>>

(* generate_rethrow copies the error and returns: the caller's own values
   stay behind. *)
generate_rethrow ==
  /\ Returned /\ outcome = "error" /\ ~Top.call.catches
  /\ Free(Garbage)
  /\ live' = live \ Garbage
  /\ Back([StoredBack EXCEPT !.err = Callee.err], Top.call.to)
  /\ leaked' = leaked \union (IF Top.declared THEN {StoredBack.local} ELSE {})
                  \union (IF Top.caught # NoFrame THEN {frames[Top.caught].err.message} ELSE {})
  /\ activations' = Pop
  /\ UNCHANGED <<outcome, raised, steps, thread_stack>>

(* The error variable of a catch is the error field of the callee's frame. *)
EnterCatch ==
  /\ Returned /\ outcome = "error" /\ Top.call.catches
  /\ Free(Garbage)
  /\ live' = live \ Garbage
  /\ frames' = [frames EXCEPT ![Top.frame] = StoredBack]
  /\ activations' = Replace([Top EXCEPT !.caught = Top.call.to, !.call = NoCall,
                                            !.expected = raised])
  /\ outcome' = "none"
  /\ UNCHANGED <<leaked, raised, steps, thread_stack>>

EndCatch ==
  /\ InFunction /\ Top.caught # NoFrame
  /\ LET message == frames[Top.caught].err.message
     IN  Free({message}) /\ live' = live \ {message}
  /\ Back(Frame, Top.caught)
  /\ activations' = Replace([Top EXCEPT !.caught = NoFrame, !.expected = "none"])
  /\ UNCHANGED <<outcome, leaked, raised, steps, thread_stack>>

(* The generated main prints an error of the program's main function and
   frees its message; the result of main is no str, so nothing is left. *)
generate_builtin_main ==
  /\ activations = <<>> /\ outcome \in {"ok", "error"}
  /\ LET freed == {IF outcome = "error" THEN frames[0].err.message ELSE frames[0].ret}
     IN  Free(freed) /\ live' = live \ freed
  /\ outcome' = "ended"
  /\ UNCHANGED <<frames, activations, leaked, raised, steps, thread_stack>>

CallsNext ==
  \/ DeclareLocal
  \/ \E i \in Params : AssignParameter(i)
  \/ \E list \in ArgumentLists, catches \in BOOLEAN :
       \/ \E size \in Sizes : generate_call(size, list.args, list.mutable, catches)
       \/ \E callable \in Callables :
            generate_callable_call(callable, list.args, list.mutable, catches)
  \/ \E size \in Sizes : Overflow(size)
  \/ \E what \in {"local", "other"} : Return(what)
  \/ \E code \in Codes : throw_literal(code)
  \/ throw_caught
  \/ \E store \in BOOLEAN : TakeResult(store)
  \/ generate_rethrow \/ EnterCatch \/ EndCatch
  \/ generate_builtin_main

CallsSpec == CallsInit /\ [][CallsNext]_calls

----------------------------------------
(* Activations and frames have their types. *)
CallsTypeOK ==
  /\ \A a \in Addresses :
       /\ {frames[a].ret, frames[a].local, frames[a].err.message} \subseteq Values \union {Nil}
       /\ frames[a].params \in [Params -> Values \union {Nil}]
       /\ frames[a].err.code \in Codes \union {"none"}
  /\ \A k \in DOMAIN activations :
       /\ activations[k].frame \in Addresses
       /\ activations[k].caught \in Addresses \union {NoFrame}
       /\ (activations[k].call = NoCall) = (k = Len(activations) /\ outcome = "none")
  /\ outcome \in {"none", "ok", "error", "aborted", "ended"}
  /\ live \subseteq Values /\ leaked \subseteq Values
  /\ steps \in 0..MaxSteps
  /\ thread_stack.stack_ptr \in 0..Capacity /\ ~thread_stack.callable

(* The frames of the functions that run do not overlap and are all inside
   the thread stack, however functions and callables call each other: a
   callable calls on where its caller's next frame would be. *)
FramesAreDisjoint ==
  LET Ends(k) == activations[k].frame + activations[k].size
      OnStack(k) == activations[k].frame \notin Callables
  IN  \A k \in DOMAIN activations :
        /\ OnStack(k) => Ends(k) <= Capacity
        /\ \A j \in 1..k : OnStack(j) => Ends(j) <= activations[k].next

(* What the slots of an activation stand for while others run, when value
   tells it of the next: a slot that was passed to a mutable parameter is
   now that parameter. *)
SlotValues(value, k) ==
  LET call == activations[k].call
      From(s) == IF call = NoCall THEN {} ELSE {i \in Params : call.args[i] = s /\ call.mutable[i]}
      Now(i) == IF k = Len(activations) THEN frames[call.to].params[i] ELSE value[k + 1][i]
  IN  [s \in {"local"} \union Params |->
         IF From(s) = {} THEN Slot(frames[activations[k].frame], s) ELSE Now(CHOOSE i \in From(s) : TRUE)]

Current[k \in DOMAIN activations] == SlotValues(Current, k)

(* Everything a running function, or the transfer of a result, owns. *)
Owners ==
  {<<k, "local">> : k \in {j \in DOMAIN activations : activations[j].declared}}
    \union {<<k, "caught">> : k \in {j \in DOMAIN activations : activations[j].caught # NoFrame}}
    \union {o \in (DOMAIN activations) \X Params :
              activations[o[1]].call # NoCall /\ o[2] \in Temporaries(activations[o[1]].call.args)}
    \union (IF Returned THEN {<<0, outcome>>} ELSE {})

Owned(owner) ==
  CASE owner[2] = "local" -> Current[owner[1]]["local"]
    [] owner[2] = "caught" -> frames[activations[owner[1]].caught].err.message
    [] owner[2] = "ok" -> Callee.ret
    [] owner[2] = "error" -> Callee.err.message
    [] OTHER -> activations[owner[1]].call.values[owner[2]]

(* Whatever lives has exactly one owner: a local variable, a temporary, a
   result or an error on its way, or it was left behind by a rethrow or a
   thrown literal, the two places known to lose values.  Nothing is freed
   twice, and what a function was passed is alive as long as it runs. *)
ValuesHaveOneOwner ==
  /\ ~misfreed
  /\ activations # <<>> =>
       /\ live \ leaked = {Owned(o) : o \in Owners}
       /\ \A o, p \in Owners : Owned(o) = Owned(p) => o = p
       /\ \A k \in DOMAIN activations : k > 1 => \A i \in Params : Current[k][i] \in live \ leaked
  /\ outcome = "ended" => live = leaked

(* An error arrives at the catch that handles it as it was thrown, through
   however many functions it was passed on, and stays so until the catch
   ends. *)
ErrorsArrive ==
  \A k \in DOMAIN activations :
    activations[k].caught # NoFrame =>
      /\ frames[activations[k].caught].err.code = activations[k].expected
      /\ frames[activations[k].caught].err.message \in live

(* Calls keep their frames apart, and errors arrive as they were thrown. *)
CallsReturnWhereTheyShould == CallsTypeOK /\ FramesAreDisjoint /\ ErrorsArrive
=============================================================================
