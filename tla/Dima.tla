-------------------------------- MODULE Dima --------------------------------
(***************************************************************************)
(* The allocator that flintc generates into every program: one DIMA head   *)
(* (the one of a data type), its blocks and their slots, with the          *)
(* functions dima.allocate, dima.retain and dima.release as the IR builder *)
(* of generator_dima.cpp emits them, driven by a program that declares     *)
(* variables of a recursive data type                                      *)
(*                                                                         *)
(*     data IntList:  IntList? next;                                       *)
(*                                                                         *)
(* assigns to its field, passes values to functions and leaves scopes.     *)
(*                                                                         *)
(* dima.release of a value whose count reaches 0 calls flint.free, which   *)
(* releases the field before the slot itself is given back: releases nest, *)
(* all of them on the same head, and each of them keeps the head pointer   *)
(* it loaded before the nested call.  `stack` holds those calls.           *)
(*                                                                         *)
(* A value is the pair <<b, i>> of its block's index and its slot's index. *)
(* What a slot stores (its `next` field) is kept apart, in `value`.        *)
(***************************************************************************)
EXTENDS Integers, Sequences, FiniteSets

CONSTANTS BaseCapacity,   \* BASE_CAPACITY, 16 in the code
          GrowthFactor,   \* GROWTH_FACTOR in tenths, 11 in the code
          ArcModulus,     \* the values an arc can have, 2^32 in the code
          MaxBlocks,      \* bound: the head never grows beyond this
          MaxValues,      \* bound: the values that are allocated at a time
          MaxArc,         \* bound: the references to one value
          ReallocMoves,   \* whether shrinking the head may move it
          NULL,           \* the null pointer of a blocks array
          None            \* the optional that holds no value

VARIABLES blocks,   \* head->blocks, a function on 0 .. block_count - 1
          count,    \* head->block_count
          value,    \* value[a]: the `next` field of the value at a
          held,     \* held[a]: the references of variables and arguments
          lost,     \* lost[a]: the references an assignment wrote over
          stack     \* the calls of dima.release that have not returned

vars == <<blocks, count, value, held, lost, stack>>

----------------------------------------
(***************************************************************************)
(* Blocks and slots.                                                       *)
(***************************************************************************)

(* dima_get_block_capacity: multiplication and division round upwards. *)
capacity[index \in Nat] ==
    IF index = 0 THEN BaseCapacity
    ELSE (capacity[index - 1] * GrowthFactor + 9) \div 10

BlockIds == 0 .. (MaxBlocks - 1)

MaxCapacity == capacity[MaxBlocks - 1]

Addr == BlockIds \X (0 .. (MaxCapacity - 1))

(* A slot that memset cleared: UNUSED, and all its fields are 0. *)
ZeroSlot == [flags |-> "UNUSED", arc |-> 0, block_id |-> 0]

Slot == [flags : {"UNUSED", "OCCUPIED"}, arc : 0 .. (ArcModulus - 1), block_id : BlockIds]

(* A block has the capacity of its place in the head. *)
Block(b) ==
    [capacity : {capacity[b]}, used : 0 .. capacity[b], first_free_slot_id : 0 .. (capacity[b] - 1),
     slots : [0 .. (capacity[b] - 1) -> Slot]]

ASSUME DimaAssumption ==
    /\ BaseCapacity \in Nat \ {0}
    /\ GrowthFactor \in Nat /\ GrowthFactor >= 10
    /\ MaxBlocks \in Nat \ {0}
    /\ MaxArc \in Nat \ {0}
    /\ ArcModulus \in Nat
    /\ MaxArc < ArcModulus
    /\ ReallocMoves \in BOOLEAN
    /\ None \notin Addr
    /\ \A b \in BlockIds : NULL \notin Block(b)

create_block(cap) ==
    [capacity |-> cap, used |-> 0, first_free_slot_id |-> 0,
     slots |-> [i \in 0 .. (cap - 1) |-> ZeroSlot]]

(* A mistake: the flags are not looked at. *)
SlotsFromFirstFree(block) == block.first_free_slot_id .. (block.capacity - 1)

(* The slots dima_allocate_in_block looks at and finds unused. *)
FreeSlots(block) ==
    {i \in block.first_free_slot_id .. (block.capacity - 1) : block.slots[i].flags = "UNUSED"}

(* A mistake: the block's use count is left alone. *)
AllocateUncounted(block, i, id) ==
    [block EXCEPT
        !.slots[i] = [flags |-> "OCCUPIED", arc |-> 1, block_id |-> id],
        !.first_free_slot_id = IF i + 1 >= block.capacity THEN 0 ELSE i + 1]

(* dima_allocate_in_block took slot i of a block; the caller sets its id. *)
allocate_in_block(block, i, id) ==
    [block EXCEPT
        !.slots[i] = [flags |-> "OCCUPIED", arc |-> 1, block_id |-> id],
        !.used = @ + 1,
        !.first_free_slot_id = IF i + 1 >= block.capacity THEN 0 ELSE i + 1]

(* The first slot a scan upwards comes to, the block a scan downwards does. *)
IsFirst(i, S) == i \in S /\ \A j \in S : i <= j
IsLast(i, S)  == i \in S /\ \A j \in S : j <= i

Present  == {b \in 0 .. (count - 1) : blocks[b] # NULL}
Holes    == {b \in 0 .. (count - 1) : blocks[b] = NULL}
NotFull  == {b \in Present : blocks[b].used # blocks[b].capacity}

OccupiedIn(block) == {i \in 0 .. (block.capacity - 1) : block.slots[i].flags = "OCCUPIED"}

Occupied == {a \in Addr : a[1] \in Present /\ a[2] \in OccupiedIn(blocks[a[1]])}

ArcOf(a) == blocks[a[1]].slots[a[2]].arc

Init ==
    /\ blocks = [b \in {} |-> NULL]
    /\ count = 0
    /\ value = [a \in Addr |-> None]
    /\ held = [a \in Addr |-> 0]
    /\ lost = [a \in Addr |-> 0]
    /\ stack = << >>

----------------------------------------
(***************************************************************************)
(* dima.allocate, in the order in which it looks for a slot.  PutIn gives  *)
(* out the first unused slot of a block that is entry a[1] of a head of n  *)
(* entries.                                                                *)
(***************************************************************************)
PutIn(a, block, n) ==
    /\ IsFirst(a[2], FreeSlots(block))
    /\ count' = n
    /\ blocks' = [b \in 0 .. (n - 1) |->
                    IF b = a[1] THEN allocate_in_block(block, a[2], a[1]) ELSE blocks[b]]

(* The head has no block yet, or lost its last one. *)
AllocateFirst(a) ==
    /\ count = 0
    /\ a[1] = 0
    /\ PutIn(a, create_block(BaseCapacity), 1)

(* The last block that is not full. *)
AllocateInRoom(a) ==
    /\ IsLast(a[1], NotFull)
    /\ PutIn(a, blocks[a[1]], count)

(* Every block is full, and the last entry without one gets a new one. *)
AllocateInHole(a) ==
    /\ NotFull = {}
    /\ IsLast(a[1], Holes)
    /\ PutIn(a, create_block(capacity[a[1]]), count)

(* The head is reallocated with one more entry. *)
AllocateGrown(a) ==
    /\ count > 0
    /\ NotFull = {}
    /\ Holes = {}
    /\ a[1] = count
    /\ PutIn(a, create_block(capacity[count]), count + 1)

Allocate(a) ==
    /\ Cardinality(Occupied) < MaxValues
    /\ \/ AllocateFirst(a)
       \/ AllocateInRoom(a)
       \/ AllocateInHole(a)
       \/ AllocateGrown(a)

----------------------------------------
(***************************************************************************)
(* dima.retain and dima.release.                                           *)
(***************************************************************************)
SetArc(a, arc) ==
    blocks' = [blocks EXCEPT ![a[1]].slots[a[2]].arc = arc]

(* A mistake: the argument is passed without being counted. *)
NotRetained(a) == ArcOf(a) % ArcModulus

Retained(a) == (ArcOf(a) + 1) % ArcModulus
Released(a) == (ArcOf(a) + ArcModulus - 1) % ArcModulus

(* A call of dima.release returns at once while references remain; the
   other calls load the head and go on to free the fields of the value. *)
EnterRelease(a, callers) ==
    /\ SetArc(a, Released(a))
    /\ stack' = IF Released(a) > 0 THEN callers
                ELSE Append(callers, [addr |-> a, at |-> "fields", stale |-> FALSE])

Top == stack[Len(stack)]
Callers == SubSeq(stack, 1, Len(stack) - 1)

(* A mistake: a field that was released is released again. *)
FreeFieldsForever ==
    /\ stack # << >>
    /\ Top.at = "fields"
    /\ \/ /\ value[Top.addr] = None
          /\ UNCHANGED <<blocks, stack>>
       \/ /\ value[Top.addr] # None
          /\ EnterRelease(value[Top.addr], stack)
    /\ UNCHANGED <<count, value, held, lost>>

(* flint.free on the value: the optional field is released if it has one. *)
FreeFields ==
    /\ stack # << >>
    /\ Top.at = "fields"
    /\ LET resumed == [stack EXCEPT ![Len(stack)].at = "slot"]
       IN  \/ /\ value[Top.addr] = None
              /\ stack' = resumed
              /\ UNCHANGED blocks
           \/ /\ value[Top.addr] # None
              /\ EnterRelease(value[Top.addr], resumed)
    /\ UNCHANGED <<count, value, held, lost>>

(* The block of the slot is found through the head that was loaded before
   the fields were freed; when that head was moved, the read is undefined
   and the model has no step for it. *)
AtSlot ==
    /\ stack # << >>
    /\ Top.at = "slot"
    /\ ~Top.stale

block_id == blocks[Top.addr[1]].slots[Top.addr[2]].block_id

(* A mistake: first_free_slot_id only ever moves upwards. *)
ClearedBehindTheScan ==
    LET index == Top.addr[2]
    IN  [blocks[block_id] EXCEPT
            !.used = @ - 1,
            !.slots[index] = ZeroSlot]

(* The block after the slot was cleared. *)
Cleared ==
    LET index == Top.addr[2]
    IN  [blocks[block_id] EXCEPT
            !.used = @ - 1,
            !.slots[index] = ZeroSlot,
            !.first_free_slot_id = IF @ > index THEN index ELSE @]

(* Other slots of the block are in use. *)
ClearSlot ==
    /\ AtSlot
    /\ Cleared.used > 0
    /\ blocks' = [blocks EXCEPT ![block_id] = Cleared]
    /\ stack' = Callers
    /\ UNCHANGED count

(* The block is empty and is freed; later entries keep the head as it is. *)
DropBlock ==
    /\ AtSlot
    /\ Cleared.used = 0
    /\ block_id + 1 < count
    /\ blocks' = [blocks EXCEPT ![block_id] = NULL]
    /\ stack' = Callers
    /\ UNCHANGED count

(* The last block is freed: the head shrinks behind the last block that is
   left.  realloc may move it, behind the back of the calls further up. *)
ShrinkHead ==
    /\ AtSlot
    /\ Cleared.used = 0
    /\ block_id + 1 >= count
    /\ \E new_size \in 0 .. (count - 1) :
        /\ IsLast(new_size, {n \in 0 .. (count - 1) : n = 0 \/ blocks[n - 1] # NULL})
        /\ count' = new_size
        /\ blocks' = [b \in 0 .. (new_size - 1) |-> blocks[b]]
    /\ \E moved \in {m \in BOOLEAN : m => ReallocMoves} :
        stack' = [k \in 1 .. (Len(stack) - 1) |-> [stack[k] EXCEPT !.stale = @ \/ moved]]

FreeSlot ==
    /\ ClearSlot \/ DropBlock \/ ShrinkHead
    /\ value' = [value EXCEPT ![Top.addr] = None]
    /\ UNCHANGED <<held, lost>>

----------------------------------------
(***************************************************************************)
(* The program: one statement at a time, none while a release is running.  *)
(***************************************************************************)

(* IntList list = IntList(none) *)
Declare ==
    /\ stack = << >>
    /\ \E a \in Addr :
        /\ Allocate(a)
        /\ held' = [held EXCEPT ![a] = 1]
        /\ value' = [value EXCEPT ![a] = None]
    /\ UNCHANGED <<lost, stack>>

(* list.next = IntList(none): the value is stored in the field without
   another reference, and what was in the field is written over. *)
AssignField(p) ==
    /\ stack = << >>
    /\ held[p] > 0
    /\ \E a \in Addr :
        /\ Allocate(a)
        /\ value' = [value EXCEPT ![a] = None, ![p] = a]
    /\ lost' = IF value[p] = None THEN lost ELSE [lost EXCEPT ![value[p]] = @ + 1]
    /\ UNCHANGED <<held, stack>>

(* f(list) and f(list.next!): the argument is retained for the call. *)
PassArgument(a) ==
    /\ stack = << >>
    /\ \/ held[a] > 0
       \/ \E p \in Addr : held[p] > 0 /\ value[p] = a
    /\ ArcOf(a) < MaxArc
    /\ SetArc(a, Retained(a))
    /\ held' = [held EXCEPT ![a] = @ + 1]
    /\ UNCHANGED <<count, value, lost, stack>>

(* The end of a scope or of a call: dima.release on the variable. *)
Drop(a) ==
    /\ stack = << >>
    /\ held[a] > 0
    /\ held' = [held EXCEPT ![a] = @ - 1]
    /\ EnterRelease(a, << >>)
    /\ UNCHANGED <<count, value, lost>>

ReleaseStep == FreeFields \/ FreeSlot

Next ==
    \/ Declare
    \/ \E a \in Addr : AssignField(a) \/ PassArgument(a) \/ Drop(a)
    \/ ReleaseStep

(* A release runs on without waiting for anything; the program is free to
   stop where it likes. *)
Fairness == WF_vars(ReleaseStep)

Spec == Init /\ [][Next]_vars /\ Fairness

----------------------------------------
(***************************************************************************)
(* Correctness.                                                            *)
(***************************************************************************)
Frame == [addr : Addr, at : {"fields", "slot"}, stale : BOOLEAN]

(* The type invariant. *)
TypeOK ==
    /\ count \in 0 .. MaxBlocks
    /\ DOMAIN blocks = 0 .. (count - 1)
    /\ \A b \in 0 .. (count - 1) : blocks[b] = NULL \/ blocks[b] \in Block(b)
    /\ value \in [Addr -> Addr \cup {None}]
    /\ held \in [Addr -> Nat]
    /\ lost \in [Addr -> Nat]
    /\ stack \in Seq(Frame)

(* `used` is the number of slots of the block that are in use, and a block
   with none is not kept: the two counters dima.release decides by when it
   frees a block, whatever nested releases did to it. *)
UsedCountsSlots ==
    \A b \in Present :
        /\ blocks[b].used = Cardinality(OccupiedIn(blocks[b]))
        /\ blocks[b].used > 0

(* A slot in use carries the index of the block it is in, by which
   dima.release finds the counters it decrements and the entry it clears. *)
SlotsKnowTheirBlock ==
    \A a \in Occupied : blocks[a[1]].slots[a[2]].block_id = a[1]

(* The counters and ids by which dima.release finds and frees a block are
   right, in the middle of nested releases too. *)
BlocksAreConsistent == UsedCountsSlots /\ SlotsKnowTheirBlock

(* dima.allocate does not test what dima_allocate_in_block returns for a
   block with used # capacity: the scan from first_free_slot_id on has to
   find a slot, whatever was released in between. *)
FreeSlotIsFound == \A b \in NotFull : FreeSlots(blocks[b]) # {}

(* The last entry of the head is a block: each shrink takes all the empty
   entries at the end with it, those that nested releases left included. *)
HeadIsTight == count > 0 => blocks[count - 1] # NULL

(* The counters, ids and entries that the search for a free slot and the
   return of a slot rely on agree with the slots, in the middle of nested
   releases too. *)
StorageIsSound == TypeOK /\ BlocksAreConsistent /\ FreeSlotIsFound /\ HeadIsTight

(* The fields of p were released, its slot was not given back yet. *)
FieldsReleased(p) == \E k \in DOMAIN stack : stack[k].addr = p /\ stack[k].at = "slot"

(* The values whose field owns a reference to a. *)
Owners(a) == {p \in Occupied : value[p] = a /\ ~FieldsReleased(p)}

(* The count of a value is the number of variables, arguments and fields
   that refer to it, in the middle of a nested release too: it is neither
   freed under a reference nor kept without one. *)
ArcCountsReferences ==
    \A a \in Occupied : ArcOf(a) = held[a] + lost[a] + Cardinality(Owners(a))

(* No variable, argument or field that still owns its reference points to
   a slot that was given back (or to a block that was freed). *)
ReferencesAreLive ==
    /\ \A a \in Addr : held[a] + lost[a] > 0 => a \in Occupied
    /\ \A p \in Occupied : value[p] # None /\ ~FieldsReleased(p) => value[p] \in Occupied

(* The running releases are those of distinct values without references
   whose slots are still in use: no value is freed twice. *)
ReleasedOnce ==
    /\ \A k \in DOMAIN stack : stack[k].addr \in Occupied /\ ArcOf(stack[k].addr) = 0
    /\ \A j, k \in DOMAIN stack : stack[j].addr = stack[k].addr => j = k

(* The blocks are sound, and a value is counted by exactly those that
   refer to it, is there as long as they are, and is given back once. *)
HeapIsSound == StorageIsSound /\ ArcCountsReferences /\ ReferencesAreLive /\ ReleasedOnce

(* A release comes to its end however long the list is that it frees. *)
ReleaseReturns == stack # << >> ~> stack = << >>

(* The allocator keeps the promise of RefHeap. *)
Heap == INSTANCE RefHeap WITH
            Cells <- Addr,
            live <- Occupied,
            refs <- [a \in Addr |-> IF a \in Occupied THEN ArcOf(a) ELSE 0],
            contents <- value

ImplementsHeap == Heap!Spec

(***************************************************************************)
(* What the sources say and a realloc that moves its block breaks.         *)
(***************************************************************************)

(* dima.release finds the block of its slot through the head: "This is the
   block containing the freed slot" (generator_dima.cpp:903).  The head it
   reads must be the one that *head_ref points to. *)
ReleaseReadsTheHead == stack # << >> /\ Top.at = "slot" => ~Top.stale

=============================================================================
