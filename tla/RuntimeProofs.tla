--------------------------- MODULE RuntimeProofs ---------------------------
(***************************************************************************)
(* What is proved of the modules flintc emits into the runtime of every    *)
(* program: the allocator (Dima), the integer functions (Arithmetic) and   *)
(* what a program does before main (Startup).                              *)
(*                                                                         *)
(* The allocator: for blocks of any capacity and growth, any number of     *)
(* values and references, lists of any length and a realloc that moves the *)
(* head or does not.  The proofs have two levels.  The blocks are sound by *)
(* themselves, and a step occupies or clears one slot or changes one count *)
(* (Occupies, Clears, Counts); what the references rely on is proved from  *)
(* that alone.                                                             *)
(*                                                                         *)
(* The integer functions: for integers of every width, vectors of every    *)
(* length and all arguments, results fit their types, and sums, differences, *)
(* products and powers saturate, report and stop as documented, the products *)
(* of signed vectors excepted.  The tests are compared with the exact result *)
(* lane by lane (Clamps), and one lemma about the frame of the functions   *)
(* carries that over to calls.  The loop of the power function has an      *)
(* invariant: result and what it is still to be multiplied with make the   *)
(* exact power, or the power is known not to fit and the result is on its  *)
(* way to the right end of the range.                                      *)
(*                                                                         *)
(* Startup: for programs with any files, fields and initializers.  The     *)
(* fields are initialized one by one, and those that were have their       *)
(* values, whatever the order of the files.                                *)
(***************************************************************************)
EXTENDS Dima, Arithmetic, TestRunner, DataTheorems
----------------------------------------
(* The capacities. *)

(* capacity is the function its recursive definition says. *)
LEMMA CapacityRecursion ==
  /\ capacity[0] = BaseCapacity
  /\ \A n \in Nat : capacity[n + 1] = (capacity[n] * GrowthFactor + 9) \div 10
<1>. DEFINE step == [x \in Nat |-> (x * GrowthFactor + 9) \div 10]
<1>1. BaseCapacity \in Nat /\ GrowthFactor \in Nat
  BY DimaAssumption
<1>2. step \in [Nat -> Nat]
  <2>1. ASSUME NEW x \in Nat
        PROVE  (x * GrowthFactor + 9) \div 10 \in Nat
    <3>1. x * GrowthFactor \in Nat
      BY <1>1
    <3>. QED BY <3>1
  <2>. QED BY <2>1
<1>3. \A x \in Nat : step[x] = (x * GrowthFactor + 9) \div 10
  OBVIOUS
<1>. HIDE DEF step
<1>4. PICK g \in [Nat -> Nat] : g[0] = BaseCapacity /\ \A n \in Nat : g[n + 1] = step[g[n]]
  <2>. DEFINE N == Nat
  <2>1. BaseCapacity \in N /\ step \in [N -> N]
    BY <1>1, <1>2
  <2>. HIDE DEF N
  <2>2. \E g : IsIteration(g, N, BaseCapacity, step)
    BY <2>1, Iteration
  <2>. QED BY <2>2 DEF N, IsIteration
<1>5. g = [n \in Nat |-> IF n = 0 THEN BaseCapacity ELSE (g[n - 1] * GrowthFactor + 9) \div 10]
  <2>1. ASSUME NEW n \in Nat, n # 0
        PROVE  g[n] = (g[n - 1] * GrowthFactor + 9) \div 10
    <3>1. n - 1 \in Nat /\ (n - 1) + 1 = n
      BY <2>1
    <3>2. g[n] = step[g[n - 1]]
      BY <1>4, <3>1
    <3>. QED BY <1>3, <1>4, <3>1, <3>2
  <2>. QED BY <1>4, <2>1
<1>6. capacity = [n \in Nat |-> IF n = 0 THEN BaseCapacity
                                ELSE (capacity[n - 1] * GrowthFactor + 9) \div 10]
  BY <1>5 DEF capacity
<1>7. ASSUME NEW n \in Nat
      PROVE  capacity[n + 1] = (capacity[n] * GrowthFactor + 9) \div 10
  <2>1. n + 1 \in Nat /\ n + 1 # 0 /\ (n + 1) - 1 = n
    OBVIOUS
  <2>. QED BY <1>6, <2>1
<1>. QED BY <1>6, <1>7

(* A block is no smaller than the one before it, and none is empty. *)
LEMMA CapacityGrows ==
  ASSUME NEW n \in Nat
  PROVE  /\ capacity[n] \in Nat /\ capacity[n] >= 1
         /\ \A m \in 0 .. n : capacity[m] <= capacity[n]
<1>. DEFINE T == {k \in Nat : /\ capacity[k] \in Nat /\ capacity[k] >= 1
                              /\ \A m \in 0 .. k : capacity[m] \in Nat /\ capacity[m] <= capacity[k]}
<1>1. 0 \in T
  BY CapacityRecursion, DimaAssumption
<1>2. ASSUME NEW k \in Nat, k \in T
      PROVE  k + 1 \in T
  <2>1. capacity[k + 1] = (capacity[k] * GrowthFactor + 9) \div 10
    BY CapacityRecursion
  <2>2. \A c, f \in Nat : f >= 10 => c * f \in Nat /\ c * f >= c * 10
    OBVIOUS
  <2>3. \A p \in Nat : p \div 10 \in Nat /\ 10 * (p \div 10) + 10 > p
    OBVIOUS
  <2>4. capacity[k + 1] \in Nat /\ capacity[k + 1] >= capacity[k]
    <3>. DEFINE p == capacity[k] * GrowthFactor
    <3>1. p \in Nat /\ p >= capacity[k] * 10
      BY <1>2, <2>2, DimaAssumption
    <3>. HIDE DEF p
    <3>2. capacity[k + 1] = (p + 9) \div 10
      BY <2>1 DEF p
    <3>3. p + 9 \in Nat
      BY <3>1
    <3>4. capacity[k + 1] \in Nat /\ 10 * capacity[k + 1] + 10 > p + 9
      BY <2>3, <3>2, <3>3
    <3>. QED BY <1>2, <3>1, <3>4
  <2>5. ASSUME NEW m \in 0 .. k + 1
        PROVE  capacity[m] \in Nat /\ capacity[m] <= capacity[k + 1]
    <3>1. CASE m = k + 1
      BY <2>4, <3>1
    <3>2. CASE m # k + 1
      <4>1. m \in 0 .. k /\ m \in Nat
        BY <3>2
      <4>2. capacity[m] \in Nat /\ capacity[m] <= capacity[k]
        BY <1>2, <4>1
      <4>. QED BY <1>2, <2>4, <4>2
    <3>. QED BY <3>1, <3>2
  <2>. QED BY <1>2, <2>4, <2>5
<1>3. Nat \subseteq T
  <2>. HIDE DEF T
  <2>. QED BY <1>1, <1>2, SetInduction
<1>. QED BY <1>3

(* The constants, as the proofs use them. *)
LEMMA Bounds ==
  /\ MaxCapacity \in Nat /\ 0 \in BlockIds /\ IsFiniteSet(Addr)
  /\ \A b \in BlockIds : capacity[b] \in Nat /\ capacity[b] >= 1 /\ capacity[b] <= MaxCapacity
  /\ \A b \in BlockIds : \A i \in 0 .. capacity[b] - 1 : <<b, i>> \in Addr
  /\ \A a \in Addr : a[1] \in BlockIds /\ a[2] \in Nat /\ a = <<a[1], a[2]>>
<1>1. MaxBlocks \in Nat \ {0}
  BY DimaAssumption
<1>2. MaxBlocks - 1 \in Nat /\ BlockIds \subseteq 0 .. MaxBlocks - 1 /\ 0 \in BlockIds
  BY <1>1 DEF BlockIds
<1>3. \A b \in BlockIds : capacity[b] \in Nat /\ capacity[b] >= 1 /\ capacity[b] <= MaxCapacity
  BY <1>2, CapacityGrows DEF MaxCapacity
<1>4. MaxCapacity \in Nat
  BY <1>2, CapacityGrows DEF MaxCapacity
<1>5. IsFiniteSet(Addr)
  <2>1. IsFiniteSet(0 .. MaxBlocks - 1) /\ IsFiniteSet(0 .. MaxCapacity - 1)
    BY <1>2, <1>4, FS_Interval
  <2>. QED BY <2>1, FS_Product DEF Addr, BlockIds
<1>6. \A b \in BlockIds : \A i \in 0 .. capacity[b] - 1 : <<b, i>> \in Addr
  <2>. SUFFICES ASSUME NEW b \in BlockIds, NEW i \in 0 .. capacity[b] - 1
                PROVE  i \in 0 .. MaxCapacity - 1
    BY DEF Addr
  <2>. QED BY <1>3, <1>4
<1>7. \A a \in Addr : a[1] \in BlockIds /\ a[2] \in Nat /\ a = <<a[1], a[2]>>
  BY <1>4 DEF Addr
<1>. QED BY <1>2, <1>3, <1>4, <1>5, <1>6, <1>7

----------------------------------------
(* One block. *)

(* The counter and the ids of a block are right, and the slots below the
   one the next scan begins at are in use. *)
IsBlock(block, b) ==
  /\ block \in Block(b)
  /\ block.used = Cardinality(OccupiedIn(block))
  /\ \A i \in OccupiedIn(block) : block.slots[i].block_id = b
  /\ \A i \in 0 .. block.first_free_slot_id - 1 : block.slots[i].flags = "OCCUPIED"

(* Two blocks that differ in slot i at most. *)
SameBut(block, new, i) ==
  \A j \in 0 .. block.capacity - 1 : j # i => new.slots[j] = block.slots[j]

(* The parts of a block. *)
LEMMA BlockParts ==
  ASSUME NEW b \in BlockIds, NEW block \in Block(b)
  PROVE  /\ block.capacity = capacity[b] /\ capacity[b] \in Nat /\ capacity[b] >= 1
         /\ block.used \in 0 .. capacity[b]
         /\ block.first_free_slot_id \in 0 .. capacity[b] - 1
         /\ block.slots \in [0 .. capacity[b] - 1 -> Slot]
         /\ OccupiedIn(block) \subseteq 0 .. capacity[b] - 1
         /\ IsFiniteSet(0 .. capacity[b] - 1) /\ Cardinality(0 .. capacity[b] - 1) = capacity[b]
         /\ IsFiniteSet(OccupiedIn(block)) /\ Cardinality(OccupiedIn(block)) \in Nat
<1>1. /\ block.capacity = capacity[b] /\ capacity[b] \in Nat /\ capacity[b] >= 1
      /\ block.used \in 0 .. capacity[b]
      /\ block.first_free_slot_id \in 0 .. capacity[b] - 1
      /\ block.slots \in [0 .. capacity[b] - 1 -> Slot]
  BY Bounds DEF Block
<1>2. OccupiedIn(block) \subseteq 0 .. capacity[b] - 1
  BY <1>1 DEF OccupiedIn
<1>3. IsFiniteSet(0 .. capacity[b] - 1) /\ Cardinality(0 .. capacity[b] - 1) = capacity[b]
  <2>. DEFINE m == capacity[b] - 1
  <2>1. m \in Int /\ 0 \in Int /\ m >= 0 /\ m - 0 + 1 = capacity[b]
    BY <1>1
  <2>. HIDE DEF m
  <2>2. IsFiniteSet(0 .. m) /\ Cardinality(0 .. m) = IF 0 > m THEN 0 ELSE m - 0 + 1
    BY <2>1, FS_Interval
  <2>3. Cardinality(0 .. m) = capacity[b]
    BY <2>1, <2>2
  <2>. QED BY <2>2, <2>3 DEF m
<1>4. IsFiniteSet(OccupiedIn(block)) /\ Cardinality(OccupiedIn(block)) \in Nat
  BY <1>2, <1>3, FS_Subset, FS_CardinalityType
<1>. QED BY <1>1, <1>2, <1>3, <1>4

(* A new block is sound and empty. *)
LEMMA NewBlock ==
  ASSUME NEW b \in BlockIds
  PROVE  /\ IsBlock(create_block(capacity[b]), b)
         /\ OccupiedIn(create_block(capacity[b])) = {}
<1>. DEFINE new == create_block(capacity[b])
<1>1. ZeroSlot \in Slot
  BY Bounds, DimaAssumption DEF ZeroSlot, Slot
<1>2. new \in Block(b)
  BY <1>1, Bounds DEF create_block, Block
<1>3. OccupiedIn(new) = {}
  BY DEF create_block, OccupiedIn, ZeroSlot
<1>4. new.used = 0 /\ new.first_free_slot_id = 0
  BY DEF create_block
<1>. QED BY <1>2, <1>3, <1>4, FS_EmptySet DEF IsBlock

(* A block whose counter says that there is room has a slot for the scan. *)
LEMMA RoomIsFound ==
  ASSUME NEW b \in BlockIds, NEW block, IsBlock(block, b), block.used # block.capacity
  PROVE  FreeSlots(block) # {}
<1>1. /\ block \in Block(b) /\ block.used = Cardinality(OccupiedIn(block))
      /\ \A i \in 0 .. block.first_free_slot_id - 1 : block.slots[i].flags = "OCCUPIED"
  BY DEF IsBlock
<1>2. OccupiedIn(block) # 0 .. capacity[b] - 1
  BY <1>1, BlockParts
<1>3. PICK i \in 0 .. capacity[b] - 1 : i \notin OccupiedIn(block)
  BY <1>1, <1>2, BlockParts
<1>4. block.slots[i].flags = "UNUSED"
  <2>1. block.slots[i] \in Slot /\ i \in 0 .. block.capacity - 1
    BY <1>1, <1>3, BlockParts
  <2>. QED BY <1>3, <2>1 DEF OccupiedIn, Slot
<1>5. i \in block.first_free_slot_id .. block.capacity - 1
  BY <1>1, <1>3, <1>4, BlockParts
<1>. QED BY <1>4, <1>5 DEF FreeSlots

(* dima_allocate_in_block takes one unused slot, with a count of 1. *)
LEMMA TakeSlot ==
  ASSUME NEW b \in BlockIds, NEW block, IsBlock(block, b), NEW i, IsFirst(i, FreeSlots(block))
  PROVE  LET new == allocate_in_block(block, i, b)
         IN  /\ IsBlock(new, b) /\ new.used > 0 /\ new.capacity = block.capacity
             /\ i \in 0 .. capacity[b] - 1 /\ i \notin OccupiedIn(block)
             /\ OccupiedIn(new) = OccupiedIn(block) \cup {i}
             /\ new.slots[i].arc = 1 /\ SameBut(block, new, i)
<1>. DEFINE new == allocate_in_block(block, i, b)
<1>1. /\ block \in Block(b) /\ block.used = Cardinality(OccupiedIn(block))
      /\ \A j \in OccupiedIn(block) : block.slots[j].block_id = b
      /\ \A j \in 0 .. block.first_free_slot_id - 1 : block.slots[j].flags = "OCCUPIED"
  BY DEF IsBlock
<1>2. /\ i \in 0 .. capacity[b] - 1 /\ i >= block.first_free_slot_id
      /\ block.slots[i].flags = "UNUSED"
      /\ \A j \in 0 .. i - 1 : block.slots[j].flags = "OCCUPIED"
  <2>1. i \in block.first_free_slot_id .. capacity[b] - 1 /\ block.slots[i].flags = "UNUSED"
    BY <1>1, BlockParts DEF IsFirst, FreeSlots
  <2>2. ASSUME NEW j \in 0 .. i - 1
        PROVE  block.slots[j].flags = "OCCUPIED"
    <3>1. j \in 0 .. capacity[b] - 1
      BY <1>1, <2>1, BlockParts
    <3>2. CASE j < block.first_free_slot_id
      <4>1. j \in 0 .. block.first_free_slot_id - 1
        BY <1>1, <3>2, BlockParts
      <4>. QED BY <1>1, <4>1
    <3>3. CASE j >= block.first_free_slot_id
      <4>1. j \in block.first_free_slot_id .. block.capacity - 1
        BY <1>1, <3>1, <3>3, BlockParts
      <4>2. j \notin FreeSlots(block)
        BY <1>1, <2>1, BlockParts DEF IsFirst
      <4>3. block.slots[j] \in Slot
        BY <1>1, <3>1, BlockParts
      <4>. QED BY <4>1, <4>2, <4>3 DEF FreeSlots, Slot
    <3>. QED BY <1>1, <3>2, <3>3, BlockParts
  <2>. QED BY <1>1, <2>1, <2>2, BlockParts
<1>3. i \notin OccupiedIn(block)
  BY <1>2 DEF OccupiedIn
<1>4. /\ new.capacity = block.capacity /\ new.used = block.used + 1
      /\ new.slots = [block.slots EXCEPT ![i] = [flags |-> "OCCUPIED", arc |-> 1, block_id |-> b]]
      /\ new.first_free_slot_id = IF i + 1 >= block.capacity THEN 0 ELSE i + 1
  BY <1>1 DEF allocate_in_block, Block
<1>0. /\ new.used \in 0 .. capacity[b] /\ new.first_free_slot_id \in 0 .. capacity[b] - 1
      /\ new.slots \in [0 .. capacity[b] - 1 -> Slot]
      => new \in Block(b)
  BY <1>1, <1>4 DEF allocate_in_block, Block
<1>. HIDE DEF new
<1>5. /\ new.slots[i] = [flags |-> "OCCUPIED", arc |-> 1, block_id |-> b]
      /\ \A j \in 0 .. capacity[b] - 1 : j # i => new.slots[j] = block.slots[j]
  BY <1>1, <1>2, <1>4, BlockParts
<1>6. OccupiedIn(new) = OccupiedIn(block) \cup {i}
  <2>1. i \in 0 .. block.capacity - 1 /\ block.capacity = capacity[b]
    BY <1>1, <1>2, BlockParts
  <2>. QED BY <1>4, <1>5, <2>1 DEF OccupiedIn
<1>7. new.used = Cardinality(OccupiedIn(new))
  <2>1. IsFiniteSet(OccupiedIn(block))
    BY <1>1, BlockParts
  <2>2. Cardinality(OccupiedIn(block) \cup {i}) = Cardinality(OccupiedIn(block)) + 1
    BY <1>3, <2>1, FS_AddElement
  <2>. QED BY <1>1, <1>4, <1>6, <2>2
<1>8. new.used \in 0 .. capacity[b] /\ new.used > 0
  <2>1. OccupiedIn(new) \subseteq 0 .. capacity[b] - 1
    BY <1>1, <1>2, <1>6, BlockParts
  <2>2. Cardinality(OccupiedIn(new)) <= capacity[b]
    BY <1>1, <2>1, BlockParts, FS_Subset
  <2>. QED BY <1>1, <1>4, <1>7, <2>2, BlockParts
<1>9. new \in Block(b)
  <2>1. [flags |-> "OCCUPIED", arc |-> 1, block_id |-> b] \in Slot
    BY DimaAssumption DEF Slot
  <2>2. new.slots \in [0 .. capacity[b] - 1 -> Slot]
    BY <1>1, <1>2, <1>4, <2>1, BlockParts
  <2>3. new.first_free_slot_id \in 0 .. capacity[b] - 1
    BY <1>1, <1>2, <1>4, BlockParts
  <2>. QED BY <1>0, <1>8, <2>2, <2>3
<1>10. \A j \in 0 .. new.first_free_slot_id - 1 : new.slots[j].flags = "OCCUPIED"
  <2>1. ASSUME NEW j \in 0 .. new.first_free_slot_id - 1
        PROVE  new.slots[j].flags = "OCCUPIED"
    <3>1. j \in 0 .. i /\ j \in 0 .. capacity[b] - 1
      BY <1>1, <1>2, <1>4, BlockParts
    <3>2. j # i => j \in 0 .. i - 1
      BY <1>2, <3>1
    <3>. QED BY <1>2, <1>5, <3>1, <3>2
  <2>. QED BY <2>1
<1>11. \A j \in OccupiedIn(new) : new.slots[j].block_id = b
  BY <1>1, <1>3, <1>5, <1>6, BlockParts
<1>12. SameBut(block, new, i)
  BY <1>1, <1>5, BlockParts DEF SameBut
<1>13. IsBlock(new, b)
  BY <1>7, <1>9, <1>10, <1>11 DEF IsBlock
<1>. QED BY <1>2, <1>3, <1>4, <1>5, <1>6, <1>8, <1>12, <1>13 DEF new

(* Counting a reference changes nothing else. *)
LEMMA CountSlot ==
  ASSUME NEW b \in BlockIds, NEW block, IsBlock(block, b), NEW i \in OccupiedIn(block),
         NEW arc \in 0 .. ArcModulus - 1
  PROVE  LET new == [block EXCEPT !.slots[i].arc = arc]
         IN  /\ IsBlock(new, b) /\ new.used = block.used /\ new.capacity = block.capacity
             /\ OccupiedIn(new) = OccupiedIn(block)
             /\ new.slots[i].arc = arc /\ SameBut(block, new, i)
<1>. DEFINE new == [block EXCEPT !.slots[i].arc = arc]
            slot == [block.slots[i] EXCEPT !.arc = arc]
<1>1. /\ block \in Block(b) /\ block.used = Cardinality(OccupiedIn(block))
      /\ \A j \in OccupiedIn(block) : block.slots[j].block_id = b
      /\ \A j \in 0 .. block.first_free_slot_id - 1 : block.slots[j].flags = "OCCUPIED"
  BY DEF IsBlock
<1>2. /\ i \in 0 .. capacity[b] - 1 /\ block.slots[i] \in Slot
      /\ block.slots[i].flags = "OCCUPIED"
  BY <1>1, BlockParts DEF OccupiedIn
<1>3. slot \in Slot /\ slot.flags = "OCCUPIED" /\ slot.block_id = block.slots[i].block_id
      /\ slot.arc = arc
  BY <1>2 DEF Slot
<1>. HIDE DEF slot
<1>4. /\ new.capacity = block.capacity /\ new.used = block.used
      /\ new.slots = [block.slots EXCEPT ![i] = slot]
      /\ new.first_free_slot_id = block.first_free_slot_id
  BY <1>1 DEF Block, slot
<1>0. new.slots \in [0 .. capacity[b] - 1 -> Slot] => new \in Block(b)
  BY <1>1, <1>4 DEF Block
<1>. HIDE DEF new
<1>5. /\ new.slots[i] = slot
      /\ \A j \in 0 .. capacity[b] - 1 : j # i => new.slots[j] = block.slots[j]
  BY <1>1, <1>2, <1>4, BlockParts
<1>6. OccupiedIn(new) = OccupiedIn(block)
  BY <1>1, <1>2, <1>3, <1>4, <1>5, BlockParts DEF OccupiedIn
<1>7. new \in Block(b)
  <2>1. new.slots \in [0 .. capacity[b] - 1 -> Slot]
    BY <1>1, <1>2, <1>3, <1>4, BlockParts
  <2>. QED BY <1>0, <2>1
<1>8. \A j \in 0 .. new.first_free_slot_id - 1 : new.slots[j].flags = "OCCUPIED"
  <2>1. ASSUME NEW j \in 0 .. block.first_free_slot_id - 1
        PROVE  new.slots[j].flags = "OCCUPIED"
    <3>1. j \in 0 .. capacity[b] - 1
      BY <1>1, BlockParts
    <3>. QED BY <1>1, <1>3, <1>5, <3>1
  <2>. QED BY <1>4, <2>1
<1>9. \A j \in OccupiedIn(new) : new.slots[j].block_id = b
  BY <1>1, <1>3, <1>5, <1>6, BlockParts
<1>10. SameBut(block, new, i)
  BY <1>1, <1>5, BlockParts DEF SameBut
<1>11. IsBlock(new, b)
  BY <1>1, <1>4, <1>6, <1>7, <1>8, <1>9 DEF IsBlock
<1>. QED BY <1>3, <1>4, <1>5, <1>6, <1>10, <1>11 DEF new

(* A block after its slot i was cleared. *)
Without(block, i) ==
  [block EXCEPT !.used = @ - 1, !.slots[i] = ZeroSlot,
                !.first_free_slot_id = IF @ > i THEN i ELSE @]

(* Clearing a slot gives back that slot and no other. *)
LEMMA ClearOneSlot ==
  ASSUME NEW b \in BlockIds, NEW block, IsBlock(block, b), NEW i \in OccupiedIn(block)
  PROVE  LET new == Without(block, i)
         IN  /\ IsBlock(new, b) /\ new.capacity = block.capacity
             /\ new.used \in Nat /\ (new.used = 0 => OccupiedIn(new) = {})
             /\ OccupiedIn(new) = OccupiedIn(block) \ {i}
             /\ SameBut(block, new, i)
<1>. DEFINE new == Without(block, i)
<1>1. /\ block \in Block(b) /\ block.used = Cardinality(OccupiedIn(block))
      /\ \A j \in OccupiedIn(block) : block.slots[j].block_id = b
      /\ \A j \in 0 .. block.first_free_slot_id - 1 : block.slots[j].flags = "OCCUPIED"
  BY DEF IsBlock
<1>2. i \in 0 .. capacity[b] - 1
  BY <1>1, BlockParts
<1>3. ZeroSlot \in Slot /\ ZeroSlot.flags = "UNUSED"
  BY Bounds, DimaAssumption DEF ZeroSlot, Slot
<1>4. /\ new.capacity = block.capacity /\ new.used = block.used - 1
      /\ new.slots = [block.slots EXCEPT ![i] = ZeroSlot]
      /\ new.first_free_slot_id = IF block.first_free_slot_id > i THEN i
                                  ELSE block.first_free_slot_id
  BY <1>1 DEF Block, Without
<1>0. /\ new.used \in 0 .. capacity[b] /\ new.first_free_slot_id \in 0 .. capacity[b] - 1
      /\ new.slots \in [0 .. capacity[b] - 1 -> Slot]
      => new \in Block(b)
  BY <1>1, <1>4 DEF Block, Without
<1>. HIDE DEF new
<1>5. /\ new.slots[i] = ZeroSlot
      /\ \A j \in 0 .. capacity[b] - 1 : j # i => new.slots[j] = block.slots[j]
  BY <1>1, <1>2, <1>4, BlockParts
<1>6. OccupiedIn(new) = OccupiedIn(block) \ {i}
  BY <1>1, <1>2, <1>3, <1>4, <1>5, BlockParts DEF OccupiedIn
<1>7. new.used = Cardinality(OccupiedIn(new)) /\ new.used \in 0 .. capacity[b]
  <2>1. IsFiniteSet(OccupiedIn(block)) /\ Cardinality(OccupiedIn(block)) \in Nat
        /\ block.used \in 0 .. capacity[b] /\ capacity[b] \in Nat
    BY <1>1, BlockParts
  <2>2. Cardinality(OccupiedIn(new)) = block.used - 1 /\ IsFiniteSet(OccupiedIn(new))
    BY <1>1, <1>6, <2>1, FS_RemoveElement
  <2>3. Cardinality(OccupiedIn(new)) \in Nat
    BY <2>2, FS_CardinalityType
  <2>. QED BY <1>4, <2>1, <2>2, <2>3
<1>8. new \in Block(b)
  <2>1. new.slots \in [0 .. capacity[b] - 1 -> Slot]
    BY <1>1, <1>2, <1>3, <1>4, BlockParts
  <2>2. new.first_free_slot_id \in 0 .. capacity[b] - 1
    BY <1>1, <1>2, <1>4, BlockParts
  <2>. QED BY <1>0, <1>7, <2>1, <2>2
<1>9. \A j \in 0 .. new.first_free_slot_id - 1 : new.slots[j].flags = "OCCUPIED"
  <2>1. ASSUME NEW j \in 0 .. new.first_free_slot_id - 1
        PROVE  new.slots[j].flags = "OCCUPIED"
    <3>1. j \in 0 .. block.first_free_slot_id - 1 /\ j # i /\ j \in 0 .. capacity[b] - 1
      BY <1>1, <1>2, <1>4, BlockParts
    <3>. QED BY <1>1, <1>5, <3>1
  <2>. QED BY <2>1
<1>10. \A j \in OccupiedIn(new) : new.slots[j].block_id = b
  BY <1>1, <1>5, <1>6, BlockParts
<1>11. SameBut(block, new, i)
  BY <1>1, <1>5, BlockParts DEF SameBut
<1>12. IsBlock(new, b)
  BY <1>7, <1>8, <1>9, <1>10 DEF IsBlock
<1>13. new.used \in Nat /\ (new.used = 0 => OccupiedIn(new) = {})
  <2>1. IsFiniteSet(OccupiedIn(new))
    BY <1>8, BlockParts
  <2>. QED BY <1>7, <2>1, FS_EmptySet
<1>. QED BY <1>4, <1>6, <1>11, <1>12, <1>13 DEF new

----------------------------------------
(* All the blocks of the head. *)

(* Every block is sound and in use, and the last entry is one. *)
BlocksAreSound ==
  /\ count \in 0 .. MaxBlocks /\ DOMAIN blocks = 0 .. count - 1
  /\ \A b \in 0 .. count - 1 : blocks[b] # NULL => IsBlock(blocks[b], b) /\ blocks[b].used > 0
  /\ HeadIsTight

(* The three things a step does to the slots in use. *)
Occupies(a) ==
  /\ a \in Addr \ Occupied /\ Occupied' = Occupied \cup {a} /\ ArcOf(a)' = 1
  /\ \A c \in Occupied : ArcOf(c)' = ArcOf(c)
Counts(a, n) ==
  /\ a \in Occupied /\ Occupied' = Occupied /\ ArcOf(a)' = n
  /\ \A c \in Occupied : c # a => ArcOf(c)' = ArcOf(c)
Clears(a) ==
  /\ a \in Occupied /\ Occupied' = Occupied \ {a}
  /\ \A c \in Occupied' : ArcOf(c)' = ArcOf(c)

(* The indices of the head are indices of blocks, and NULL is no block. *)
LEMMA HeadIndices ==
  ASSUME BlocksAreSound
  PROVE  /\ count \in Nat /\ count <= MaxBlocks /\ MaxBlocks \in Nat
         /\ \A b \in 0 .. count - 1 : b \in BlockIds /\ b \in Nat
         /\ \A b \in BlockIds : \A block : IsBlock(block, b) => block # NULL
<1>1. count \in Nat /\ count <= MaxBlocks /\ MaxBlocks \in Nat
  BY DimaAssumption DEF BlocksAreSound
<1>2. \A b \in 0 .. count - 1 : b \in BlockIds /\ b \in Nat
  BY <1>1 DEF BlockIds
<1>3. \A b \in BlockIds : \A block : IsBlock(block, b) => block # NULL
  BY DimaAssumption DEF IsBlock
<1>. QED BY <1>1, <1>2, <1>3

(* The slots in use are those of the blocks. *)
LEMMA OccupiedAt ==
  ASSUME BlocksAreSound
  PROVE  /\ Occupied \subseteq Addr /\ IsFiniteSet(Occupied)
         /\ \A a \in Occupied : /\ a[1] \in 0 .. count - 1 /\ blocks[a[1]] # NULL
                                /\ IsBlock(blocks[a[1]], a[1])
                                /\ a[2] \in OccupiedIn(blocks[a[1]])
                                /\ a[2] \in 0 .. capacity[a[1]] - 1
                                /\ ArcOf(a) \in 0 .. ArcModulus - 1
         /\ \A b \in 0 .. count - 1 : blocks[b] # NULL =>
              \A i \in OccupiedIn(blocks[b]) : <<b, i>> \in Occupied
<1>1. Occupied \subseteq Addr /\ IsFiniteSet(Occupied)
  BY Bounds, FS_Subset DEF Occupied
<1>2. ASSUME NEW a \in Occupied
      PROVE  /\ a[1] \in 0 .. count - 1 /\ blocks[a[1]] # NULL
             /\ IsBlock(blocks[a[1]], a[1])
             /\ a[2] \in OccupiedIn(blocks[a[1]])
             /\ a[2] \in 0 .. capacity[a[1]] - 1
             /\ ArcOf(a) \in 0 .. ArcModulus - 1
  <2>1. /\ a[1] \in 0 .. count - 1 /\ blocks[a[1]] # NULL /\ a[2] \in OccupiedIn(blocks[a[1]])
    BY DEF Occupied, Present
  <2>2. IsBlock(blocks[a[1]], a[1]) /\ a[1] \in BlockIds
    BY <2>1, HeadIndices DEF BlocksAreSound
  <2>3. a[2] \in 0 .. capacity[a[1]] - 1 /\ blocks[a[1]].slots \in [0 .. capacity[a[1]] - 1 -> Slot]
    BY <2>1, <2>2, BlockParts DEF IsBlock
  <2>4. ArcOf(a) \in 0 .. ArcModulus - 1
    BY <2>3 DEF ArcOf, Slot
  <2>. QED BY <2>1, <2>2, <2>3, <2>4
<1>3. ASSUME NEW b \in 0 .. count - 1, blocks[b] # NULL, NEW i \in OccupiedIn(blocks[b])
      PROVE  <<b, i>> \in Occupied
  <2>1. IsBlock(blocks[b], b) /\ b \in BlockIds
    BY <1>3, HeadIndices DEF BlocksAreSound
  <2>2. i \in 0 .. capacity[b] - 1
    BY <2>1, BlockParts DEF IsBlock
  <2>3. <<b, i>> \in Addr
    BY <2>1, <2>2, Bounds
  <2>. QED BY <1>3, <2>3 DEF Occupied, Present
<1>. QED BY <1>1, <1>2, <1>3

(* A slot of a sound block is given out. *)
LEMMA PutInSound ==
  ASSUME BlocksAreSound, NEW a \in Addr, NEW block, IsBlock(block, a[1]), NEW n \in Nat,
         n <= MaxBlocks, a[1] \in 0 .. n - 1, PutIn(a, block, n),
         \/ n = count /\ blocks[a[1]] = block
         \/ n = count /\ blocks[a[1]] = NULL /\ OccupiedIn(block) = {}
         \/ n = count + 1 /\ a[1] = count /\ OccupiedIn(block) = {}
  PROVE  BlocksAreSound' /\ Occupies(a)
<1>. DEFINE b == a[1]
            i == a[2]
            new == allocate_in_block(block, i, b)
<1>1. /\ b \in BlockIds /\ b \in Nat /\ a = <<b, i>> /\ IsFirst(i, FreeSlots(block))
      /\ count' = n /\ blocks' = [c \in 0 .. n - 1 |-> IF c = b THEN new ELSE blocks[c]]
  BY Bounds DEF PutIn
<1>2. /\ IsBlock(new, b) /\ new.used > 0 /\ i \in 0 .. capacity[b] - 1
      /\ i \notin OccupiedIn(block) /\ OccupiedIn(new) = OccupiedIn(block) \cup {i}
      /\ new.slots[i].arc = 1 /\ SameBut(block, new, i)
  BY <1>1, TakeSlot
<1>. HIDE DEF new
<1>3. /\ count \in Nat /\ new # NULL /\ \A c \in 0 .. n - 1 : c # b => c \in 0 .. count - 1
      /\ \A c \in 0 .. count - 1 : c \in 0 .. n - 1
  BY <1>1, <1>2, HeadIndices
<1>4. blocks'[b] = new /\ \A c \in 0 .. n - 1 : c # b => blocks'[c] = blocks[c]
  BY <1>1
<1>5. BlocksAreSound'
  <2>1. count' \in 0 .. MaxBlocks /\ DOMAIN blocks' = 0 .. count' - 1
    BY <1>1, <1>3, HeadIndices
  <2>2. ASSUME NEW c \in 0 .. n - 1
        PROVE  blocks'[c] # NULL => IsBlock(blocks'[c], c) /\ blocks'[c].used > 0
    BY <1>2, <1>3, <1>4 DEF BlocksAreSound
  <2>3. HeadIsTight'
    <3>1. CASE n = count
      <4>1. n - 1 # b => blocks'[n - 1] = blocks[n - 1] \/ n = 0
        BY <1>4, <3>1
      <4>. QED BY <1>1, <1>3, <1>4, <3>1, <4>1 DEF BlocksAreSound, HeadIsTight
    <3>2. CASE n = count + 1 /\ b = count
      BY <1>1, <1>3, <1>4, <3>2 DEF HeadIsTight
    <3>. QED BY <3>1, <3>2
  <2>. QED BY <1>1, <2>1, <2>2, <2>3 DEF BlocksAreSound
<1>6. \/ n = count /\ b \in 0 .. count - 1 /\ blocks[b] = block
      \/ OccupiedIn(block) = {} /\ (b \in 0 .. count - 1 => blocks[b] = NULL)
  BY <1>1, <1>3
<1>7. a \notin Occupied
  BY <1>2, <1>6, OccupiedAt
<1>8. \A x : x \in Occupied' <=> /\ x \in Addr /\ x[1] \in 0 .. n - 1 /\ blocks'[x[1]] # NULL
                                 /\ x[2] \in OccupiedIn(blocks'[x[1]])
  BY <1>1 DEF Occupied, Present
<1>9. \A x : x \in Occupied <=> /\ x \in Addr /\ x[1] \in 0 .. count - 1 /\ blocks[x[1]] # NULL
                                /\ x[2] \in OccupiedIn(blocks[x[1]])
  BY DEF Occupied, Present
<1>10. ASSUME NEW x \in Addr
       PROVE  x \in Occupied' <=> x \in Occupied \/ x = a
  <2>1. CASE x[1] # b
    BY <1>3, <1>4, <1>8, <1>9, <2>1
  <2>2. CASE x[1] = b
    <3>1. x \in Occupied' <=> x[2] \in OccupiedIn(block) \/ x[2] = i
      BY <1>2, <1>3, <1>4, <1>8, <2>2
    <3>2. x[2] \in OccupiedIn(block) <=> x \in Occupied
      <4>1. block # NULL
        BY <1>1, HeadIndices
      <4>. QED BY <1>6, <1>9, <2>2, <4>1
    <3>3. x[2] = i <=> x = a
      BY <1>1, <2>2, Bounds
    <3>. QED BY <3>1, <3>2, <3>3
  <2>. QED BY <2>1, <2>2
<1>11. Occupied' = Occupied \cup {a}
  BY <1>8, <1>9, <1>10
<1>12. ArcOf(a)' = 1
  BY <1>2, <1>4 DEF ArcOf
<1>13. ASSUME NEW c \in Occupied
       PROVE  ArcOf(c)' = ArcOf(c)
  <2>1. c[1] \in 0 .. n - 1 /\ c \in Addr /\ blocks[c[1]] # NULL
        /\ c[2] \in 0 .. capacity[c[1]] - 1
    BY <1>3, OccupiedAt
  <2>2. CASE c[1] # b
    BY <1>4, <2>1, <2>2 DEF ArcOf
  <2>3. CASE c[1] = b
    <3>1. blocks[b] = block /\ block.capacity = capacity[b]
      BY <1>1, <1>6, <2>1, <2>3, BlockParts, OccupiedAt DEF IsBlock
    <3>2. c[2] # i
      BY <1>1, <1>7, <2>1, <2>3, Bounds
    <3>3. new.slots[c[2]] = block.slots[c[2]]
      BY <1>2, <2>1, <2>3, <3>1, <3>2 DEF SameBut
    <3>. QED BY <1>4, <2>3, <3>1, <3>3 DEF ArcOf
  <2>. QED BY <2>2, <2>3
<1>. QED BY <1>5, <1>7, <1>11, <1>12, <1>13 DEF Occupies

(* dima.allocate keeps the blocks sound and gives out one slot, wherever
   it finds or makes room. *)
LEMMA AllocateSound ==
  ASSUME BlocksAreSound, NEW a \in Addr, Allocate(a)
  PROVE  BlocksAreSound' /\ Occupies(a)
<1>. DEFINE new == create_block(capacity[a[1]])
<1>1. /\ a[1] \in BlockIds /\ a[1] \in Nat /\ a[1] < MaxBlocks /\ MaxBlocks \in Nat
      /\ count \in Nat /\ count <= MaxBlocks
  BY Bounds, HeadIndices DEF BlockIds
<1>2. IsBlock(new, a[1]) /\ OccupiedIn(new) = {}
  BY <1>1, NewBlock
<1>3. CASE AllocateFirst(a)
  <2>1. count = 0 /\ a[1] = 0 /\ PutIn(a, new, 1)
    BY <1>3, CapacityRecursion DEF AllocateFirst
  <2>. HIDE DEF new
  <2>2. 1 \in Nat /\ 1 <= MaxBlocks /\ a[1] \in 0 .. 1 - 1 /\ 1 = count + 1 /\ a[1] = count
    BY <1>1, <2>1
  <2>. QED BY <1>2, <2>1, <2>2, PutInSound
<1>4. CASE AllocateInRoom(a)
  <2>1. /\ a[1] \in 0 .. count - 1 /\ blocks[a[1]] # NULL /\ PutIn(a, blocks[a[1]], count)
    BY <1>4 DEF AllocateInRoom, IsLast, NotFull, Present
  <2>2. IsBlock(blocks[a[1]], a[1])
    BY <2>1 DEF BlocksAreSound
  <2>. QED BY <1>1, <2>1, <2>2, PutInSound
<1>5. CASE AllocateInHole(a)
  <2>1. a[1] \in 0 .. count - 1 /\ blocks[a[1]] = NULL /\ PutIn(a, new, count)
    BY <1>5 DEF AllocateInHole, IsLast, Holes
  <2>. HIDE DEF new
  <2>. QED BY <1>1, <1>2, <2>1, PutInSound
<1>6. CASE AllocateGrown(a)
  <2>1. a[1] = count /\ PutIn(a, new, count + 1)
    BY <1>6 DEF AllocateGrown
  <2>. HIDE DEF new
  <2>2. count + 1 \in Nat /\ count + 1 <= MaxBlocks /\ a[1] \in 0 .. (count + 1) - 1
    BY <1>1, <2>1
  <2>. QED BY <1>2, <2>1, <2>2, PutInSound
<1>. QED BY <1>3, <1>4, <1>5, <1>6 DEF Allocate

(* Setting a count keeps the blocks sound. *)
LEMMA SetArcSound ==
  ASSUME BlocksAreSound, NEW a \in Occupied, NEW arc \in 0 .. ArcModulus - 1, SetArc(a, arc),
         count' = count
  PROVE  BlocksAreSound' /\ Counts(a, arc)
<1>. DEFINE b == a[1]
            i == a[2]
            new == [blocks[b] EXCEPT !.slots[i].arc = arc]
<1>1. /\ a \in Addr /\ b \in 0 .. count - 1 /\ b \in BlockIds /\ blocks[b] # NULL
      /\ IsBlock(blocks[b], b) /\ i \in OccupiedIn(blocks[b]) /\ blocks[b].used > 0
  BY OccupiedAt, HeadIndices DEF BlocksAreSound
<1>2. /\ IsBlock(new, b) /\ new.used = blocks[b].used
      /\ OccupiedIn(new) = OccupiedIn(blocks[b])
      /\ new.slots[i].arc = arc /\ SameBut(blocks[b], new, i)
  BY <1>1, CountSlot
<1>3. DOMAIN blocks = 0 .. count - 1
  BY DEF BlocksAreSound
<1>4. /\ DOMAIN blocks' = 0 .. count - 1 /\ blocks'[b] = new
      /\ \A c \in 0 .. count - 1 : c # b => blocks'[c] = blocks[c]
  BY <1>1, <1>3 DEF SetArc
<1>. HIDE DEF new
<1>5. new # NULL
  BY <1>1, <1>2, HeadIndices
<1>6. BlocksAreSound'
  <2>1. HeadIsTight'
    BY <1>4, <1>5, HeadIndices DEF HeadIsTight, BlocksAreSound
  <2>2. ASSUME NEW c \in 0 .. count - 1, blocks'[c] # NULL
        PROVE  IsBlock(blocks'[c], c) /\ blocks'[c].used > 0
    BY <1>1, <1>2, <1>4, <2>2 DEF BlocksAreSound
  <2>. QED BY <1>4, <2>1, <2>2 DEF BlocksAreSound
<1>7. \A c \in 0 .. count - 1 : /\ blocks'[c] # NULL <=> blocks[c] # NULL
                                /\ blocks[c] # NULL => OccupiedIn(blocks'[c]) = OccupiedIn(blocks[c])
  BY <1>1, <1>2, <1>4, <1>5
<1>8. Occupied' = Occupied
  BY <1>7 DEF Occupied, Present
<1>9. ASSUME NEW c \in Occupied, c # a
      PROVE  ArcOf(c)' = ArcOf(c)
  <2>1. c[1] \in 0 .. count - 1 /\ c \in Addr /\ c[2] \in 0 .. capacity[c[1]] - 1
    BY OccupiedAt
  <2>2. CASE c[1] # b
    BY <1>4, <2>1, <2>2 DEF ArcOf
  <2>3. CASE c[1] = b
    <3>1. blocks[b].capacity = capacity[b]
      BY <1>1, BlockParts DEF IsBlock
    <3>2. c[2] # i
      BY <1>1, <1>9, <2>1, <2>3, Bounds
    <3>. QED BY <1>2, <1>4, <2>1, <2>3, <3>1, <3>2 DEF ArcOf, SameBut
  <2>. QED BY <2>2, <2>3
<1>10. ArcOf(a)' = arc
  BY <1>2, <1>4 DEF ArcOf
<1>. QED BY <1>6, <1>8, <1>9, <1>10 DEF Counts

(* dima.release finds the block of the slot it gives back, and clears that
   slot and nothing else, whether the block or the end of the head go with
   it or not. *)
LEMMA FreeSlotSound ==
  ASSUME BlocksAreSound, Top.addr \in Occupied, ClearSlot \/ DropBlock \/ ShrinkHead
  PROVE  BlocksAreSound' /\ Clears(Top.addr)
<1>. DEFINE t == Top.addr
            b == t[1]
            i == t[2]
            new == Without(blocks[b], i)
<1>1. /\ t \in Addr /\ b \in 0 .. count - 1 /\ b \in BlockIds /\ b \in Nat /\ blocks[b] # NULL
      /\ IsBlock(blocks[b], b) /\ i \in OccupiedIn(blocks[b]) /\ count \in Nat
      /\ DOMAIN blocks = 0 .. count - 1
  BY OccupiedAt, HeadIndices DEF BlocksAreSound
<1>2. /\ IsBlock(new, b) /\ new.used \in Nat /\ (new.used = 0 => OccupiedIn(new) = {})
      /\ OccupiedIn(new) = OccupiedIn(blocks[b]) \ {i}
      /\ SameBut(blocks[b], new, i)
  BY <1>1, ClearOneSlot
<1>3. block_id = b
  BY <1>1 DEF block_id, IsBlock
<1>4. Cleared = new
  BY <1>3 DEF Cleared, Without
<1>. HIDE DEF new
<1>5. new # NULL
  BY <1>1, <1>2, HeadIndices
(* What is common: some entries go, entry b becomes new or NULL if it is
   empty, and the others stay. *)
<1>6. /\ count' \in 0 .. count /\ DOMAIN blocks' = 0 .. count' - 1 /\ HeadIsTight'
      /\ \A c \in 0 .. count' - 1 : c # b => blocks'[c] = blocks[c]
      /\ \A c \in 0 .. count - 1 : c # b /\ c \notin 0 .. count' - 1 => blocks[c] = NULL
      /\ \/ b \in 0 .. count' - 1 /\ blocks'[b] = new /\ new.used > 0
         \/ (b \in 0 .. count' - 1 => blocks'[b] = NULL) /\ OccupiedIn(new) = {}
  <2>1. CASE ClearSlot
    <3>1. count' = count /\ new.used > 0 /\ blocks' = [blocks EXCEPT ![b] = new]
      BY <1>3, <1>4, <2>1 DEF ClearSlot
    <3>2. blocks'[b] = new /\ \A c \in 0 .. count - 1 : c # b => blocks'[c] = blocks[c]
      BY <1>1, <3>1
    <3>3. HeadIsTight'
      BY <1>1, <1>5, <3>1, <3>2 DEF HeadIsTight, BlocksAreSound
    <3>. QED BY <1>1, <3>1, <3>2, <3>3
  <2>2. CASE DropBlock
    <3>1. count' = count /\ new.used = 0 /\ b + 1 < count /\ blocks' = [blocks EXCEPT ![b] = NULL]
      BY <1>3, <1>4, <2>2 DEF DropBlock
    <3>2. blocks'[b] = NULL /\ \A c \in 0 .. count - 1 : c # b => blocks'[c] = blocks[c]
      BY <1>1, <3>1
    <3>3. HeadIsTight'
      BY <1>1, <3>1, <3>2 DEF HeadIsTight, BlocksAreSound
    <3>. QED BY <1>1, <1>2, <3>1, <3>2, <3>3
  <2>3. CASE ShrinkHead
    <3>. DEFINE Ends == {n \in 0 .. count - 1 : n = 0 \/ blocks[n - 1] # NULL}
    <3>1. new.used = 0 /\ b + 1 >= count
      BY <1>3, <1>4, <2>3 DEF ShrinkHead
    <3>2. PICK new_size \in 0 .. count - 1 :
            /\ IsLast(new_size, Ends) /\ count' = new_size
            /\ blocks' = [c \in 0 .. new_size - 1 |-> blocks[c]]
      BY <2>3 DEF ShrinkHead
    <3>3. b = count - 1 /\ new_size \in Nat /\ new_size <= count - 1
      BY <1>1, <3>1, <3>2
    <3>4. ASSUME NEW c \in 0 .. count - 1, c # b, c \notin 0 .. count' - 1
          PROVE  blocks[c] = NULL
      <4>1. c + 1 \in 0 .. count - 1 /\ c + 1 > new_size /\ (c + 1) - 1 = c /\ c + 1 # 0
        BY <1>1, <3>2, <3>3, <3>4
      <4>2. c + 1 \notin Ends
        BY <3>2, <3>3, <4>1 DEF IsLast
      <4>. QED BY <4>1, <4>2
    <3>5. HeadIsTight'
      BY <3>2, <3>3 DEF HeadIsTight, IsLast
    <3>. QED BY <1>1, <1>2, <3>1, <3>2, <3>3, <3>4, <3>5
  <2>. QED BY <2>1, <2>2, <2>3
<1>7. BlocksAreSound'
  <2>1. count' \in 0 .. MaxBlocks /\ \A c \in 0 .. count' - 1 : c \in 0 .. count - 1
    <3>1. count' \in 0 .. count /\ count \in Nat /\ count <= MaxBlocks /\ MaxBlocks \in Nat
      BY <1>6, HeadIndices
    <3>2. \A m, n \in Nat : n <= m => \A k \in 0 .. n : k \in 0 .. m /\ \A c \in 0 .. k - 1 : c \in 0 .. n - 1
      OBVIOUS
    <3>. QED BY <3>1, <3>2, Zenon
  <2>2. ASSUME NEW c \in 0 .. count' - 1, blocks'[c] # NULL
        PROVE  IsBlock(blocks'[c], c) /\ blocks'[c].used > 0
    BY <1>2, <1>6, <2>1, <2>2 DEF BlocksAreSound
  <2>. QED BY <1>6, <2>1, <2>2 DEF BlocksAreSound
<1>8. \A x : x \in Occupied' <=> /\ x \in Addr /\ x[1] \in 0 .. count' - 1 /\ blocks'[x[1]] # NULL
                                 /\ x[2] \in OccupiedIn(blocks'[x[1]])
  BY DEF Occupied, Present
<1>9. \A x : x \in Occupied <=> /\ x \in Addr /\ x[1] \in 0 .. count - 1 /\ blocks[x[1]] # NULL
                                /\ x[2] \in OccupiedIn(blocks[x[1]])
  BY DEF Occupied, Present
<1>10. ASSUME NEW x \in Addr
       PROVE  x \in Occupied' <=> x \in Occupied /\ x # t
  <2>0. \A c \in 0 .. count' - 1 : c \in 0 .. count - 1
    <3>1. count' \in 0 .. count /\ count \in Nat
      BY <1>1, <1>6
    <3>2. \A n \in Nat : \A k \in 0 .. n : \A c \in 0 .. k - 1 : c \in 0 .. n - 1
      OBVIOUS
    <3>. QED BY <3>1, <3>2, Zenon
  <2>1. CASE x[1] # b
    BY <1>6, <1>8, <1>9, <2>0, <2>1
  <2>2. CASE x[1] = b
    <3>1. x[2] = i <=> x = t
      BY <1>1, <2>2, Bounds
    <3>2. x \in Occupied <=> x[2] \in OccupiedIn(blocks[b])
      BY <1>1, <1>9, <2>2
    <3>3. x \in Occupied' <=> x[2] \in OccupiedIn(new)
      BY <1>5, <1>6, <1>8, <2>2
    <3>. QED BY <1>2, <3>1, <3>2, <3>3
  <2>. QED BY <2>1, <2>2
<1>11. Occupied' = Occupied \ {t}
  BY <1>8, <1>9, <1>10
<1>12. ASSUME NEW c \in Occupied'
       PROVE  ArcOf(c)' = ArcOf(c)
  <2>1. c \in Occupied /\ c # t /\ c \in Addr /\ c[1] \in 0 .. count' - 1
        /\ c[2] \in OccupiedIn(blocks'[c[1]]) /\ c[2] \in 0 .. capacity[c[1]] - 1
        /\ blocks'[c[1]] # NULL
    BY <1>8, <1>11, <1>12, OccupiedAt
  <2>2. CASE c[1] # b
    BY <1>6, <2>1, <2>2 DEF ArcOf
  <2>3. CASE c[1] = b
    <3>1. blocks[b].capacity = capacity[b]
      BY <1>1, BlockParts DEF IsBlock
    <3>2. c[2] # i
      BY <1>1, <2>1, <2>3, Bounds
    <3>3. blocks'[b] = new
      BY <1>6, <2>1, <2>3
    <3>. QED BY <1>2, <2>1, <2>3, <3>1, <3>2, <3>3 DEF ArcOf, SameBut
  <2>. QED BY <2>2, <2>3
<1>13. t \in Occupied
  OBVIOUS
<1>. QED BY <1>7, <1>11, <1>12, <1>13 DEF Clears

----------------------------------------
(* The references. *)

(* The types of what the program keeps, and of the calls that run. *)
RefsTyped ==
  /\ value \in [Addr -> Addr \cup {None}] /\ held \in [Addr -> Nat] /\ lost \in [Addr -> Nat]
  /\ stack \in Seq(Frame)

(* What is not in use refers to nothing. *)
FreeIsEmpty == \A a \in Addr \ Occupied : value[a] = None

(* Only the innermost release can still have the fields ahead of it. *)
CallersWait == \A k \in DOMAIN stack : k < Len(stack) => stack[k].at = "slot"

(* What is true of the references. *)
Refs == RefsTyped /\ ArcCountsReferences /\ ReferencesAreLive /\ ReleasedOnce
        /\ FreeIsEmpty /\ CallersWait

(* The inductive invariant. *)
Inv == BlocksAreSound /\ Refs

(* The owners of a value are values in use, and finitely many. *)
LEMMA OwnersFinite ==
  ASSUME BlocksAreSound, NEW a
  PROVE  /\ IsFiniteSet(Owners(a)) /\ Cardinality(Owners(a)) \in Nat
         /\ Owners(a) \subseteq Occupied
         /\ Cardinality(Owners(a)) = 0 => Owners(a) = {}
<1>1. Owners(a) \subseteq Occupied
  BY DEF Owners
<1>. QED BY <1>1, OccupiedAt, FS_Subset, FS_CardinalityType, FS_EmptySet

(* A value that is referred to has a count above 0. *)
LEMMA ReferredIsCounted ==
  ASSUME Inv, NEW a \in Occupied, held[a] > 0 \/ lost[a] > 0 \/ Owners(a) # {}
  PROVE  ArcOf(a) \in 1 .. ArcModulus - 1
<1>1. /\ a \in Addr /\ held[a] \in Nat /\ lost[a] \in Nat /\ ArcOf(a) \in 0 .. ArcModulus - 1
      /\ ArcOf(a) = held[a] + lost[a] + Cardinality(Owners(a))
  BY OccupiedAt DEF Inv, Refs, RefsTyped, ArcCountsReferences
<1>2. Cardinality(Owners(a)) \in Nat /\ (Cardinality(Owners(a)) = 0 => Owners(a) = {})
  BY OwnersFinite DEF Inv
<1>. QED BY <1>1, <1>2

(* While no release runs nothing has been given up yet. *)
LEMMA NothingReleased ==
  ASSUME stack = <<>>
  PROVE  \A p : ~FieldsReleased(p)
BY DEF FieldsReleased

(* Storage that is given out has no references, and nothing refers to it. *)
LEMMA FreeIsUnknown ==
  ASSUME Inv, NEW a \in Addr \ Occupied
  PROVE  /\ held[a] = 0 /\ lost[a] = 0 /\ value[a] = None
         /\ \A p \in Occupied : ~FieldsReleased(p) => value[p] # a
<1>1. held[a] \in Nat /\ lost[a] \in Nat /\ ~(held[a] + lost[a] > 0)
  BY DEF Inv, Refs, RefsTyped, ReferencesAreLive
<1>2. a # None
  BY DimaAssumption
<1>. QED BY <1>1, <1>2 DEF Inv, Refs, FreeIsEmpty, ReferencesAreLive

(* A declaration refers to the value it allocates, once. *)
LEMMA DeclareInv ==
  ASSUME Inv, Declare
  PROVE  Inv'
<1>1. PICK a \in Addr : /\ Allocate(a) /\ held' = [held EXCEPT ![a] = 1]
                        /\ value' = [value EXCEPT ![a] = None] /\ UNCHANGED <<lost, stack>>
                        /\ stack = <<>>
  BY DEF Declare
<1>2. BlocksAreSound' /\ Occupies(a)
  BY <1>1, AllocateSound DEF Inv
<1>3. /\ a \in Addr \ Occupied /\ held[a] = 0 /\ lost[a] = 0 /\ value[a] = None
      /\ \A p \in Occupied : value[p] # a
  BY <1>1, <1>2, FreeIsUnknown, NothingReleased DEF Occupies
<1>4. RefsTyped /\ Occupied \subseteq Addr
  BY OccupiedAt DEF Inv, Refs
<1>5. value' = value
  BY <1>1, <1>3, <1>4 DEF RefsTyped
<1>6. held' \in [Addr -> Nat] /\ held'[a] = 1 /\ \A c \in Addr : c # a => held'[c] = held[c]
  BY <1>1, <1>4 DEF RefsTyped
<1>7. /\ Occupied' = Occupied \cup {a} /\ ArcOf(a)' = 1
      /\ \A c \in Occupied : ArcOf(c)' = ArcOf(c)
  BY <1>2 DEF Occupies
<1>8. \A p : ~FieldsReleased(p) /\ ~FieldsReleased(p)'
  BY <1>1 DEF FieldsReleased
<1>9. Owners(a)' = {} /\ \A c \in Occupied : Owners(c)' = Owners(c)
  <2>1. \A c \in Occupied : c # None
    BY <1>4, DimaAssumption
  <2>2. a # None
    BY DimaAssumption
  <2>. QED BY <1>3, <1>5, <1>7, <1>8, <2>1, <2>2 DEF Owners
<1>10. ArcCountsReferences'
  <2>1. ArcOf(a)' = held'[a] + lost'[a] + Cardinality(Owners(a)')
    BY <1>1, <1>3, <1>6, <1>7, <1>9, FS_EmptySet
  <2>2. ASSUME NEW c \in Occupied
        PROVE  ArcOf(c)' = held'[c] + lost'[c] + Cardinality(Owners(c)')
    BY <1>1, <1>3, <1>4, <1>6, <1>7, <1>9 DEF Inv, Refs, ArcCountsReferences
  <2>. QED BY <1>7, <2>1, <2>2 DEF ArcCountsReferences
<1>11. ReferencesAreLive' /\ FreeIsEmpty'
  BY <1>1, <1>3, <1>5, <1>6, <1>7, <1>8 DEF Inv, Refs, ReferencesAreLive, FreeIsEmpty
<1>12. ReleasedOnce' /\ CallersWait'
  BY <1>1 DEF ReleasedOnce, CallersWait
<1>13. RefsTyped'
  BY <1>1, <1>4, <1>5, <1>6 DEF RefsTyped
<1>. QED BY <1>2, <1>10, <1>11, <1>12, <1>13 DEF Inv, Refs

(* An assignment refers to the new value from the field, and leaves the
   reference that was in the field behind. *)
LEMMA AssignInv ==
  ASSUME Inv, NEW p \in Addr, AssignField(p)
  PROVE  Inv'
<1>1. PICK a \in Addr : /\ Allocate(a) /\ value' = [value EXCEPT ![a] = None, ![p] = a]
                        /\ UNCHANGED <<held, stack>> /\ stack = <<>> /\ held[p] > 0
                        /\ lost' = IF value[p] = None THEN lost
                                   ELSE [lost EXCEPT ![value[p]] = @ + 1]
  BY DEF AssignField
<1>2. BlocksAreSound' /\ Occupies(a)
  BY <1>1, AllocateSound DEF Inv
<1>3. /\ a \in Addr \ Occupied /\ held[a] = 0 /\ lost[a] = 0 /\ value[a] = None
      /\ \A q \in Occupied : value[q] # a
  BY <1>1, <1>2, FreeIsUnknown, NothingReleased DEF Occupies
<1>4. RefsTyped /\ Occupied \subseteq Addr
  BY OccupiedAt DEF Inv, Refs
<1>5. p \in Occupied /\ p # a
  <2>1. held[p] + lost[p] > 0
    BY <1>1, <1>4 DEF RefsTyped
  <2>. QED BY <1>3, <2>1 DEF Inv, Refs, ReferencesAreLive
<1>6. value' \in [Addr -> Addr \cup {None}] /\ value'[p] = a /\ \A c \in Addr : c # p => value'[c] = value[c]
  BY <1>1, <1>3, <1>4, <1>5 DEF RefsTyped
<1>7. /\ Occupied' = Occupied \cup {a} /\ ArcOf(a)' = 1
      /\ \A c \in Occupied : ArcOf(c)' = ArcOf(c)
  BY <1>2 DEF Occupies
<1>8. \A q : ~FieldsReleased(q) /\ ~FieldsReleased(q)'
  BY <1>1 DEF FieldsReleased
<1>9. value[p] = None \/ value[p] \in Occupied
  BY <1>5, <1>8 DEF Inv, Refs, ReferencesAreLive
<1>10. /\ lost' \in [Addr -> Nat] /\ lost'[a] = 0
       /\ \A c \in Occupied : lost'[c] = IF c = value[p] THEN lost[c] + 1 ELSE lost[c]
  <2>1. CASE value[p] = None
    <3>1. None \notin Occupied
      BY <1>4, DimaAssumption
    <3>. QED BY <1>1, <1>3, <1>4, <2>1, <3>1 DEF RefsTyped
  <2>2. CASE value[p] # None
    <3>1. value[p] \in Addr /\ lost' = [lost EXCEPT ![value[p]] = @ + 1]
      BY <1>1, <1>4, <1>9, <2>2
    <3>. QED BY <1>3, <1>4, <1>9, <2>2, <3>1 DEF RefsTyped
  <2>. QED BY <2>1, <2>2
<1>11. Owners(a)' = {p} /\ \A c \in Occupied : Owners(c)' = Owners(c) \ {p}
  <2>1. \A c \in Occupied : c # None /\ c # a
    BY <1>3, <1>4, DimaAssumption
  <2>2. a # None
    BY DimaAssumption
  <2>. QED BY <1>3, <1>4, <1>5, <1>6, <1>7, <1>8, <2>1, <2>2 DEF Owners
<1>12. ArcCountsReferences'
  <2>1. ArcOf(a)' = held'[a] + lost'[a] + Cardinality(Owners(a)')
    <3>1. Cardinality(Owners(a)') = 1
      BY <1>11, FS_Singleton
    <3>2. held'[a] = 0
      BY <1>1, <1>3
    <3>. QED BY <1>7, <1>10, <3>1, <3>2
  <2>2. ASSUME NEW c \in Occupied
        PROVE  ArcOf(c)' = held'[c] + lost'[c] + Cardinality(Owners(c)')
    <3>1. /\ ArcOf(c) = held[c] + lost[c] + Cardinality(Owners(c))
          /\ held[c] \in Nat /\ lost[c] \in Nat
      BY <1>4 DEF Inv, Refs, ArcCountsReferences, RefsTyped
    <3>2. IsFiniteSet(Owners(c)) /\ Cardinality(Owners(c)) \in Nat
      BY OwnersFinite DEF Inv
    <3>3. p \in Owners(c) <=> value[p] = c
      BY <1>5, <1>8 DEF Owners
    <3>4. Cardinality(Owners(c)') = IF value[p] = c THEN Cardinality(Owners(c)) - 1
                                    ELSE Cardinality(Owners(c))
      BY <1>11, <3>2, <3>3, FS_RemoveElement
    <3>. QED BY <1>1, <1>7, <1>10, <3>1, <3>2, <3>4, SMTT(30)
  <2>. QED BY <1>7, <2>1, <2>2 DEF ArcCountsReferences
<1>13. ReferencesAreLive'
  <2>1. ASSUME NEW c \in Addr, held'[c] + lost'[c] > 0
        PROVE  c \in Occupied'
    <3>1. CASE c = a
      BY <1>7, <3>1
    <3>2. CASE c # a /\ c \notin Occupied
      <4>1. held[c] = 0 /\ lost[c] = 0
        BY <3>2, FreeIsUnknown
      <4>2. lost'[c] = lost[c]
        BY <1>1, <1>4, <1>9, <3>2 DEF RefsTyped
      <4>. QED BY <1>1, <2>1, <4>1, <4>2
    <3>. QED BY <1>7, <3>1, <3>2
  <2>2. ASSUME NEW q \in Occupied', value'[q] # None
        PROVE  value'[q] \in Occupied'
    BY <1>3, <1>4, <1>6, <1>7, <1>8, <2>2 DEF Inv, Refs, ReferencesAreLive
  <2>. QED BY <2>1, <2>2 DEF ReferencesAreLive
<1>14. FreeIsEmpty'
  BY <1>5, <1>6, <1>7 DEF Inv, Refs, FreeIsEmpty
<1>15. ReleasedOnce' /\ CallersWait'
  BY <1>1 DEF ReleasedOnce, CallersWait
<1>16. RefsTyped'
  BY <1>1, <1>4, <1>6, <1>10 DEF RefsTyped
<1>. QED BY <1>2, <1>12, <1>13, <1>14, <1>15, <1>16 DEF Inv, Refs

(* What can be passed is referred to. *)
LEMMA PassedIsCounted ==
  ASSUME Inv, NEW a \in Addr, PassArgument(a)
  PROVE  a \in Occupied /\ ArcOf(a) \in 1 .. ArcModulus - 1 /\ Retained(a) = ArcOf(a) + 1
         /\ ArcOf(a) + 1 \in 0 .. ArcModulus - 1
<1>1. stack = <<>> /\ ArcOf(a) < MaxArc
      /\ (held[a] > 0 \/ \E p \in Addr : held[p] > 0 /\ value[p] = a)
  BY DEF PassArgument
<1>2. \A p \in Addr : held[p] > 0 => p \in Occupied
  BY DEF Inv, Refs, RefsTyped, ReferencesAreLive
<1>3. a \in Occupied /\ (held[a] > 0 \/ Owners(a) # {})
  <2>1. CASE held[a] > 0
    BY <1>2, <2>1
  <2>2. CASE \E p \in Addr : held[p] > 0 /\ value[p] = a
    <3>1. PICK p \in Occupied : value[p] = a
      BY <1>2, <2>2
    <3>2. ~FieldsReleased(p) /\ a # None
      BY <1>1, NothingReleased, DimaAssumption
    <3>3. a \in Occupied
      BY <3>1, <3>2 DEF Inv, Refs, ReferencesAreLive
    <3>4. p \in Owners(a)
      BY <3>1, <3>2 DEF Owners
    <3>. QED BY <3>3, <3>4
  <2>. QED BY <1>1, <2>1, <2>2
<1>4. ArcOf(a) \in 1 .. ArcModulus - 1
  BY <1>3, ReferredIsCounted
<1>5. ArcOf(a) + 1 \in 0 .. ArcModulus - 1 /\ ArcModulus \in Nat \ {0}
  BY <1>1, <1>4, DimaAssumption
<1>6. \A n \in Nat \ {0} : \A x \in 0 .. n - 1 : x % n = x
  OBVIOUS
<1>7. Retained(a) = ArcOf(a) + 1
  BY <1>5, <1>6 DEF Retained
<1>. QED BY <1>3, <1>4, <1>5, <1>7

(* An argument is one more reference. *)
LEMMA PassInv ==
  ASSUME Inv, NEW a \in Addr, PassArgument(a)
  PROVE  Inv'
<1>1. /\ SetArc(a, Retained(a)) /\ held' = [held EXCEPT ![a] = @ + 1]
      /\ UNCHANGED <<count, value, lost, stack>> /\ stack = <<>>
  BY DEF PassArgument
<1>2. BlocksAreSound' /\ Counts(a, ArcOf(a) + 1)
  BY <1>1, PassedIsCounted, SetArcSound DEF Inv
<1>3. RefsTyped /\ Occupied \subseteq Addr
  BY OccupiedAt DEF Inv, Refs
<1>4. /\ held' \in [Addr -> Nat] /\ held'[a] = held[a] + 1
      /\ \A c \in Addr : c # a => held'[c] = held[c]
  BY <1>1, <1>3 DEF RefsTyped
<1>5. /\ Occupied' = Occupied /\ a \in Occupied /\ ArcOf(a)' = ArcOf(a) + 1
      /\ \A c \in Occupied : c # a => ArcOf(c)' = ArcOf(c)
  BY <1>2 DEF Counts
<1>6. \A c : Owners(c)' = Owners(c) /\ \A p : FieldsReleased(p)' = FieldsReleased(p)
  BY <1>1, <1>5 DEF Owners, FieldsReleased
<1>7. ArcCountsReferences'
  <2>1. ASSUME NEW c \in Occupied
        PROVE  ArcOf(c)' = held'[c] + lost'[c] + Cardinality(Owners(c)')
    <3>1. /\ ArcOf(c) = held[c] + lost[c] + Cardinality(Owners(c))
          /\ held[c] \in Nat /\ lost[c] \in Nat /\ Cardinality(Owners(c)) \in Nat
      BY <1>3, OwnersFinite DEF Inv, Refs, ArcCountsReferences, RefsTyped
    <3>. QED BY <1>1, <1>3, <1>4, <1>5, <1>6, <3>1
  <2>. QED BY <1>5, <2>1 DEF ArcCountsReferences
<1>8. ReferencesAreLive' /\ FreeIsEmpty'
  BY <1>1, <1>4, <1>5, <1>6 DEF Inv, Refs, ReferencesAreLive, FreeIsEmpty
<1>9. ReleasedOnce' /\ CallersWait' /\ RefsTyped'
  BY <1>1, <1>3, <1>4 DEF ReleasedOnce, CallersWait, RefsTyped
<1>. QED BY <1>2, <1>7, <1>8, <1>9 DEF Inv, Refs

(* A release counts a reference less, and goes on when it was the last. *)
LEMMA ReleaseCounts ==
  ASSUME BlocksAreSound, NEW a \in Occupied, ArcOf(a) \in 1 .. ArcModulus - 1, NEW callers,
         EnterRelease(a, callers), count' = count
  PROVE  /\ BlocksAreSound' /\ Counts(a, ArcOf(a) - 1)
         /\ stack' = IF ArcOf(a) > 1 THEN callers
                     ELSE Append(callers, [addr |-> a, at |-> "fields", stale |-> FALSE])
<1>1. \A n \in Nat : \A x \in 1 .. n - 1 : (x + n - 1) % n = x - 1
  OBVIOUS
<1>2. ArcModulus \in Nat
  BY DimaAssumption
<1>3. Released(a) = ArcOf(a) - 1
  BY <1>1, <1>2 DEF Released
<1>4. Released(a) \in 0 .. ArcModulus - 1 /\ (Released(a) > 0 <=> ArcOf(a) > 1)
  BY <1>2, <1>3
<1>5. SetArc(a, Released(a))
  BY DEF EnterRelease
<1>6. BlocksAreSound' /\ Counts(a, Released(a))
  BY <1>4, <1>5, SetArcSound
<1>. QED BY <1>3, <1>4, <1>6 DEF EnterRelease

(* The call that a release without references left goes on with. *)
LEMMA FirstFrame ==
  ASSUME NEW a \in Addr
  PROVE  LET new == Append(<<>>, [addr |-> a, at |-> "fields", stale |-> FALSE])
         IN  /\ new \in Seq(Frame) /\ Len(new) = 1 /\ DOMAIN new = {1}
             /\ new[1] = [addr |-> a, at |-> "fields", stale |-> FALSE]
BY DEF Frame

(* The end of a scope gives its reference up. *)
LEMMA DropInv ==
  ASSUME Inv, NEW a \in Addr, Drop(a)
  PROVE  Inv'
<1>1. /\ held' = [held EXCEPT ![a] = @ - 1] /\ EnterRelease(a, <<>>)
      /\ UNCHANGED <<count, value, lost>> /\ stack = <<>> /\ held[a] > 0
  BY DEF Drop
<1>2. RefsTyped /\ Occupied \subseteq Addr
  BY OccupiedAt DEF Inv, Refs
<1>3. a \in Occupied /\ ArcOf(a) \in 1 .. ArcModulus - 1
  <2>1. a \in Occupied
    BY <1>1, <1>2 DEF Inv, Refs, RefsTyped, ReferencesAreLive
  <2>. QED BY <1>1, <2>1, ReferredIsCounted
<1>4. /\ BlocksAreSound' /\ Counts(a, ArcOf(a) - 1)
      /\ stack' = IF ArcOf(a) > 1 THEN <<>>
                  ELSE Append(<<>>, [addr |-> a, at |-> "fields", stale |-> FALSE])
  BY <1>1, <1>3, ReleaseCounts DEF Inv
<1>5. /\ held' \in [Addr -> Nat] /\ held'[a] = held[a] - 1
      /\ \A c \in Addr : c # a => held'[c] = held[c]
  BY <1>1, <1>2 DEF RefsTyped
<1>6. /\ Occupied' = Occupied /\ ArcOf(a)' = ArcOf(a) - 1
      /\ \A c \in Occupied : c # a => ArcOf(c)' = ArcOf(c)
  BY <1>4 DEF Counts
<1>7. /\ stack' \in Seq(Frame)
      /\ \A k \in DOMAIN stack' : /\ k = 1 /\ Len(stack') = 1 /\ stack'[k].addr = a
                                  /\ stack'[k].at = "fields" /\ ArcOf(a) = 1
  BY <1>3, <1>4, FirstFrame
<1>8. \A p : ~FieldsReleased(p) /\ ~FieldsReleased(p)'
  BY <1>1, <1>7 DEF FieldsReleased
<1>9. \A c : Owners(c)' = Owners(c)
  BY <1>1, <1>6, <1>8 DEF Owners
<1>10. ArcCountsReferences'
  <2>1. ASSUME NEW c \in Occupied
        PROVE  ArcOf(c)' = held'[c] + lost'[c] + Cardinality(Owners(c)')
    <3>1. /\ ArcOf(c) = held[c] + lost[c] + Cardinality(Owners(c))
          /\ held[c] \in Nat /\ lost[c] \in Nat /\ Cardinality(Owners(c)) \in Nat
      BY <1>2, OwnersFinite DEF Inv, Refs, ArcCountsReferences, RefsTyped
    <3>. QED BY <1>1, <1>2, <1>5, <1>6, <1>9, <3>1
  <2>. QED BY <1>6, <2>1 DEF ArcCountsReferences
<1>11. ReferencesAreLive' /\ FreeIsEmpty'
  <2>1. ASSUME NEW c \in Addr, held'[c] + lost'[c] > 0
        PROVE  c \in Occupied'
    BY <1>1, <1>2, <1>3, <1>5, <1>6, <2>1 DEF Inv, Refs, ReferencesAreLive, RefsTyped
  <2>. QED BY <1>1, <1>6, <1>8, <2>1 DEF Inv, Refs, ReferencesAreLive, FreeIsEmpty
<1>12. ReleasedOnce'
  BY <1>3, <1>6, <1>7 DEF ReleasedOnce
<1>13. CallersWait' /\ RefsTyped'
  BY <1>1, <1>2, <1>5, <1>7 DEF CallersWait, RefsTyped
<1>. QED BY <1>4, <1>10, <1>11, <1>12, <1>13 DEF Inv, Refs

(* The stack after the innermost call has freed the fields. *)
Resumed == [stack EXCEPT ![Len(stack)].at = "slot"]

(* Freeing the fields moves the innermost call on, and no other. *)
LEMMA ResumedStack ==
  ASSUME stack \in Seq(Frame), stack # <<>>
  PROVE  /\ Len(stack) \in Nat \ {0} /\ Len(stack) \in 1 .. Len(stack)
         /\ DOMAIN stack = 1 .. Len(stack)
         /\ Resumed \in Seq(Frame) /\ Len(Resumed) = Len(stack)
         /\ DOMAIN Resumed = 1 .. Len(stack) /\ Resumed[Len(stack)].at = "slot"
         /\ \A k \in 1 .. Len(stack) : /\ Resumed[k].addr = stack[k].addr
                                       /\ Resumed[k].stale = stack[k].stale
                                       /\ k < Len(stack) => Resumed[k].at = stack[k].at
<1>. DEFINE n == Len(stack)
            top == [stack[n] EXCEPT !.at = "slot"]
<1>1. /\ n \in Nat \ {0} /\ n \in 1 .. n /\ DOMAIN stack = 1 .. n
      /\ \A k \in 1 .. n : stack[k] \in Frame
  BY EmptySeq, LenProperties, ElementOfSeq
<1>2. top \in Frame /\ top.at = "slot" /\ top.addr = stack[n].addr /\ top.stale = stack[n].stale
  BY <1>1 DEF Frame
<1>3. Resumed = [stack EXCEPT ![n] = top]
  BY DEF Resumed
<1>. HIDE DEF top, n
<1>4. /\ Resumed \in Seq(Frame) /\ Len(Resumed) = Len(stack)
      /\ \A k \in 1 .. n : Resumed[k] = IF k = n THEN top ELSE stack[k]
  BY <1>1, <1>2, <1>3, ExceptSeq DEF n
<1>5. DOMAIN Resumed = 1 .. n
  BY <1>4, LenProperties DEF n
<1>6. Resumed[n] = top /\ \A k \in 1 .. n : k # n => Resumed[k] = stack[k]
  BY <1>1, <1>4
<1>7. \A k \in 1 .. n : k < n => k # n
  BY <1>1
<1>8. \A k \in 1 .. n : /\ Resumed[k].addr = stack[k].addr /\ Resumed[k].stale = stack[k].stale
                       /\ k < n => Resumed[k].at = stack[k].at
  BY <1>2, <1>6, <1>7
<1>. QED BY <1>1, <1>2, <1>4, <1>5, <1>6, <1>8 DEF n

(* The innermost release frees the field: the reference in it is given up
   and counted, and its release begins with the last reference. *)
LEMMA FieldGivenUp ==
  ASSUME Inv, FreeFields, NEW t, t = Top.addr, NEW x, x = value[t]
  PROVE  /\ t \in Occupied /\ ArcOf(t) = 0 /\ ~FieldsReleased(t)
         /\ BlocksAreSound'
         /\ x # None => /\ x \in Occupied /\ t \in Owners(x) /\ ArcOf(x) \in 1 .. ArcModulus - 1
                       /\ Counts(x, ArcOf(x) - 1)
         /\ x = None => Occupied' = Occupied /\ \A c : ArcOf(c)' = ArcOf(c)
         /\ stack' = IF x # None /\ ArcOf(x) = 1
                     THEN Append(Resumed, [addr |-> x, at |-> "fields", stale |-> FALSE])
                     ELSE Resumed
<1>1. stack # <<>> /\ Top.at = "fields" /\ UNCHANGED <<count, value, held, lost>>
  BY DEF FreeFields
<1>2. Len(stack) \in DOMAIN stack
  BY <1>1, ResumedStack DEF Inv, Refs, RefsTyped
<1>3. t \in Occupied /\ ArcOf(t) = 0 /\ ~FieldsReleased(t)
  BY <1>1, <1>2 DEF Inv, Refs, ReleasedOnce, FieldsReleased, Top
<1>4. CASE x = None
  <2>1. stack' = Resumed /\ UNCHANGED blocks
    BY <1>1, <1>4, Zenon DEF FreeFields, EnterRelease, Resumed
  <2>2. BlocksAreSound'
    BY <1>1, <2>1 DEF Inv, BlocksAreSound, HeadIsTight
  <2>3. Occupied' = Occupied /\ \A c : ArcOf(c)' = ArcOf(c)
    BY <1>1, <2>1 DEF Occupied, Present, ArcOf
  <2>. QED BY <1>3, <1>4, <2>1, <2>2, <2>3
<1>5. CASE x # None
  <2>1. EnterRelease(x, Resumed)
    BY <1>5, Zenon DEF FreeFields, Resumed
  <2>2. x \in Occupied /\ t \in Owners(x)
    BY <1>3, <1>5 DEF Inv, Refs, ReferencesAreLive, Owners
  <2>3. ArcOf(x) \in 1 .. ArcModulus - 1
    BY <2>2, ReferredIsCounted
  <2>4. /\ BlocksAreSound' /\ Counts(x, ArcOf(x) - 1)
        /\ stack' = IF ArcOf(x) > 1 THEN Resumed
                    ELSE Append(Resumed, [addr |-> x, at |-> "fields", stale |-> FALSE])
    BY <1>1, <2>1, <2>2, <2>3, ReleaseCounts DEF Inv
  <2>. QED BY <1>3, <1>5, <2>2, <2>3, <2>4
<1>. QED BY <1>4, <1>5

(* Freeing the fields gives up the reference the field owned, if any. *)
LEMMA FreeFieldsInv ==
  ASSUME Inv, FreeFields
  PROVE  Inv'
<1>0. PICK n, t, x : n = Len(stack) /\ t = Top.addr /\ x = value[t]
  OBVIOUS
<1>1. stack # <<>> /\ Top.at = "fields" /\ UNCHANGED <<count, value, held, lost>>
  BY DEF FreeFields
<1>2. RefsTyped /\ Occupied \subseteq Addr /\ None \notin Occupied
  BY OccupiedAt, DimaAssumption DEF Inv, Refs
<1>3. /\ n \in Nat \ {0} /\ n \in 1 .. n /\ DOMAIN stack = 1 .. n
      /\ Resumed \in Seq(Frame) /\ Len(Resumed) = n /\ DOMAIN Resumed = 1 .. n
      /\ \A k \in 1 .. n : Resumed[k].addr = stack[k].addr /\ Resumed[k].at = "slot"
  <2>1. /\ n \in Nat \ {0} /\ n \in 1 .. n /\ DOMAIN stack = 1 .. n
        /\ Resumed \in Seq(Frame) /\ Len(Resumed) = n /\ DOMAIN Resumed = 1 .. n
        /\ Resumed[n].at = "slot"
        /\ \A k \in 1 .. n : Resumed[k].addr = stack[k].addr
        /\ \A k \in 1 .. n : k < n => Resumed[k].at = stack[k].at
    BY <1>0, <1>1, <1>2, ResumedStack DEF RefsTyped
  <2>2. \A k \in 1 .. n : k # n => k < n
    BY <2>1
  <2>3. \A k \in 1 .. n : k # n => stack[k].at = "slot"
    BY <1>0, <2>1, <2>2 DEF Inv, Refs, CallersWait
  <2>. QED BY <2>1, <2>2, <2>3
<1>4. /\ t \in Occupied /\ ArcOf(t) = 0 /\ t = stack[n].addr /\ stack[n].at = "fields"
      /\ \A k \in 1 .. n : /\ stack[k].addr \in Occupied /\ ArcOf(stack[k].addr) = 0
                           /\ stack[k].addr = t <=> k = n
      /\ \A j, k \in 1 .. n : stack[j].addr = stack[k].addr => j = k
  BY <1>0, <1>1, <1>3 DEF Inv, Refs, ReleasedOnce, Top
<1>5. ~FieldsReleased(t)
  BY <1>0, FieldGivenUp
<1>6. /\ BlocksAreSound' /\ Occupied' = Occupied
      /\ \A c \in Occupied : ArcOf(c)' = IF c = x THEN ArcOf(c) - 1 ELSE ArcOf(c)
      /\ x # None => x \in Occupied /\ t \in Owners(x) /\ ArcOf(x) \in 1 .. ArcModulus - 1
      /\ stack' = IF x # None /\ ArcOf(x) = 1
                  THEN Append(Resumed, [addr |-> x, at |-> "fields", stale |-> FALSE])
                  ELSE Resumed
  BY <1>0, <1>2, FieldGivenUp DEF Counts
<1>7. /\ stack' \in Seq(Frame) /\ DOMAIN stack' = 1 .. Len(stack')
      /\ \A k \in 1 .. n : /\ k \in DOMAIN stack' /\ stack'[k].addr = stack[k].addr
                           /\ stack'[k].at = "slot"
      /\ \/ Len(stack') = n
         \/ /\ Len(stack') = n + 1 /\ stack'[n + 1].addr = x /\ stack'[n + 1].at = "fields"
            /\ x \in Occupied /\ ArcOf(x) = 1
  <2>1. CASE stack' = Resumed
    BY <1>3, <2>1
  <2>2. CASE x # None /\ ArcOf(x) = 1
    <3>. DEFINE f == [addr |-> x, at |-> "fields", stale |-> FALSE]
    <3>1. f \in Frame /\ f.addr = x /\ f.at = "fields" /\ stack' = Append(Resumed, f)
      BY <1>2, <1>6, <2>2 DEF Frame
    <3>. HIDE DEF f
    <3>2. /\ stack' \in Seq(Frame) /\ Len(stack') = n + 1 /\ stack'[n + 1] = f
          /\ \A k \in 1 .. n : stack'[k] = Resumed[k]
      BY <1>3, <3>1, AppendProperties
    <3>3. DOMAIN stack' = 1 .. Len(stack')
      BY <3>2, LenProperties
    <3>4. \A k \in 1 .. n : k \in 1 .. n + 1
      BY <1>3
    <3>. QED BY <1>3, <1>6, <2>2, <3>1, <3>2, <3>3, <3>4
  <2>. QED BY <1>6, <2>1, <2>2
<1>8. \A k \in DOMAIN stack' : \/ k \in 1 .. n
                               \/ /\ k = n + 1 /\ k = Len(stack') /\ stack'[k].addr = x
                                  /\ stack'[k].at = "fields" /\ x \in Occupied /\ ArcOf(x) = 1
  <2>1. \A k \in 1 .. n + 1 : k \in 1 .. n \/ k = n + 1
    BY <1>3
  <2>. QED BY <1>7, <2>1
<1>9. \A p : FieldsReleased(p)' <=> FieldsReleased(p) \/ p = t
  <2>1. \A p : FieldsReleased(p)' <=> \E k \in 1 .. n : stack[k].addr = p
    BY <1>7, <1>8 DEF FieldsReleased
  <2>2. \A k \in 1 .. n : k # n => stack[k].at = "slot"
    BY <1>0, <1>3 DEF Inv, Refs, CallersWait
  <2>3. \A p : FieldsReleased(p) <=> \E k \in 1 .. n : k # n /\ stack[k].addr = p
    BY <1>3, <1>4, <2>2 DEF FieldsReleased
  <2>. QED BY <1>3, <1>4, <2>1, <2>3
<1>10. \A c \in Occupied : Owners(c)' = Owners(c) \ {t}
  BY <1>1, <1>6, <1>9 DEF Owners
<1>11. ArcCountsReferences'
  <2>1. ASSUME NEW c \in Occupied
        PROVE  ArcOf(c)' = held'[c] + lost'[c] + Cardinality(Owners(c)')
    <3>1. /\ ArcOf(c) = held[c] + lost[c] + Cardinality(Owners(c))
          /\ held[c] \in Nat /\ lost[c] \in Nat
      BY <1>2 DEF Inv, Refs, ArcCountsReferences, RefsTyped
    <3>2. IsFiniteSet(Owners(c)) /\ Cardinality(Owners(c)) \in Nat
      BY OwnersFinite DEF Inv
    <3>3. t \in Owners(c) <=> c = x
      BY <1>0, <1>2, <1>4, <1>5, <1>6 DEF Owners
    <3>4. Cardinality(Owners(c)') = IF c = x THEN Cardinality(Owners(c)) - 1
                                    ELSE Cardinality(Owners(c))
      BY <1>10, <3>2, <3>3, FS_RemoveElement
    <3>. QED BY <1>1, <1>6, <3>1, <3>2, <3>4
  <2>. QED BY <1>6, <2>1 DEF ArcCountsReferences
<1>12. ReferencesAreLive' /\ FreeIsEmpty'
  BY <1>1, <1>6, <1>9 DEF Inv, Refs, ReferencesAreLive, FreeIsEmpty
<1>13. ReleasedOnce'
  <2>1. x \in Occupied /\ ArcOf(x) = 1 => \A k \in 1 .. n : stack[k].addr # x
    BY <1>4
  <2>2. ASSUME NEW k \in DOMAIN stack', NEW c, c = stack'[k].addr
        PROVE  c \in Occupied' /\ ArcOf(c)' = 0
    <3>1. CASE k \in 1 .. n
      <4>1. c = stack[k].addr /\ c \in Occupied /\ ArcOf(c) = 0
        BY <1>4, <1>7, <2>2, <3>1
      <4>2. c # x
        BY <1>2, <1>6, <4>1
      <4>. QED BY <1>6, <4>1, <4>2
    <3>2. CASE k \notin 1 .. n
      BY <1>6, <1>8, <2>2, <3>2
    <3>. QED BY <3>1, <3>2
  <2>3. ASSUME NEW j \in DOMAIN stack', NEW k \in DOMAIN stack',
               stack'[j].addr = stack'[k].addr
        PROVE  j = k
    BY <1>4, <1>7, <1>8, <2>1, <2>3
  <2>. QED BY <2>2, <2>3 DEF ReleasedOnce, ArcOf
<1>14. CallersWait' /\ RefsTyped'
  <2>1. \A k \in DOMAIN stack' : k < Len(stack') => stack'[k].at = "slot"
    BY <1>7, <1>8
  <2>. QED BY <1>1, <1>2, <1>7, <2>1 DEF CallersWait, RefsTyped
<1>. QED BY <1>6, <1>11, <1>12, <1>13, <1>14 DEF Inv, Refs

(* A head that moved changes no more of a call than what it knows of it. *)
LEMMA StaleFrame ==
  ASSUME NEW f \in Frame, NEW moved \in BOOLEAN
  PROVE  LET new == [f EXCEPT !.stale = @ \/ moved]
         IN  new \in Frame /\ new.addr = f.addr /\ new.at = f.at
BY DEF Frame

(* The innermost call returns, and the others wait where they did. *)
LEMMA ReturnedStack ==
  ASSUME stack \in Seq(Frame), stack # <<>>, ClearSlot \/ DropBlock \/ ShrinkHead
  PROVE  /\ Len(stack) - 1 \in Nat /\ stack' \in Seq(Frame)
         /\ DOMAIN stack = 1 .. Len(stack)
         /\ Len(stack') = Len(stack) - 1 /\ DOMAIN stack' = 1 .. Len(stack) - 1
         /\ \A k \in 1 .. Len(stack) - 1 : /\ stack'[k].addr = stack[k].addr
                                           /\ stack'[k].at = stack[k].at
<1>0. PICK n : n = Len(stack)
  OBVIOUS
<1>1. /\ n \in Nat \ {0} /\ DOMAIN stack = 1 .. n /\ n - 1 \in Nat
      /\ \A k \in 1 .. n : stack[k] \in Frame
  BY <1>0, EmptySeq, LenProperties, ElementOfSeq
<1>2. \A k \in 1 .. n - 1 : k \in 1 .. n
  BY <1>1
<1>3. CASE stack' = Callers
  <2>1. stack' = SubSeq(stack, 1, n - 1)
    BY <1>0, <1>3 DEF Callers
  <2>2. /\ stack' \in Seq(Frame) /\ Len(stack') = n - 1
        /\ \A k \in 1 .. n - 1 : stack'[k] = stack[k]
    <3>1. \A k \in 1 .. n - 1 : 1 + k - 1 = k
      BY <1>1
    <3>2. 1 \in 1 .. Len(stack) + 1 /\ n - 1 \in 0 .. Len(stack) /\ (n - 1) - 1 + 1 = n - 1
      BY <1>0, <1>1
    <3>3. /\ stack' \in Seq(Frame)
          /\ Len(stack') = IF 1 <= n - 1 THEN (n - 1) - 1 + 1 ELSE 0
          /\ \A k \in 1 .. (n - 1) - 1 + 1 : stack'[k] = stack[1 + k - 1]
      BY <2>1, <3>2, SubSeqProperties
    <3>. QED BY <1>1, <3>1, <3>2, <3>3
  <2>3. DOMAIN stack' = 1 .. n - 1
    BY <2>2, LenProperties
  <2>. QED BY <1>0, <1>1, <2>2, <2>3
<1>4. CASE ShrinkHead
  <2>1. PICK moved \in BOOLEAN :
          stack' = [k \in 1 .. n - 1 |-> [stack[k] EXCEPT !.stale = @ \/ moved]]
    BY <1>0, <1>4, Zenon DEF ShrinkHead
  <2>2. ASSUME NEW k \in 1 .. n - 1
        PROVE  /\ stack'[k] \in Frame
               /\ stack'[k].addr = stack[k].addr /\ stack'[k].at = stack[k].at
    <3>1. stack[k] \in Frame
      BY <1>1, <1>2
    <3>2. stack'[k] = [stack[k] EXCEPT !.stale = @ \/ moved]
      BY <2>1, Zenon
    <3>. QED BY <3>1, <3>2, StaleFrame
  <2>3. DOMAIN stack' = 1 .. n - 1 /\ stack' = [k \in 1 .. n - 1 |-> stack'[k]]
    BY <2>1, Zenon
  <2>4. stack' \in Seq(Frame) /\ Len(stack') = n - 1
    <3>1. stack' \in [1 .. n - 1 -> Frame]
      BY <2>2, <2>3, Zenon
    <3>. QED BY <1>1, <3>1, SeqDef, LenProperties
  <2>. QED BY <1>0, <1>1, <2>2, <2>3, <2>4
<1>. QED BY <1>3, <1>4 DEF ClearSlot, DropBlock

(* A slot is given back when nothing refers to it. *)
LEMMA FreeSlotInv ==
  ASSUME Inv, FreeSlot
  PROVE  Inv'
<1>0. PICK n, t : n = Len(stack) /\ t = Top.addr
  OBVIOUS
<1>1. /\ ClearSlot \/ DropBlock \/ ShrinkHead
      /\ value' = [value EXCEPT ![t] = None] /\ UNCHANGED <<held, lost>>
      /\ stack # <<>> /\ Top.at = "slot"
  BY <1>0 DEF FreeSlot, ClearSlot, DropBlock, ShrinkHead, AtSlot
<1>2. RefsTyped /\ Occupied \subseteq Addr /\ None \notin Occupied
  BY OccupiedAt, DimaAssumption DEF Inv, Refs
<1>3. /\ n - 1 \in Nat /\ n \in 1 .. n /\ DOMAIN stack = 1 .. n
      /\ stack' \in Seq(Frame) /\ Len(stack') = n - 1 /\ DOMAIN stack' = 1 .. n - 1
      /\ \A k \in 1 .. n - 1 : stack'[k].addr = stack[k].addr /\ stack'[k].at = stack[k].at
  <2>1. n \in Nat \ {0} /\ n \in 1 .. n
    BY <1>0, <1>1, <1>2, EmptySeq, LenProperties DEF RefsTyped
  <2>. QED BY <1>0, <1>1, <1>2, <2>1, ReturnedStack DEF RefsTyped
<1>4. \A k : k \in 1 .. n - 1 <=> k \in 1 .. n /\ k # n
  BY <1>3
<1>5. /\ t \in Occupied /\ ArcOf(t) = 0 /\ t = stack[n].addr /\ stack[n].at = "slot"
      /\ \A k \in 1 .. n : /\ stack[k].addr \in Occupied /\ ArcOf(stack[k].addr) = 0
                           /\ stack[k].addr = t <=> k = n
      /\ \A j, k \in 1 .. n : stack[j].addr = stack[k].addr => j = k
  BY <1>0, <1>1, <1>3 DEF Inv, Refs, ReleasedOnce, Top
<1>6. /\ BlocksAreSound' /\ Occupied' = Occupied \ {t}
      /\ \A c \in Occupied' : ArcOf(c)' = ArcOf(c)
  <2>1. BlocksAreSound' /\ Clears(Top.addr)
    BY <1>0, <1>1, <1>5, FreeSlotSound DEF Inv
  <2>. QED BY <1>0, <2>1 DEF Clears
<1>7. /\ value' \in [Addr -> Addr \cup {None}] /\ value'[t] = None
      /\ \A c \in Addr : c # t => value'[c] = value[c]
  BY <1>1, <1>2, <1>5 DEF RefsTyped
<1>8. FieldsReleased(t) /\ \A p : p # t => (FieldsReleased(p)' <=> FieldsReleased(p))
  <2>1. FieldsReleased(t)
    BY <1>3, <1>5 DEF FieldsReleased
  <2>2. \A p : p # t => (FieldsReleased(p) <=>
                          \E k \in 1 .. n - 1 : stack[k].addr = p /\ stack[k].at = "slot")
    BY <1>3, <1>4, <1>5 DEF FieldsReleased
  <2>3. \A p : FieldsReleased(p)' <=>
              \E k \in 1 .. n - 1 : stack[k].addr = p /\ stack[k].at = "slot"
    BY <1>3 DEF FieldsReleased
  <2>. QED BY <2>1, <2>2, <2>3
<1>9. held[t] = 0 /\ lost[t] = 0 /\ Owners(t) = {}
  <2>1. /\ held[t] \in Nat /\ lost[t] \in Nat /\ Cardinality(Owners(t)) \in Nat
        /\ 0 = held[t] + lost[t] + Cardinality(Owners(t))
        /\ Cardinality(Owners(t)) = 0 => Owners(t) = {}
    BY <1>2, <1>5, OwnersFinite DEF Inv, Refs, RefsTyped, ArcCountsReferences
  <2>. QED BY <2>1
<1>10. \A c \in Occupied' : Owners(c)' = Owners(c)
  BY <1>2, <1>6, <1>7, <1>8 DEF Owners
<1>11. ArcCountsReferences'
  BY <1>1, <1>6, <1>10 DEF Inv, Refs, ArcCountsReferences
<1>12. ReferencesAreLive'
  <2>1. ASSUME NEW c \in Addr, held'[c] + lost'[c] > 0
        PROVE  c \in Occupied'
    BY <1>1, <1>6, <1>9, <2>1 DEF Inv, Refs, ReferencesAreLive
  <2>2. ASSUME NEW p \in Occupied', value'[p] # None, ~FieldsReleased(p)'
        PROVE  value'[p] \in Occupied'
    <3>1. p \in Occupied /\ p # t /\ value'[p] = value[p] /\ ~FieldsReleased(p)
      BY <1>2, <1>6, <1>7, <1>8, <2>2
    <3>2. value[p] \in Occupied
      BY <2>2, <3>1 DEF Inv, Refs, ReferencesAreLive
    <3>3. value[p] # t
      BY <1>9, <3>1 DEF Owners
    <3>. QED BY <1>6, <3>1, <3>2, <3>3
  <2>. QED BY <2>1, <2>2 DEF ReferencesAreLive
<1>13. ReleasedOnce'
  <2>1. ASSUME NEW k \in DOMAIN stack', NEW c, c = stack'[k].addr
        PROVE  c \in Occupied' /\ ArcOf(c)' = 0
    <3>1. k \in 1 .. n /\ k # n /\ c = stack[k].addr
      BY <1>3, <1>4, <2>1
    <3>2. c \in Occupied /\ ArcOf(c) = 0 /\ c # t
      BY <1>5, <3>1
    <3>. QED BY <1>6, <3>2
  <2>2. \A j, k \in DOMAIN stack' : stack'[j].addr = stack'[k].addr => j = k
    BY <1>3, <1>4, <1>5
  <2>. QED BY <2>1, <2>2 DEF ReleasedOnce, ArcOf
<1>14. FreeIsEmpty'
  BY <1>6, <1>7 DEF Inv, Refs, FreeIsEmpty
<1>15. CallersWait' /\ RefsTyped'
  <2>1. \A k \in DOMAIN stack' : k < Len(stack') => stack'[k].at = "slot"
    <3>1. \A k \in 1 .. n - 1 : k \in 1 .. n /\ k < n
      BY <1>3
    <3>. QED BY <1>0, <1>3, <3>1 DEF Inv, Refs, CallersWait
  <2>. QED BY <1>1, <1>2, <1>3, <1>7, <2>1 DEF CallersWait, RefsTyped
<1>. QED BY <1>6, <1>11, <1>12, <1>13, <1>14, <1>15 DEF Inv, Refs

----------------------------------------
(* The theorems. *)

(* A program begins without blocks and without references. *)
LEMMA InitInv == Init => Inv
<1>. SUFFICES ASSUME Init
              PROVE  Inv
  OBVIOUS
<1>1. /\ count = 0 /\ blocks = [b \in {} |-> NULL] /\ value = [a \in Addr |-> None]
      /\ held = [a \in Addr |-> 0] /\ lost = [a \in Addr |-> 0] /\ stack = <<>>
  BY DEF Init
<1>2. BlocksAreSound
  <2>1. MaxBlocks \in Nat /\ 0 .. count - 1 = {} /\ DOMAIN blocks = {}
    BY <1>1, DimaAssumption
  <2>. QED BY <1>1, <2>1 DEF BlocksAreSound, HeadIsTight
<1>3. Occupied = {}
  <2>1. 0 .. count - 1 = {}
    BY <1>1
  <2>. QED BY <2>1 DEF Occupied, Present
<1>4. RefsTyped
  BY <1>1, EmptySeq DEF RefsTyped
<1>5. ArcCountsReferences /\ ReferencesAreLive /\ ReleasedOnce /\ FreeIsEmpty /\ CallersWait
  BY <1>1, <1>3 DEF ArcCountsReferences, ReferencesAreLive, ReleasedOnce, FreeIsEmpty, CallersWait
<1>. QED BY <1>2, <1>4, <1>5 DEF Inv, Refs

(* Each step of the program and of a release keeps the invariant. *)
LEMMA NextInv == Inv /\ [Next]_vars => Inv'
<1>. SUFFICES ASSUME Inv, [Next]_vars
              PROVE  Inv'
  OBVIOUS
<1>1. CASE Declare
  BY <1>1, DeclareInv
<1>2. ASSUME NEW a \in Addr, AssignField(a)
      PROVE  Inv'
  BY <1>2, AssignInv
<1>3. ASSUME NEW a \in Addr, PassArgument(a)
      PROVE  Inv'
  BY <1>3, PassInv
<1>4. ASSUME NEW a \in Addr, Drop(a)
      PROVE  Inv'
  BY <1>4, DropInv
<1>5. CASE FreeFields
  BY <1>5, FreeFieldsInv
<1>6. CASE FreeSlot
  BY <1>6, FreeSlotInv
<1>7. CASE UNCHANGED vars
  BY <1>7, SMTT(30) DEF vars, Inv, BlocksAreSound, HeadIsTight, Refs, RefsTyped, ArcCountsReferences,
      ReferencesAreLive, ReleasedOnce, FreeIsEmpty, CallersWait, Occupied, Present, ArcOf,
      Owners, FieldsReleased
<1>. QED BY <1>1, <1>2, <1>3, <1>4, <1>5, <1>6, <1>7 DEF Next, ReleaseStep

(* What the invariant says of the heap. *)
LEMMA InvIsSound == Inv => HeapIsSound
<1>. SUFFICES ASSUME Inv
              PROVE  HeapIsSound
  OBVIOUS
<1>1. BlocksAreSound /\ Refs
  BY DEF Inv
<1>2. \A b \in 0 .. count - 1 : blocks[b] # NULL =>
        b \in BlockIds /\ IsBlock(blocks[b], b) /\ blocks[b].used > 0
  BY <1>1, HeadIndices DEF BlocksAreSound
<1>3. TypeOK
  BY <1>1, <1>2 DEF TypeOK, BlocksAreSound, Refs, RefsTyped, IsBlock
<1>4. UsedCountsSlots
  BY <1>2 DEF UsedCountsSlots, Present, IsBlock
<1>5. SlotsKnowTheirBlock
  BY <1>1, OccupiedAt DEF SlotsKnowTheirBlock, IsBlock
<1>6. FreeSlotIsFound
  BY <1>2, RoomIsFound DEF FreeSlotIsFound, NotFull, Present
<1>. QED BY <1>1, <1>3, <1>4, <1>5, <1>6 DEF HeapIsSound, StorageIsSound, BlocksAreConsistent,
            BlocksAreSound, Refs

(* The blocks, counters and ids by which dima.allocate finds a slot and
   dima.release gives one back are right, and a value is counted by
   exactly what refers to it, stays as long as something does and is given
   back once, in the middle of nested releases too. *)
THEOREM HeapStaysSound == Spec => []HeapIsSound
<1>1. Spec => []Inv
  BY InitInv, NextInv, PTL DEF Spec
<1>. QED BY <1>1, InvIsSound, PTL

----------------------------------------
(* The promise of the allocator to the program. *)

(* Only the count of a changes in what RefHeap sees of the counts. *)
HeapRefs == [a \in Addr |-> IF a \in Occupied THEN ArcOf(a) ELSE 0]

(* Giving out a slot is an allocation, whatever it is stored into. *)
LEMMA OccupiesIsAllocate ==
  ASSUME NEW a \in Addr, Occupies(a), Occupied \subseteq Addr,
         value' = value \/ \E p \in Occupied : value' = [value EXCEPT ![p] = a]
  PROVE  Heap!Allocate(a)
<1>1. HeapRefs' = [HeapRefs EXCEPT ![a] = 1]
  BY DEF Occupies, HeapRefs
<1>. QED BY <1>1 DEF Heap!Allocate, HeapRefs, Occupies

(* A count that goes up is a retain, one that goes down is a release. *)
LEMMA CountsIsRetainOrRelease ==
  ASSUME NEW a \in Addr, Occupied \subseteq Addr, ArcOf(a) \in Nat, ArcOf(a) > 0, value' = value
  PROVE  /\ Counts(a, ArcOf(a) + 1) => Heap!Retain(a)
         /\ Counts(a, ArcOf(a) - 1) => Heap!Release(a)
<1>1. ASSUME NEW n, Counts(a, n)
      PROVE  /\ HeapRefs' = [HeapRefs EXCEPT ![a] = n] /\ HeapRefs[a] = ArcOf(a)
             /\ a \in Occupied /\ Occupied' = Occupied
  BY <1>1 DEF Counts, HeapRefs
<1>2. ASSUME Counts(a, ArcOf(a) + 1)
      PROVE  Heap!Retain(a)
  <2>1. PICK n : n = ArcOf(a) + 1
    OBVIOUS
  <2>2. Counts(a, n)
    BY <1>2, <2>1
  <2>. QED BY <1>1, <2>1, <2>2 DEF Heap!Retain, HeapRefs
<1>3. ASSUME Counts(a, ArcOf(a) - 1)
      PROVE  Heap!Release(a)
  <2>1. PICK n : n = ArcOf(a) - 1
    OBVIOUS
  <2>2. Counts(a, n)
    BY <1>3, <2>1
  <2>. QED BY <1>1, <2>1, <2>2 DEF Heap!Release, HeapRefs
<1>. QED BY <1>2, <1>3

(* A slot that is cleared at count 0 is reclaimed. *)
LEMMA ClearsIsReclaim ==
  ASSUME NEW a \in Addr, Occupied \subseteq Addr, Clears(a), ArcOf(a) = 0,
         value' = [value EXCEPT ![a] = None]
  PROVE  Heap!Reclaim(a)
<1>1. HeapRefs' = HeapRefs /\ HeapRefs[a] = 0
  BY DEF Clears, HeapRefs
<1>. QED BY <1>1 DEF Heap!Reclaim, HeapRefs, Clears

(* What RefHeap sees stays when the slots in use and their counts do. *)
LEMMA SameIsStutter ==
  ASSUME Occupied' = Occupied, \A c \in Occupied : ArcOf(c)' = ArcOf(c), value' = value
  PROVE  UNCHANGED Heap!heapVars
<1>1. HeapRefs' = HeapRefs
  BY DEF HeapRefs
<1>. QED BY <1>1 DEF Heap!heapVars, HeapRefs

(* Each step is a step that RefHeap allows, or none. *)
LEMMA StepOfHeap ==
  ASSUME Inv, [Next]_vars
  PROVE  [Heap!Next]_(Heap!heapVars)
<1>1. RefsTyped /\ Occupied \subseteq Addr
  BY OccupiedAt DEF Inv, Refs
<1>2. CASE Declare
  <2>1. PICK a \in Addr : Allocate(a) /\ value' = [value EXCEPT ![a] = None]
    BY <1>2 DEF Declare
  <2>2. Occupies(a)
    BY <2>1, AllocateSound DEF Inv
  <2>3. value' = value
    BY <1>1, <2>1, <2>2, FreeIsUnknown DEF Occupies, RefsTyped
  <2>. QED BY <1>1, <2>2, <2>3, OccupiesIsAllocate DEF Heap!Next
<1>3. ASSUME NEW p \in Addr, AssignField(p)
      PROVE  Heap!Next
  <2>1. PICK a \in Addr : /\ Allocate(a) /\ value' = [value EXCEPT ![a] = None, ![p] = a]
                          /\ held[p] > 0
    BY <1>3 DEF AssignField
  <2>2. Occupies(a)
    BY <2>1, AllocateSound DEF Inv
  <2>3. p \in Occupied
    BY <1>1, <2>1 DEF RefsTyped, Inv, Refs, ReferencesAreLive
  <2>4. value' = [value EXCEPT ![p] = a]
    BY <1>1, <2>1, <2>2, <2>3, FreeIsUnknown, ZenonT(60) DEF Occupies, RefsTyped
  <2>. QED BY <1>1, <2>2, <2>3, <2>4, OccupiesIsAllocate DEF Heap!Next
<1>4. ASSUME NEW a \in Addr, PassArgument(a)
      PROVE  Heap!Next
  <2>1. SetArc(a, Retained(a)) /\ UNCHANGED <<count, value>>
    BY <1>4 DEF PassArgument
  <2>2. /\ a \in Occupied /\ ArcOf(a) \in 1 .. ArcModulus - 1 /\ Retained(a) = ArcOf(a) + 1
        /\ ArcOf(a) + 1 \in 0 .. ArcModulus - 1
    BY <1>4, PassedIsCounted
  <2>3. Counts(a, ArcOf(a) + 1)
    BY <2>1, <2>2, SetArcSound DEF Inv
  <2>4. ArcOf(a) \in Nat /\ ArcOf(a) > 0
    BY <2>2
  <2>. QED BY <1>1, <2>1, <2>3, <2>4, CountsIsRetainOrRelease DEF Heap!Next
<1>5. ASSUME NEW a \in Addr, Drop(a)
      PROVE  Heap!Next
  <2>1. EnterRelease(a, <<>>) /\ UNCHANGED <<count, value>> /\ held[a] > 0
    BY <1>5 DEF Drop
  <2>2. a \in Occupied
    BY <1>1, <2>1 DEF RefsTyped, Inv, Refs, ReferencesAreLive
  <2>3. ArcOf(a) \in 1 .. ArcModulus - 1
    BY <2>1, <2>2, ReferredIsCounted
  <2>4. Counts(a, ArcOf(a) - 1)
    BY <2>1, <2>2, <2>3, ReleaseCounts DEF Inv
  <2>5. ArcOf(a) \in Nat /\ ArcOf(a) > 0
    BY <2>3
  <2>. QED BY <1>1, <2>1, <2>4, <2>5, CountsIsRetainOrRelease DEF Heap!Next
<1>6. CASE FreeFields
  <2>1. PICK t, x : t = Top.addr /\ x = value[t]
    OBVIOUS
  <2>2. value' = value
    BY <1>6 DEF FreeFields
  <2>3. CASE x = None
    <3>1. Occupied' = Occupied /\ \A c : ArcOf(c)' = ArcOf(c)
      BY <1>6, <2>1, <2>3, FieldGivenUp
    <3>. QED BY <2>2, <3>1, SameIsStutter
  <2>4. CASE x # None
    <3>1. x \in Occupied /\ ArcOf(x) \in 1 .. ArcModulus - 1 /\ Counts(x, ArcOf(x) - 1)
      BY <1>6, <2>1, <2>4, FieldGivenUp
    <3>2. ArcOf(x) \in Nat /\ ArcOf(x) > 0
      BY <3>1
    <3>. QED BY <1>1, <2>2, <3>1, <3>2, CountsIsRetainOrRelease DEF Heap!Next
  <2>. QED BY <2>3, <2>4
<1>7. CASE FreeSlot
  <2>1. PICK t : t = Top.addr
    OBVIOUS
  <2>2. /\ ClearSlot \/ DropBlock \/ ShrinkHead
        /\ value' = [value EXCEPT ![t] = None] /\ stack # <<>>
    BY <1>7, <2>1 DEF FreeSlot, ClearSlot, DropBlock, ShrinkHead, AtSlot
  <2>3. Len(stack) \in DOMAIN stack
    BY <1>1, <2>2, ResumedStack DEF RefsTyped
  <2>4. t \in Occupied /\ ArcOf(t) = 0
    BY <2>1, <2>3 DEF Inv, Refs, ReleasedOnce, Top
  <2>5. Clears(t)
    <3>1. Clears(Top.addr)
      BY <2>1, <2>2, <2>4, FreeSlotSound DEF Inv
    <3>. QED BY <2>1, <3>1 DEF Clears
  <2>. QED BY <1>1, <2>2, <2>4, <2>5, ClearsIsReclaim DEF Heap!Next
<1>8. CASE UNCHANGED vars
  <2>1. /\ Occupied' = Occupied /\ value' = value
        /\ \A c \in Occupied : ArcOf(c)' = ArcOf(c)
    BY <1>8 DEF vars, Occupied, Present, ArcOf
  <2>. QED BY <2>1, SameIsStutter
<1>. QED BY <1>2, <1>3, <1>4, <1>5, <1>6, <1>7, <1>8 DEF Next, ReleaseStep

(* DIMA keeps the promise of RefHeap: what it gives out stays with its
   owner and keeps its contents while it is referred to, and is taken back
   only without references, one value at a time. *)
THEOREM DimaIsAHeap == Spec => ImplementsHeap
<1>1. Init => Heap!Init
  <2>. SUFFICES ASSUME Init
                PROVE  Heap!Init
    OBVIOUS
  <2>1. count = 0 /\ value = [a \in Addr |-> None] /\ 0 .. count - 1 = {}
    BY DEF Init
  <2>2. Occupied = {}
    BY <2>1 DEF Occupied, Present
  <2>. QED BY <2>1, <2>2 DEF Heap!Init
<1>2. Inv /\ [Next]_vars => [Heap!Next]_(Heap!heapVars)
  BY StepOfHeap
<1>3. Spec => []Inv
  BY InitInv, NextInv, PTL DEF Spec
<1>. QED BY <1>1, <1>2, <1>3, PTL DEF Spec, ImplementsHeap, Heap!Spec

----------------------------------------
(* Division and remainder of integers. *)

(* A remainder is within 0 and the divisor. *)
LEMMA ModRange ==
  ASSUME NEW n \in Nat \ {0}, NEW x \in Int
  PROVE  x % n \in 0 .. (n - 1)
OBVIOUS

(* A number below the divisor is its own remainder. *)
LEMMA ModSmall ==
  ASSUME NEW n \in Nat \ {0}, NEW x \in 0 .. (n - 1)
  PROVE  x % n = x
OBVIOUS

(* The division of a number gives back the number. *)
LEMMA DivMod ==
  ASSUME NEW n \in Nat \ {0}, NEW x \in Int
  PROVE  x \div n \in Int /\ x = n * (x \div n) + (x % n)
OBVIOUS

(* A multiple of n that is not 0 is at least n away from it. *)
LEMMA MultipleGap ==
  ASSUME NEW n \in Nat \ {0}, NEW k \in Int, k # 0
  PROVE  n * k >= n \/ n * k <= -n
OBVIOUS

(* What reduction modulo n changes, it changes by n at least. *)
LEMMA ModGap ==
  ASSUME NEW n \in Nat \ {0}, NEW x \in Int, x % n # x
  PROVE  x - (x % n) >= n \/ x - (x % n) <= -n
<1>1. x \div n # 0
  BY DivMod
<1>2. x - (x % n) = n * (x \div n)
  BY DivMod, ModRange
<1>3. QED BY <1>1, <1>2, DivMod, MultipleGap

(* The division of a multiple is exact. *)
LEMMA DivExact ==
  ASSUME NEW n \in Nat \ {0}, NEW q \in Nat
  PROVE  (n * q) \div n = q
OBVIOUS

(* A factor fits below m if it is no greater than the quotient of m. *)
LEMMA DivBounds ==
  ASSUME NEW n \in Nat \ {0}, NEW m \in Nat, NEW r \in Nat
  PROVE  r > m \div n <=> n * r > m
<1>1. /\ m = n * (m \div n) + (m % n) /\ m % n \in 0 .. (n - 1)
      /\ m \div n \in Int
  BY DivMod, ModRange
<1>2. CASE r > m \div n
  <2>1. n * r >= n * (m \div n + 1)
    BY <1>1, <1>2
  <2>2. QED BY <2>1, <1>1, <1>2
<1>3. CASE r <= m \div n
  <2>1. n * r <= n * (m \div n)
    BY <1>1, <1>3
  <2>2. QED BY <2>1, <1>1, <1>3
<1>4. QED BY <1>1, <1>2, <1>3

(* The quotient of naturals is no greater than what is divided, and half
   of it at most unless the divisor is 1. *)
LEMMA DivSmaller ==
  ASSUME NEW m \in Nat, NEW n \in Nat \ {0}
  PROVE  /\ m \div n \in Nat /\ m \div n <= m
         /\ n > 1 => 2 * (m \div n) <= m
<1>1. /\ m = n * (m \div n) + (m % n) /\ m % n \in 0 .. (n - 1)
      /\ m \div n \in Int
  BY DivMod, ModRange
<1>2. m \div n >= 0
  OBVIOUS
<1>3. n * (m \div n) >= 1 * (m \div n)
  BY <1>1, <1>2
<1>4. n > 1 => n * (m \div n) >= 2 * (m \div n)
  BY <1>1, <1>2
<1>5. QED BY <1>1, <1>2, <1>3, <1>4

----------------------------------------
(* Integers of w bits. *)

(* The ranges, spelled out. *)
LEMMA Ranges ==
  /\ Half \in Nat /\ Half > 2
  /\ MinOf(TRUE) = -Half /\ MaxOf(TRUE) = Half - 1
  /\ MinOf(FALSE) = 0 /\ MaxOf(FALSE) = 2 * Half - 1
  /\ \A x : x \in Values(TRUE) <=> x \in Int /\ -Half <= x /\ x < Half
  /\ \A x : x \in Values(FALSE) <=> x \in Int /\ 0 <= x /\ x < 2 * Half
<1>1. Half \in Nat /\ Half > 2
  BY ArithmeticAssumption
<1>2. /\ MinOf(TRUE) = -Half /\ MaxOf(TRUE) = Half - 1
      /\ MinOf(FALSE) = 0 /\ MaxOf(FALSE) = 2 * Half - 1
  BY DEF MinOf, MaxOf
<1>3. \A x : x \in (-Half) .. (Half - 1) <=> x \in Int /\ -Half <= x /\ x < Half
  BY <1>1
<1>4. \A x : x \in 0 .. (2 * Half - 1) <=> x \in Int /\ 0 <= x /\ x < 2 * Half
  BY <1>1
<1>5. QED BY <1>1, <1>2, <1>3, <1>4 DEF Values

(* Reduction modulo 2h to the numbers around 0. *)
LEMMA SignedMod ==
  ASSUME NEW h \in Nat, h > 0, NEW x \in Int
  PROVE  LET w == ((x + h) % (2 * h)) - h
         IN /\ w \in Int /\ -h <= w /\ w < h
            /\ -h <= x /\ x < h => w = x
            /\ ~(-h <= x /\ x < h) => x - w >= 2 * h \/ x - w <= -(2 * h)
<1> DEFINE n == 2 * h
           y == x + h
<1>1. n \in Nat \ {0} /\ y \in Int
  OBVIOUS
<1>2. y % n \in 0 .. (n - 1)
  BY <1>1, ModRange
<1>3. y \in 0 .. (n - 1) => y % n = y
  BY <1>1, ModSmall
<1>4. y % n # y => y - (y % n) >= n \/ y - (y % n) <= -n
  BY <1>1, ModGap
<1> DEFINE r == y % n
<1>5. /\ r \in 0 .. (2 * h - 1)
      /\ x + h \in 0 .. (2 * h - 1) => r = x + h
      /\ r # x + h => (x + h) - r >= 2 * h \/ (x + h) - r <= -(2 * h)
  BY <1>2, <1>3, <1>4
<1> HIDE DEF r
<1>6. /\ r - h \in Int /\ -h <= r - h /\ r - h < h
      /\ -h <= x /\ x < h => r - h = x
      /\ ~(-h <= x /\ x < h) => x - (r - h) >= 2 * h \/ x - (r - h) <= -(2 * h)
  BY <1>5
<1>7. QED BY <1>6 DEF r

(* Reducing to w signed bits gives an integer of w bits, leaves those that
   are alone, and moves others by the whole range at least. *)
LEMMA WrappedSigned ==
  ASSUME NEW x \in Int
  PROVE  /\ Wrapped(TRUE, x) \in Int /\ -Half <= Wrapped(TRUE, x) /\ Wrapped(TRUE, x) < Half
         /\ -Half <= x /\ x < Half => Wrapped(TRUE, x) = x
         /\ ~(-Half <= x /\ x < Half) =>
              \/ x - Wrapped(TRUE, x) >= 2 * Half
              \/ x - Wrapped(TRUE, x) <= -(2 * Half)
<1>1. Half \in Nat /\ Half > 0
  BY Ranges
<1>2. Wrapped(TRUE, x) = ((x + Half) % (2 * Half)) - Half
  BY DEF Wrapped
<1>3. QED BY <1>1, <1>2, SignedMod, ZenonT(60)

(* The same for unsigned bits. *)
LEMMA WrappedUnsigned ==
  ASSUME NEW x \in Int
  PROVE  /\ Wrapped(FALSE, x) \in Int
         /\ 0 <= Wrapped(FALSE, x) /\ Wrapped(FALSE, x) < 2 * Half
         /\ 0 <= x /\ x < 2 * Half => Wrapped(FALSE, x) = x
         /\ ~(0 <= x /\ x < 2 * Half) =>
              \/ x - Wrapped(FALSE, x) >= 2 * Half
              \/ x - Wrapped(FALSE, x) <= -(2 * Half)
<1> DEFINE n == 2 * Half
<1>1. n \in Nat \ {0}
  BY Ranges
<1>2. Wrapped(FALSE, x) = x % n
  BY DEF Wrapped
<1> HIDE DEF n
<1>3. x % n \in 0 .. (n - 1)
  BY <1>1, ModRange
<1>4. x \in 0 .. (n - 1) => x % n = x
  BY <1>1, ModSmall
<1>5. x % n # x => x - (x % n) >= n \/ x - (x % n) <= -n
  BY <1>1, ModGap
<1>6. /\ x % n \in Int /\ 0 <= x % n /\ x % n < n
      /\ 0 <= x /\ x < n => x % n = x
      /\ ~(0 <= x /\ x < n) => x - (x % n) >= n \/ x - (x % n) <= -n
  BY <1>1, <1>3, <1>4, <1>5
<1>7. QED BY <1>2, <1>6 DEF n

(* The machine's division: its remainder is smaller than the divisor. *)
LEMMA QuotientRemainder ==
  ASSUME NEW x \in Int, NEW y \in Int, y # 0
  PROVE  /\ Quotient(x, y) \in Int
         /\ Abs(x - (y * Quotient(x, y))) < Abs(y)
         /\ Abs(x - (y * Quotient(x, y))) <= Abs(x)
         /\ (x >= 0 => x - (y * Quotient(x, y)) >= 0)
         /\ (x <= 0 => x - (y * Quotient(x, y)) <= 0)
<1> DEFINE q == Abs(x) \div Abs(y)
           m == Abs(x) % Abs(y)
<1>1. Abs(x) \in Nat /\ Abs(y) \in Nat /\ Abs(y) # 0
  BY DEF Abs
<1>2. /\ q \in Nat /\ m \in 0 .. (Abs(y) - 1)
      /\ Abs(x) = Abs(y) * q + m
  <2>1. q \in Nat
    BY <1>1, DivSmaller
  <2>2. m \in 0 .. (Abs(y) - 1)
    BY <1>1, ModRange
  <2>3. Abs(x) = Abs(y) * q + m
    BY <1>1, DivMod
  <2>4. QED BY <2>1, <2>2, <2>3
<1>3. Quotient(x, y) = IF (x < 0) = (y < 0) THEN q ELSE -q
  BY DEF Quotient
<1> HIDE DEF q, m
<1>4. y * q \in Int /\ y * (-q) = -(y * q) /\ (-y) * q = -(y * q)
  BY <1>2
<1>5. (x - (y * Quotient(x, y))) = IF x < 0 THEN -m ELSE m
  BY <1>2, <1>3, <1>4 DEF Abs
<1>6. Abs(x) >= m
  <2>1. Abs(y) * q >= 0
    BY <1>1, <1>2
  <2>2. QED BY <2>1, <1>1, <1>2
<1>7. QED BY <1>1, <1>2, <1>3, <1>5, <1>6 DEF Abs
----------------------------------------
(* The functions, lane by lane. *)

(* A lane of a function saturates: its test fires exactly when the exact
   result x does not fit, and what it returns is x, clamped. *)
Clamps(lane, signed, x) ==
  /\ lane.error <=> x \notin Values(signed)
  /\ Selected(lane) = Clamped(signed, x)

(* The same for a lane given by its parts, in terms of the bounds. *)
LEMMA ClampsSigned ==
  ASSUME NEW error \in BOOLEAN, NEW instead \in Int, NEW plain \in Int, NEW x \in Int,
         error <=> ~(-Half <= x /\ x < Half),
         x >= Half => instead = Half - 1,
         x < -Half => instead = -Half,
         ~error => plain = x
  PROVE  Clamps(Tested(error, instead, plain), TRUE, x)
<1> DEFINE lane == Tested(error, instead, plain)
           fits == -Half <= x /\ x < Half
           selected == IF error THEN instead ELSE plain
<1>1. lane.error = error /\ Selected(lane) = selected
  BY DEF Tested, Selected
<1>2. x \in Values(TRUE) <=> fits
  BY Ranges
<1>3. Clamped(TRUE, x) = IF x > Half - 1 THEN Half - 1 ELSE IF x < -Half THEN -Half ELSE x
  BY Ranges DEF Clamped
<1>4. Half \in Nat
  BY Ranges
<1>5. /\ x >= Half => ~fits
      /\ x < -Half => ~fits
      /\ x >= Half \/ x < -Half \/ fits
  BY <1>4
<1>6. fits => ~(x > Half - 1) /\ ~(x < -Half)
  BY <1>4
<1>7. /\ x >= Half => x > Half - 1
      /\ x < -Half => ~(x > Half - 1)
  BY <1>4
<1>8. error <=> ~fits
  OBVIOUS
<1> HIDE DEF fits
<1>9. selected = Clamped(TRUE, x)
  <2>1. CASE x >= Half
    BY <2>1, <1>3, <1>5, <1>7, <1>8, Zenon
  <2>2. CASE x < -Half
    BY <2>2, <1>3, <1>5, <1>7, <1>8, Zenon
  <2>3. CASE fits
    BY <2>3, <1>3, <1>6, <1>8, Zenon
  <2>4. QED BY <2>1, <2>2, <2>3, <1>5
<1> HIDE DEF lane, selected
<1>10. QED BY <1>1, <1>2, <1>8, <1>9, Zenon DEF Clamps, lane, fits

(* The same for unsigned integers. *)
LEMMA ClampsUnsigned ==
  ASSUME NEW error \in BOOLEAN, NEW instead \in Int, NEW plain \in Int, NEW x \in Int,
         error <=> ~(0 <= x /\ x < 2 * Half),
         x >= 2 * Half => instead = 2 * Half - 1,
         x < 0 => instead = 0,
         ~error => plain = x
  PROVE  Clamps(Tested(error, instead, plain), FALSE, x)
<1> DEFINE lane == Tested(error, instead, plain)
           fits == 0 <= x /\ x < 2 * Half
           selected == IF error THEN instead ELSE plain
<1>1. lane.error = error /\ Selected(lane) = selected
  BY DEF Tested, Selected
<1>2. x \in Values(FALSE) <=> fits
  BY Ranges
<1>3. Clamped(FALSE, x) = IF x > 2 * Half - 1 THEN 2 * Half - 1 ELSE IF x < 0 THEN 0 ELSE x
  BY Ranges DEF Clamped
<1>4. Half \in Nat
  BY Ranges
<1>5. /\ x >= 2 * Half => ~fits
      /\ x < 0 => ~fits
      /\ x >= 2 * Half \/ x < 0 \/ fits
  BY <1>4
<1>6. fits => ~(x > 2 * Half - 1) /\ ~(x < 0)
  BY <1>4
<1>7. /\ x >= 2 * Half => x > 2 * Half - 1
      /\ x < 0 => ~(x > 2 * Half - 1)
  BY <1>4
<1>8. error <=> ~fits
  OBVIOUS
<1> HIDE DEF fits
<1>9. selected = Clamped(FALSE, x)
  <2>1. CASE x >= 2 * Half
    BY <2>1, <1>3, <1>5, <1>7, <1>8, Zenon
  <2>2. CASE x < 0
    BY <2>2, <1>3, <1>5, <1>7, <1>8, Zenon
  <2>3. CASE fits
    BY <2>3, <1>3, <1>6, <1>8, Zenon
  <2>4. QED BY <2>1, <2>2, <2>3, <1>5
<1> HIDE DEF lane, selected
<1>10. QED BY <1>1, <1>2, <1>8, <1>9, Zenon DEF Clamps, lane, fits

(* Bounds of the arguments. *)
LEMMA SignedBounds ==
  ASSUME NEW x \in Values(TRUE)
  PROVE  x \in Int /\ -Half <= x /\ x < Half
BY Ranges

(* The ends of the unsigned integers. *)
LEMMA UnsignedBounds ==
  ASSUME NEW x \in Values(FALSE)
  PROVE  x \in Int /\ 0 <= x /\ x < 2 * Half
BY Ranges

(* int_safe_add tells an overflow by the signs. *)
LEMMA SignedSum ==
  ASSUME NEW l \in Values(TRUE), NEW r \in Values(TRUE)
  PROVE  Clamps(int_safe_add(l, r), TRUE, l + r)
<1> DEFINE x == l + r
           add == Wrapped(TRUE, x)
           pos == l >= 0 /\ r >= 0 /\ add < 0
           neg == l < 0 /\ r < 0 /\ add >= 0
           instead == IF neg THEN -Half ELSE Half - 1
<1>1. /\ Half \in Nat /\ Half > 2
      /\ l \in Int /\ -Half <= l /\ l < Half
      /\ r \in Int /\ -Half <= r /\ r < Half
  BY Ranges, SignedBounds
<1>2. int_safe_add(l, r) = Tested(pos \/ neg, instead, add)
  BY Ranges DEF int_safe_add
<1>3. x \in Int /\ x = l + r
  BY <1>1
<1> HIDE DEF x
<1>4. /\ add \in Int /\ -Half <= add /\ add < Half
      /\ -Half <= x /\ x < Half => add = x
      /\ ~(-Half <= x /\ x < Half) => x - add >= 2 * Half \/ x - add <= -(2 * Half)
  BY <1>3, WrappedSigned
<1> HIDE DEF add
<1>5. (pos \/ neg) <=> ~(-Half <= x /\ x < Half)
  BY <1>1, <1>3, <1>4
<1>6. /\ x >= Half => ~neg
      /\ x < -Half => neg
  BY <1>1, <1>3, <1>4
<1>7. /\ x >= Half => instead = Half - 1
      /\ x < -Half => instead = -Half
      /\ instead \in Int /\ (pos \/ neg) \in BOOLEAN
  BY <1>1, <1>6
<1> HIDE DEF pos, neg, instead
<1>8. Clamps(Tested(pos \/ neg, instead, add), TRUE, x)
  BY <1>3, <1>4, <1>5, <1>7, ClampsSigned
<1>9. QED BY <1>2, <1>8 DEF x

(* int_safe_sub as well. *)
LEMMA SignedDifference ==
  ASSUME NEW l \in Values(TRUE), NEW r \in Values(TRUE)
  PROVE  Clamps(int_safe_sub(l, r), TRUE, l - r)
<1> DEFINE x == l - r
           sub == Wrapped(TRUE, x)
           pos == l >= 0 /\ r < 0 /\ sub < 0
           neg == l < 0 /\ r >= 0 /\ sub >= 0
           instead == IF neg THEN -Half ELSE Half - 1
<1>1. /\ Half \in Nat /\ Half > 2
      /\ l \in Int /\ -Half <= l /\ l < Half
      /\ r \in Int /\ -Half <= r /\ r < Half
  BY Ranges, SignedBounds
<1>2. int_safe_sub(l, r) = Tested(pos \/ neg, instead, sub)
  BY Ranges DEF int_safe_sub
<1>3. x \in Int /\ x = l - r
  BY <1>1
<1> HIDE DEF x
<1>4. /\ sub \in Int /\ -Half <= sub /\ sub < Half
      /\ -Half <= x /\ x < Half => sub = x
      /\ ~(-Half <= x /\ x < Half) => x - sub >= 2 * Half \/ x - sub <= -(2 * Half)
  BY <1>3, WrappedSigned
<1> HIDE DEF sub
<1>5. (pos \/ neg) <=> ~(-Half <= x /\ x < Half)
  BY <1>1, <1>3, <1>4
<1>6. /\ x >= Half => ~neg
      /\ x < -Half => neg
  BY <1>1, <1>3, <1>4
<1>7. /\ x >= Half => instead = Half - 1
      /\ x < -Half => instead = -Half
      /\ instead \in Int /\ (pos \/ neg) \in BOOLEAN
  BY <1>1, <1>6
<1> HIDE DEF pos, neg, instead
<1>8. Clamps(Tested(pos \/ neg, instead, sub), TRUE, x)
  BY <1>3, <1>4, <1>5, <1>7, ClampsSigned
<1>9. QED BY <1>2, <1>8 DEF x

(* The scalar test looks at the room that is left, the vector test at what
   the sum has become: both find what does not fit. *)
LEMMA UnsignedSum ==
  ASSUME NEW l \in Values(FALSE), NEW r \in Values(FALSE)
  PROVE  /\ Clamps(uint_safe_add(l, r), FALSE, l + r)
         /\ Clamps(uint_vector_safe_add(l, r), FALSE, l + r)
<1> DEFINE x == l + r
           add == Wrapped(FALSE, x)
           room == r > (2 * Half - 1) - l
           less == add < l
<1>1. /\ Half \in Nat /\ Half > 2
      /\ l \in Int /\ 0 <= l /\ l < 2 * Half
      /\ r \in Int /\ 0 <= r /\ r < 2 * Half
  BY Ranges, UnsignedBounds
<1>2. /\ uint_safe_add(l, r) = Tested(room, 2 * Half - 1, add)
      /\ uint_vector_safe_add(l, r) = Tested(less, 2 * Half - 1, add)
  BY Ranges DEF uint_safe_add, uint_vector_safe_add
<1>3. x \in Int /\ x = l + r /\ (x < 0 => 2 * Half - 1 = 0)
  BY <1>1
<1> HIDE DEF x
<1>4. /\ add \in Int /\ 0 <= add /\ add < 2 * Half
      /\ 0 <= x /\ x < 2 * Half => add = x
      /\ ~(0 <= x /\ x < 2 * Half) => x - add >= 2 * Half \/ x - add <= -(2 * Half)
  BY <1>3, WrappedUnsigned
<1> HIDE DEF add
<1>5. /\ room <=> ~(0 <= x /\ x < 2 * Half)
      /\ less <=> ~(0 <= x /\ x < 2 * Half)
  BY <1>1, <1>3, <1>4
<1>6. room \in BOOLEAN /\ less \in BOOLEAN /\ 2 * Half - 1 \in Int
  BY <1>1
<1> HIDE DEF room, less
<1>7. Clamps(Tested(room, 2 * Half - 1, add), FALSE, x)
  BY <1>3, <1>4, <1>5, <1>6, ClampsUnsigned
<1>8. Clamps(Tested(less, 2 * Half - 1, add), FALSE, x)
  BY <1>3, <1>4, <1>5, <1>6, ClampsUnsigned
<1>9. QED BY <1>2, <1>7, <1>8 DEF x

(* uint_safe_sub compares its operands. *)
LEMMA UnsignedDifference ==
  ASSUME NEW l \in Values(FALSE), NEW r \in Values(FALSE)
  PROVE  Clamps(uint_safe_sub(l, r), FALSE, l - r)
<1> DEFINE x == l - r
           sub == Wrapped(FALSE, x)
           below == ~(l >= r)
<1>1. /\ Half \in Nat /\ Half > 2
      /\ l \in Int /\ 0 <= l /\ l < 2 * Half
      /\ r \in Int /\ 0 <= r /\ r < 2 * Half
  BY Ranges, UnsignedBounds
<1>2. uint_safe_sub(l, r) = Tested(below, 0, sub)
  BY Ranges DEF uint_safe_sub
<1>3. x \in Int /\ x = l - r /\ (x >= 2 * Half => 0 = 2 * Half - 1)
  BY <1>1
<1> HIDE DEF x
<1>4. /\ sub \in Int /\ 0 <= sub /\ sub < 2 * Half
      /\ 0 <= x /\ x < 2 * Half => sub = x
      /\ ~(0 <= x /\ x < 2 * Half) => x - sub >= 2 * Half \/ x - sub <= -(2 * Half)
  BY <1>3, WrappedUnsigned
<1> HIDE DEF sub
<1>5. /\ below <=> ~(0 <= x /\ x < 2 * Half)
  BY <1>1, <1>3, <1>4
<1>6. below \in BOOLEAN /\ 2 * Half - 1 \in Int
  BY <1>1
<1> HIDE DEF below
<1>7. Clamps(Tested(below, 0, sub), FALSE, x)
  <2>1. ~below => sub = x
    BY <1>4, <1>5
  <2>2. 0 \in Int /\ (x < 0 => 0 = 0)
    OBVIOUS
  <2>3. QED BY <1>3, <1>4, <1>5, <1>6, <2>1, <2>2, ClampsUnsigned, Zenon
<1>8. QED BY <1>2, <1>7 DEF x

----------------------------------------
(* Products. *)

(* The product of integers that are not 0 is no smaller than a factor. *)
LEMMA ProductGap ==
  ASSUME NEW y \in Int, NEW k \in Int, y # 0, k # 0
  PROVE  Abs(y * k) >= Abs(y)
<1>1. CASE y > 0
  <2>1. y * k >= y \/ y * k <= -y
    BY <1>1, MultipleGap
  <2>2. QED BY <1>1, <2>1 DEF Abs
<1>2. CASE y < 0
  <2> DEFINE z == -y
  <2>1. z \in Nat \ {0}
    BY <1>2
  <2>2. z * k >= z \/ z * k <= -z
    BY <2>1, MultipleGap
  <2>3. y * k = -(z * k)
    OBVIOUS
  <2>4. QED BY <1>2, <2>2, <2>3 DEF Abs
<1>3. QED BY <1>1, <1>2

(* Dividing a product by one factor, or what it was wrapped to, gives the
   other factor exactly if the product was not wrapped. *)
LEMMA QuotientTellsProduct ==
  ASSUME NEW l \in Int, NEW r \in Int, NEW p \in Int, l # 0,
         NEW gap \in Nat, Abs(l) <= gap,
         p # l * r => (l * r) - p >= gap \/ (l * r) - p <= -gap
  PROVE  Quotient(p, l) = r <=> p = l * r
<1> DEFINE q == Quotient(p, l)
<1>1. q \in Int /\ Abs(p - (l * q)) < Abs(l)
  BY QuotientRemainder
<1> HIDE DEF q
<1>2. ASSUME q = r, p # l * r
      PROVE  FALSE
  <2> DEFINE x == l * r
  <2>1. x \in Int /\ Abs(p - x) < Abs(l) /\ (x - p >= gap \/ x - p <= -gap)
    BY <1>1, <1>2
  <2> HIDE DEF x
  <2>2. Abs(l) \in Int
    BY DEF Abs
  <2>3. QED BY <2>1, <2>2 DEF Abs
<1>3. ASSUME q # r, p = l * r
      PROVE  FALSE
  <2> DEFINE k == r - q
  <2>1. k \in Int /\ k # 0
    BY <1>1, <1>3
  <2>2. p - (l * q) = l * k
    BY <1>1, <1>3
  <2> HIDE DEF k
  <2>3. Abs(l * k) >= Abs(l) /\ Abs(l * k) < Abs(l)
    BY <1>1, <2>1, <2>2, ProductGap
  <2>4. Abs(l) \in Int /\ Abs(l * k) \in Int
    BY <2>1 DEF Abs
  <2>5. QED BY <2>3, <2>4
<1>4. QED BY <1>2, <1>3 DEF q

(* The sign of a product. *)
LEMMA ProductSign ==
  ASSUME NEW l \in Int, NEW r \in Int, l # 0, r # 0
  PROVE  (l < 0) = (r < 0) <=> l * r > 0
<1>1. CASE l > 0 /\ r > 0
  BY <1>1
<1>2. CASE l > 0 /\ r < 0
  <2>1. l * r <= -l
    BY <1>2, MultipleGap
  <2>2. QED BY <1>2, <2>1
<1>3. CASE l < 0 /\ r > 0
  <2>1. r * l <= -r
    BY <1>3
  <2>2. QED BY <1>3, <2>1
<1>4. CASE l < 0 /\ r < 0
  BY <1>4
<1>5. QED BY <1>1, <1>2, <1>3, <1>4

(* int_safe_mul_small, with the product in 64 bits before it. *)
LEMMA SmallProduct ==
  ASSUME NEW l \in Values(TRUE), NEW r \in Values(TRUE)
  PROVE  Clamps(int_safe_mul_small(l, r), TRUE, l * r)
<1> DEFINE x == l * r
           error == x > Half - 1 \/ x < -Half
           instead == IF x > Half - 1 THEN Half - 1 ELSE -Half
<1>1. int_safe_mul_small(l, r) = Tested(error, instead, x)
  BY Ranges DEF int_safe_mul_small
<1>2. Half \in Nat /\ Half > 2 /\ x \in Int
  <2>1. Half \in Nat /\ Half > 2 /\ l \in Int /\ r \in Int
    BY Ranges, SignedBounds
  <2>2. QED BY <2>1
<1> HIDE DEF x
<1>3. /\ error <=> ~(-Half <= x /\ x < Half)
      /\ x >= Half => instead = Half - 1
      /\ x < -Half => instead = -Half
      /\ instead \in Int /\ error \in BOOLEAN
  BY <1>2
<1> HIDE DEF error, instead
<1>4. Clamps(Tested(error, instead, x), TRUE, x)
  BY <1>2, <1>3, ClampsSigned
<1>5. QED BY <1>1, <1>4 DEF x

(* uint_safe_mul compares a factor with the quotient of the largest value. *)
LEMMA UnsignedProduct ==
  ASSUME NEW l \in Values(FALSE), NEW r \in Values(FALSE)
  PROVE  Clamps(uint_safe_mul(l, r), FALSE, l * r)
<1> DEFINE x == l * r
           product == Wrapped(FALSE, x)
           max == 2 * Half - 1
           safe_lhs == IF l = 0 THEN 1 ELSE l
           error == l # 0 /\ r # 0 /\ r > max \div safe_lhs
<1>1. uint_safe_mul(l, r) = Tested(error, max, product)
  BY Ranges DEF uint_safe_mul
<1>2. /\ Half \in Nat /\ Half > 2
      /\ l \in Int /\ 0 <= l /\ l < 2 * Half
      /\ r \in Int /\ 0 <= r /\ r < 2 * Half
  BY Ranges, UnsignedBounds
<1>3. x \in Int /\ x >= 0 /\ max \in Nat /\ max = 2 * Half - 1
  BY <1>2
<1>4. error <=> x > max
  <2> HIDE DEF max
  <2>1. CASE l = 0 \/ r = 0
    BY <2>1, <1>2, <1>3
  <2>2. CASE l # 0 /\ r # 0
    BY <2>2, <1>2, <1>3, DivBounds
  <2>3. QED BY <2>1, <2>2
<1> HIDE DEF x, error
<1>5. /\ product \in Int
      /\ 0 <= x /\ x < 2 * Half => product = x
  BY <1>3, WrappedUnsigned
<1>6. error \in BOOLEAN
  BY DEF error
<1> HIDE DEF product, max
<1>7. /\ error <=> ~(0 <= x /\ x < 2 * Half)
      /\ x >= 2 * Half => max = 2 * Half - 1
      /\ x < 0 => max = 0
      /\ max \in Int
  BY <1>2, <1>3, <1>4
<1>8. ~error => product = x
  BY <1>5, <1>7
<1>9. Clamps(Tested(error, max, product), FALSE, x)
  BY <1>3, <1>5, <1>6, <1>7, <1>8, ClampsUnsigned
<1>10. QED BY <1>1, <1>9 DEF x

(* int_safe_mul: a factor 0, 1 or -1 needs no test but that of -1 times
   the smallest integer, which is not reported; for all others the product
   is divided again. *)
LEMMA WideProduct ==
  ASSUME NEW l \in Values(TRUE), NEW r \in Values(TRUE), {l, r} # {-1, -Half}
  PROVE  Clamps(int_safe_mul(l, r), TRUE, l * r)
<1> DEFINE x == l * r
           product == Wrapped(TRUE, x)
           error == Quotient(product, l) # r
           instead == IF (l < 0) = (r < 0) THEN Half - 1 ELSE -Half
<1>1. /\ Half \in Nat /\ Half > 2
      /\ l \in Int /\ -Half <= l /\ l < Half
      /\ r \in Int /\ -Half <= r /\ r < Half
  BY Ranges, SignedBounds
<1>2. x \in Int
  BY <1>1
<1>3. /\ product \in Int /\ -Half <= product /\ product < Half
      /\ -Half <= x /\ x < Half => product = x
      /\ ~(-Half <= x /\ x < Half) =>
           x - product >= 2 * Half \/ x - product <= -(2 * Half)
  <2> HIDE DEF x
  <2>1. QED BY <1>2, WrappedSigned
<1>4. ASSUME -Half <= x, x < Half, NEW y, y = x
      PROVE  Clamps(Plain(y), TRUE, x)
  <2>1. Plain(y) = Tested(FALSE, x, x)
    BY <1>4 DEF Plain
  <2> HIDE DEF x
  <2>2. ~(x >= Half) /\ ~(x < -Half)
    BY <1>1, <1>2, <1>4
  <2>3. Clamps(Tested(FALSE, x, x), TRUE, x)
    BY <1>2, <1>4, <2>2, ClampsSigned, Zenon
  <2>4. QED BY <2>1, <2>3
<1>5. CASE l = 0 \/ r = 0
  <2>1. int_safe_mul(l, r) = Plain(0)
    BY <1>5 DEF int_safe_mul
  <2>2. x = 0
    BY <1>1, <1>5
  <2>3. -Half <= 0 /\ 0 < Half
    BY <1>1
  <2>4. QED BY <1>4, <2>1, <2>2, <2>3
<1>6. CASE l # 0 /\ r # 0 /\ (l \in {1, -1} \/ r \in {1, -1})
  <2>1. {l, r} # {-1, MinOf(TRUE)}
    BY Ranges
  <2>2. int_safe_mul(l, r) = Plain(product)
    BY <1>6, <2>1 DEF int_safe_mul
  <2>3. /\ ~(l = -1 /\ r = -Half)
        /\ ~(l = -Half /\ r = -1)
    BY <1>1
  <2>4. -Half <= x /\ x < Half
    <3>1. CASE l = 1
      BY <1>1, <3>1
    <3>2. CASE r = 1
      BY <1>1, <3>2
    <3>3. CASE l = -1
      BY <1>1, <2>3, <3>3
    <3>4. CASE r = -1
      BY <1>1, <2>3, <3>4
    <3>5. QED BY <1>6, <3>1, <3>2, <3>3, <3>4
  <2>5. QED BY <1>3, <1>4, <2>2, <2>4
<1>7. CASE ~(l = 0 \/ r = 0) /\ ~(l \in {1, -1} \/ r \in {1, -1})
  <2>1. int_safe_mul(l, r) = Tested(error, instead, product)
    BY <1>7, Ranges DEF int_safe_mul
  <2>2. error <=> product # x
    <3>1. 2 * Half \in Nat /\ Abs(l) <= 2 * Half /\ l # 0
      BY <1>1, <1>7 DEF Abs
    <3>2. product # x => x - product >= 2 * Half \/ x - product <= -(2 * Half)
      <4> HIDE DEF x, product
      <4>1. QED BY <1>2, <1>3
    <3> HIDE DEF product
    <3>3. QED BY <1>1, <1>3, <3>1, <3>2, QuotientTellsProduct
  <2>3. (l < 0) = (r < 0) <=> x > 0
    BY <1>1, <1>7, ProductSign
  <2>4. instead = IF x > 0 THEN Half - 1 ELSE -Half
    BY <2>3
  <2> HIDE DEF x, product, error, instead
  <2>5. error <=> ~(-Half <= x /\ x < Half)
    BY <1>1, <1>2, <1>3, <2>2
  <2>6. /\ x >= Half => instead = Half - 1
        /\ x < -Half => instead = -Half
        /\ instead \in Int
    BY <1>1, <1>2, <2>4
  <2>7. error \in BOOLEAN
    BY DEF error
  <2>8. ~error => product = x
    BY <2>2
  <2>9. Clamps(Tested(error, instead, product), TRUE, x)
    BY <1>2, <1>3, <2>5, <2>6, <2>7, <2>8, ClampsSigned
  <2>10. QED BY <2>1, <2>9 DEF x
<1>8. QED BY <1>5, <1>6, <1>7

(* A lane saturates or not by its test, its substitute and its result. *)
LEMMA SameLane ==
  ASSUME NEW lane, NEW other, NEW signed, NEW x, Clamps(other, signed, x),
         lane.error = other.error, lane.instead = other.instead, lane.plain = other.plain
  PROVE  Clamps(lane, signed, x)
BY Zenon DEF Clamps, Selected

(* uint_vector_safe_mul divides again, where the divisor is not 0. *)
LEMMA UnsignedVectorProduct ==
  ASSUME NEW l \in Values(FALSE), NEW r \in Values(FALSE)
  PROVE  Clamps(uint_vector_safe_mul(l, r), FALSE, l * r)
<1> DEFINE x == l * r
           product == Wrapped(FALSE, x)
           max == 2 * Half - 1
           error == r # 0 /\ product \div r # l
<1>1. /\ uint_vector_safe_mul(l, r).error = error
      /\ uint_vector_safe_mul(l, r).instead = max
      /\ uint_vector_safe_mul(l, r).plain = product
  BY Ranges DEF uint_vector_safe_mul
<1>2. /\ Half \in Nat /\ Half > 2
      /\ l \in Int /\ 0 <= l /\ l < 2 * Half
      /\ r \in Int /\ 0 <= r /\ r < 2 * Half
  BY Ranges, UnsignedBounds
<1>3. x \in Int /\ x >= 0
  BY <1>2
<1>4. /\ product \in Int /\ 0 <= product /\ product < 2 * Half
      /\ 0 <= x /\ x < 2 * Half => product = x
      /\ ~(0 <= x /\ x < 2 * Half) =>
           x - product >= 2 * Half \/ x - product <= -(2 * Half)
  <2> HIDE DEF x
  <2>1. QED BY <1>3, WrappedUnsigned
<1> HIDE DEF product
<1>5. error <=> ~(0 <= x /\ x < 2 * Half)
  <2>1. CASE r = 0
    BY <1>2, <2>1
  <2>2. CASE r # 0 /\ 0 <= x /\ x < 2 * Half
    <3>1. product = r * l
      BY <1>2, <1>4, <2>2
    <3>2. product \div r = l
      BY <1>2, <2>2, <3>1, DivExact
    <3>3. QED BY <2>2, <3>2
  <2>3. CASE r # 0 /\ ~(0 <= x /\ x < 2 * Half)
    <3>1. ASSUME product \div r = l
          PROVE  FALSE
      <4>1. product = r * (product \div r) + (product % r) /\ product % r \in 0 .. (r - 1)
        BY <1>2, <1>4, <2>3, DivMod, ModRange
      <4>2. r * l = x
        BY <1>2
      <4>3. product = x + (product % r)
        BY <3>1, <4>1, <4>2
      <4> HIDE DEF x
      <4>4. QED BY <1>2, <1>3, <1>4, <2>3, <4>1, <4>3
    <3>2. QED BY <2>3, <3>1
  <2>4. QED BY <2>1, <2>2, <2>3
<1>6. error \in BOOLEAN
  OBVIOUS
<1> HIDE DEF x, error, max
<1>7. /\ x >= 2 * Half => max = 2 * Half - 1
      /\ x < 0 => max = 0
      /\ max \in Int
  BY <1>2, <1>3 DEF max
<1>8. ~error => product = x
  BY <1>4, <1>5
<1>9. Clamps(Tested(error, max, product), FALSE, x)
  BY <1>3, <1>4, <1>5, <1>6, <1>7, <1>8, ClampsUnsigned
<1> DEFINE lane == uint_vector_safe_mul(l, r)
           other == Tested(error, max, product)
<1>10. other.error = error /\ other.instead = max /\ other.plain = product
  BY DEF Tested
<1>11. lane.error = other.error /\ lane.instead = other.instead /\ lane.plain = other.plain
  BY <1>1, <1>10
<1> HIDE DEF lane, other
<1>12. Clamps(lane, FALSE, x)
  BY <1>9, <1>11, SameLane DEF other
<1>13. QED BY <1>12 DEF lane, x

----------------------------------------
(* Calls. *)

(* The exact result of a sum, a difference or a product. *)
ExactLane(f, l, r) == IF f.op = "add" THEN l + r ELSE IF f.op = "sub" THEN l - r ELSE l * r
Exact == [i \in LanesOf(fn) |-> ExactLane(fn, lhs[i], rhs[i])]

IsSignedVectorProduct(f) == f.op = "mul" /\ f.signed /\ f.shape = "vector"

(* The functions whose test is exact. *)
LEMMA LaneClamps ==
  ASSUME NEW f \in Functions, f.op \in {"add", "sub", "mul"}, ~IsSignedVectorProduct(f),
         NEW l \in Values(f.signed), NEW r \in Values(f.signed),
         ~(f.op = "mul" /\ f.signed /\ f.shape = "wide" /\ {l, r} = {-1, -Half})
  PROVE  Clamps(Lane(f, l, r), f.signed, ExactLane(f, l, r))
<1>1. f.signed \in BOOLEAN /\ f.shape \in {"small", "wide", "vector"}
  BY DEF Functions
<1>2. CASE f.op = "add" /\ f.signed
  <2>1. Lane(f, l, r) = int_safe_add(l, r)
    BY <1>2 DEF Lane, VectorLane, ScalarLane, int_vector_safe_add
  <2>2. ExactLane(f, l, r) = l + r /\ f.signed = TRUE
    BY <1>1, <1>2 DEF ExactLane
  <2>3. QED BY <2>1, <2>2, SignedSum
<1>3. CASE f.op = "sub" /\ f.signed
  <2>1. Lane(f, l, r) = int_safe_sub(l, r)
    BY <1>3 DEF Lane, VectorLane, ScalarLane, int_vector_safe_sub
  <2>2. ExactLane(f, l, r) = l - r /\ f.signed = TRUE
    BY <1>1, <1>3 DEF ExactLane
  <2>3. QED BY <2>1, <2>2, SignedDifference
<1>4. CASE f.op = "add" /\ ~f.signed
  <2>1. Lane(f, l, r) = IF f.shape = "vector" THEN uint_vector_safe_add(l, r)
                                              ELSE uint_safe_add(l, r)
    BY <1>4 DEF Lane, VectorLane, ScalarLane
  <2>2. ExactLane(f, l, r) = l + r /\ f.signed = FALSE
    BY <1>1, <1>4 DEF ExactLane
  <2>3. QED BY <2>1, <2>2, UnsignedSum
<1>5. CASE f.op = "sub" /\ ~f.signed
  <2>1. Lane(f, l, r) = uint_safe_sub(l, r)
    BY <1>5 DEF Lane, VectorLane, ScalarLane, uint_vector_safe_sub
  <2>2. ExactLane(f, l, r) = l - r /\ f.signed = FALSE
    BY <1>1, <1>5 DEF ExactLane
  <2>3. QED BY <2>1, <2>2, UnsignedDifference
<1>6. CASE f.op = "mul" /\ f.signed
  <2>1. f.shape \in {"small", "wide"}
    BY <1>1, <1>6 DEF IsSignedVectorProduct
  <2>2. Lane(f, l, r) = IF f.shape = "small" THEN int_safe_mul_small(l, r)
                                             ELSE int_safe_mul(l, r)
    BY <1>6, <2>1 DEF Lane, ScalarLane, ScalarProduct
  <2>3. ExactLane(f, l, r) = l * r /\ f.signed = TRUE
    BY <1>1, <1>6 DEF ExactLane
  <2>4. QED BY <1>6, <2>1, <2>2, <2>3, SmallProduct, WideProduct
<1>7. CASE f.op = "mul" /\ ~f.signed
  <2>1. Lane(f, l, r) = IF f.shape = "vector" THEN uint_vector_safe_mul(l, r)
                                              ELSE uint_safe_mul(l, r)
    BY <1>7 DEF Lane, VectorLane, ScalarLane, ScalarProduct
  <2>2. ExactLane(f, l, r) = l * r /\ f.signed = FALSE
    BY <1>1, <1>7 DEF ExactLane
  <2>3. QED BY <2>1, <2>2, UnsignedVectorProduct, UnsignedProduct
<1>8. QED BY <1>1, <1>2, <1>3, <1>4, <1>5, <1>6, <1>7

(* Sums and differences execute nothing that is undefined. *)
LEMMA SumsAreDefined ==
  ASSUME NEW f \in Functions, f.op \in {"add", "sub"}, NEW l, NEW r
  PROVE  Lane(f, l, r).undefined = FALSE
<1>1. /\ int_safe_add(l, r).undefined = FALSE
      /\ int_safe_sub(l, r).undefined = FALSE
      /\ uint_safe_add(l, r).undefined = FALSE
      /\ uint_safe_sub(l, r).undefined = FALSE
      /\ uint_vector_safe_add(l, r).undefined = FALSE
  BY DEF int_safe_add, int_safe_sub, uint_safe_add, uint_safe_sub, uint_vector_safe_add, Tested
<1>2. Lane(f, l, r) \in {int_safe_add(l, r), int_safe_sub(l, r), uint_safe_add(l, r),
                         uint_safe_sub(l, r), uint_vector_safe_add(l, r)}
  BY DEF Lane, VectorLane, ScalarLane, int_vector_safe_add, int_vector_safe_sub,
         uint_vector_safe_sub
<1>3. QED BY <1>1, <1>2

(* What a call has from its beginning: the function and its arguments. *)
CallIsTyped ==
  /\ fn \in Functions
  /\ \A i \in LanesOf(fn) : lhs[i] \in Values(fn.signed) /\ rhs[i] \in Values(fn.signed)

(* The frame of the functions carries what holds of each lane over to the
   call. *)
LEMMA FrameSaturates ==
  ASSUME Compute,
         \A i \in LanesOf(fn) :
           Clamps(Lane(fn, lhs[i], rhs[i]), fn.signed, ExactLane(fn, lhs[i], rhs[i]))
  PROVE  Saturates(Exact)'
<1> DEFINE lane == [i \in LanesOf(fn) |-> Lane(fn, lhs[i], rhs[i])]
           any_error == \E i \in LanesOf(fn) : lane[i].error
           overflow == \E i \in LanesOf(fn) : Exact[i] \notin Values(fn.signed)
           selected == [i \in LanesOf(fn) |-> Selected(lane[i])]
           clamped == [i \in LanesOf(fn) |-> Clamped(fn.signed, Exact[i])]
<1>1. /\ printed' = Reports(any_error)
      /\ IF Stops(any_error) THEN at' = "aborted"
                             ELSE returned' = selected /\ at' = "returned"
  BY DEF Compute, Return
<1>2. overflow_mode' = overflow_mode /\ fn' = fn /\ lhs' = lhs /\ rhs' = rhs
  BY DEF Compute, call
<1>3. \A i \in LanesOf(fn) : /\ lane[i].error <=> Exact[i] \notin Values(fn.signed)
                             /\ Selected(lane[i]) = Clamped(fn.signed, Exact[i])
  BY DEF Clamps, Exact
<1>4. any_error <=> overflow
  BY <1>3
<1>5. selected = clamped
  BY <1>3
<1> HIDE DEF any_error, overflow, selected, clamped
<1>6. /\ printed' = Reports(overflow)
      /\ at' = "aborted" <=> Stops(overflow)
      /\ at' = "returned" => returned' = clamped
  BY <1>1, <1>4, <1>5 DEF Reports, Stops
<1>7. /\ Exact' = Exact /\ Reports(overflow)' = Reports(overflow)
      /\ Stops(overflow)' = Stops(overflow)
  BY <1>2 DEF Exact, Reports, Stops, overflow
<1>8. QED BY <1>2, <1>6, <1>7 DEF Saturates, Reports, Stops, overflow, clamped

----------------------------------------
(* The theorems. *)

NoSignedVectorProducts == \A f \in Forms : ~IsSignedVectorProduct(f)

(* Only the power function is ever in its loop. *)
LoopIsPower == at \in {"loop", "square"} => fn.op = "pow"

(* What is inductive about sums; products need in addition that the one
   function whose test is wrong is not among those that are called. *)
SumInvariant == CallIsTyped /\ LoopIsPower /\ SumsAreClamped
ProductInvariant == CallIsTyped /\ LoopIsPower /\ ProductsAreClamped /\ ~IsSignedVectorProduct(fn)

(* The arguments are integers of the function's type. *)
LEMMA InitTypes ==
  ASSUME ArithmeticInit
  PROVE  CallIsTyped /\ LoopIsPower /\ fn \in Forms
<1>1. fn \in Forms /\ fn \in Functions
  BY ArithmeticAssumption DEF ArithmeticInit, Emitted
<1>2. \A i \in LanesOf(fn) : lhs[i] \in Values(fn.signed) /\ rhs[i] \in Values(fn.signed)
  BY DEF ArithmeticInit, Arguments
<1>3. QED BY <1>1, <1>2 DEF CallIsTyped, LoopIsPower, ArithmeticInit

(* No step changes the call, and only the power function enters its loop. *)
LEMMA NextTypes ==
  ASSUME CallIsTyped, LoopIsPower, [ArithmeticNext]_arithmetic_vars
  PROVE  CallIsTyped' /\ LoopIsPower' /\ fn' = fn /\ lhs' = lhs /\ rhs' = rhs
<1>1. call' = call
  BY DEF ArithmeticNext, arithmetic_vars, Compute, Trap, Enter, LoopEven, LoopUneven, Square, PowerReturns, Ended
<1>2. overflow_mode' = overflow_mode /\ fn' = fn /\ lhs' = lhs /\ rhs' = rhs
  BY <1>1 DEF call
<1>3. LoopIsPower'
  <2>1. CASE Compute
    BY <2>1, <1>2 DEF Compute, Return, LoopIsPower
  <2>2. CASE Trap
    BY <2>2 DEF Trap, LoopIsPower
  <2>3. CASE Enter \/ LoopEven \/ LoopUneven \/ Square
    BY <2>3, <1>2 DEF Enter, LoopEven, LoopUneven, Square, LoopIsPower
  <2>4. CASE PowerReturns
    BY <2>4 DEF PowerReturns, Return, LoopIsPower
  <2>5. CASE Ended \/ UNCHANGED arithmetic_vars
    BY <2>5 DEF Ended, arithmetic_vars, LoopIsPower, call
  <2>6. QED BY <2>1, <2>2, <2>3, <2>4, <2>5 DEF ArithmeticNext
<1>4. QED BY <1>2, <1>3 DEF CallIsTyped

(* What was said of an ended call stays true. *)
LEMMA EndedKeeps ==
  ASSUME UNCHANGED arithmetic_vars
  PROVE  /\ SumsAreClamped => SumsAreClamped'
         /\ ProductsAreClamped => ProductsAreClamped'
<1>1. /\ overflow_mode' = overflow_mode /\ fn' = fn /\ lhs' = lhs /\ rhs' = rhs
      /\ at' = at /\ returned' = returned /\ printed' = printed
  BY DEF arithmetic_vars, call
<1>2. QED
  BY <1>1 DEF SumsAreClamped, ProductsAreClamped, Unreported, Saturates, Stops, Reports

(* In every behaviour, for integers of every width and vectors of every
   length, a sum or a difference that was computed is exact or clamped,
   and it is reported, or the program stopped, exactly if it does not fit. *)
THEOREM SumsSaturate == ArithmeticSpec => []SumsAreClamped
<1>1. ASSUME ArithmeticInit
      PROVE  SumInvariant
  BY <1>1, InitTypes DEF SumInvariant, SumsAreClamped, ArithmeticInit
<1>2. ASSUME SumInvariant, [ArithmeticNext]_arithmetic_vars
      PROVE  SumInvariant'
  <2>1. /\ CallIsTyped /\ LoopIsPower /\ SumsAreClamped
        /\ CallIsTyped' /\ LoopIsPower' /\ fn' = fn /\ lhs' = lhs /\ rhs' = rhs
    BY <1>2, NextTypes DEF SumInvariant
  <2>2. CASE Compute
    <3>1. CASE fn.op \in {"add", "sub"}
      <4>1. \A i \in LanesOf(fn) :
              Clamps(Lane(fn, lhs[i], rhs[i]), fn.signed, ExactLane(fn, lhs[i], rhs[i]))
        BY <2>1, <3>1, LaneClamps DEF CallIsTyped, IsSignedVectorProduct
      <4>2. Saturates(Exact)'
        BY <2>2, <4>1, FrameSaturates
      <4>3. ASSUME fn.op = "add"
            PROVE  SumsAreClamped'
        <5>1. Exact' = [i \in LanesOf(fn) |-> lhs[i] + rhs[i]]'
          BY <2>1, <4>3 DEF Exact, ExactLane
        <5>2. QED BY <2>1, <4>2, <4>3, <5>1 DEF SumsAreClamped
      <4>4. ASSUME fn.op = "sub"
            PROVE  SumsAreClamped'
        <5>1. Exact' = [i \in LanesOf(fn) |-> lhs[i] - rhs[i]]'
          BY <2>1, <4>4 DEF Exact, ExactLane
        <5>2. QED BY <2>1, <4>2, <4>4, <5>1 DEF SumsAreClamped
      <4>5. SumsAreClamped'
        BY <3>1, <4>3, <4>4
      <4>6. QED BY <2>1, <4>5 DEF SumInvariant
    <3>2. CASE fn.op \notin {"add", "sub"}
      BY <2>1, <3>2 DEF SumInvariant, SumsAreClamped
    <3>3. QED BY <3>1, <3>2
  <2>3. CASE Trap
    <3>1. fn.op \notin {"add", "sub"}
      BY <2>1, <2>3, SumsAreDefined DEF Trap, CallIsTyped
    <3>2. QED BY <2>1, <3>1 DEF SumInvariant, SumsAreClamped
  <2>4. CASE Enter \/ LoopEven \/ LoopUneven \/ Square \/ PowerReturns
    <3>1. fn.op = "pow"
      BY <2>1, <2>4 DEF Enter, LoopEven, LoopUneven, Square, PowerReturns, LoopIsPower
    <3>2. QED BY <2>1, <3>1 DEF SumInvariant, SumsAreClamped
  <2>5. CASE Ended \/ UNCHANGED arithmetic_vars
    BY <2>1, <2>5, EndedKeeps DEF SumInvariant, Ended
  <2>6. QED BY <1>2, <2>2, <2>3, <2>4, <2>5 DEF ArithmeticNext
<1>3. SumInvariant => SumsAreClamped
  BY DEF SumInvariant
<1>4. QED BY <1>1, <1>2, <1>3, PTL DEF ArithmeticSpec

(* The same for products, with each of the four tests that the functions
   use, unless signed vectors are multiplied: the division that finds the
   products of 64 bits that do not fit finds all of them, whatever the
   product was wrapped to. *)
THEOREM ResultsSaturate ==
  ASSUME NoSignedVectorProducts
  PROVE  ArithmeticSpec => []ResultsAreClamped
<1>1. ASSUME ArithmeticInit
      PROVE  ProductInvariant
  BY <1>1, InitTypes DEF ProductInvariant, ProductsAreClamped, ArithmeticInit, NoSignedVectorProducts
<1>2. ASSUME ProductInvariant, [ArithmeticNext]_arithmetic_vars
      PROVE  ProductInvariant'
  <2>1. /\ CallIsTyped /\ LoopIsPower /\ ProductsAreClamped
        /\ CallIsTyped' /\ LoopIsPower' /\ fn' = fn /\ lhs' = lhs /\ rhs' = rhs
        /\ ~IsSignedVectorProduct(fn)
    BY <1>2, NextTypes DEF ProductInvariant
  <2>2. IsSignedVectorProduct(fn)' <=> IsSignedVectorProduct(fn)
    BY <2>1 DEF IsSignedVectorProduct
  <2>3. ASSUME ProductsAreClamped'
        PROVE  ProductInvariant'
    BY <2>1, <2>2, <2>3 DEF ProductInvariant
  <2>4. CASE Compute
    <3>1. CASE fn.op = "mul" /\ ~Unreported
      <4>1. ASSUME NEW i \in LanesOf(fn), fn.signed, fn.shape = "wide"
            PROVE  {lhs[i], rhs[i]} # {-1, -Half}
        BY <3>1, <4>1 DEF Unreported, LanesOf
      <4>2. \A i \in LanesOf(fn) :
              Clamps(Lane(fn, lhs[i], rhs[i]), fn.signed, ExactLane(fn, lhs[i], rhs[i]))
        BY <2>1, <3>1, <4>1, LaneClamps DEF CallIsTyped
      <4>3. Saturates(Exact)'
        BY <2>4, <4>2, FrameSaturates
      <4>4. Exact' = [i \in LanesOf(fn) |-> lhs[i] * rhs[i]]'
        BY <2>1, <3>1 DEF Exact, ExactLane
      <4>5. ProductsAreClamped'
        BY <4>3, <4>4 DEF ProductsAreClamped
      <4>6. QED BY <2>3, <4>5
    <3>2. CASE ~(fn.op = "mul" /\ ~Unreported)
      <4>1. Unreported' <=> Unreported
        BY <2>1 DEF Unreported
      <4>2. ProductsAreClamped'
        BY <2>1, <3>2, <4>1 DEF ProductsAreClamped
      <4>3. QED BY <2>3, <4>2
    <3>3. QED BY <3>1, <3>2
  <2>5. CASE Trap
    BY <2>3, <2>5 DEF Trap, ProductsAreClamped
  <2>6. CASE Enter \/ LoopEven \/ LoopUneven \/ Square \/ PowerReturns
    <3>1. fn.op = "pow"
      BY <2>1, <2>6 DEF Enter, LoopEven, LoopUneven, Square, PowerReturns, LoopIsPower
    <3>2. QED BY <2>1, <2>3, <3>1 DEF ProductsAreClamped
  <2>7. CASE Ended \/ UNCHANGED arithmetic_vars
    BY <2>1, <2>3, <2>7, EndedKeeps DEF Ended
  <2>8. QED BY <1>2, <2>4, <2>5, <2>6, <2>7 DEF ArithmeticNext
<1>3. ProductInvariant => ProductsAreClamped
  BY DEF ProductInvariant
<1>4. ArithmeticSpec => []ProductsAreClamped
  BY <1>1, <1>2, <1>3, PTL DEF ArithmeticSpec
<1>5. SumsAreClamped /\ ProductsAreClamped => ResultsAreClamped
  BY DEF ResultsAreClamped
<1>6. QED BY <1>4, <1>5, SumsSaturate, PTL

----------------------------------------
(* Powers. *)

(* The exact powers of b. *)
Powers(b) == CHOOSE g : IsIteration(g, Int, 1, [x \in Int |-> b * x])
Pow(b, n) == Powers(b)[n]

(* Each is b times the one before. *)
LEMMA PowStep ==
  ASSUME NEW b \in Int
  PROVE  /\ Pow(b, 0) = 1
         /\ \A n \in Nat : Pow(b, n) \in Int /\ Pow(b, n + 1) = b * Pow(b, n)
<1> DEFINE step == [x \in Int |-> b * x]
           N == Int
<1>1. step \in [Int -> Int]
  OBVIOUS
<1>2. \A x \in Int : step[x] = b * x
  OBVIOUS
<1> HIDE DEF step
<1>3. \E g : IsIteration(g, Int, 1, step)
  <2>1. 1 \in N /\ step \in [N -> N]
    BY <1>1
  <2> HIDE DEF N
  <2>2. \E g : IsIteration(g, N, 1, step)
    BY <2>1, Iteration
  <2>3. QED BY <2>2 DEF N
<1>4. IsIteration(Powers(b), Int, 1, step)
  BY <1>3 DEF Powers, step
<1>5. QED BY <1>2, <1>4 DEF IsIteration, Pow

(* Squaring the base halves the exponent. *)
LEMMA PowSquare ==
  ASSUME NEW b \in Int, NEW k \in Nat
  PROVE  Pow(b, 2 * k) = Pow(b * b, k)
<1> DEFINE T == {n \in Nat : Pow(b, 2 * n) = Pow(b * b, n)}
<1>1. 0 \in T
  BY PowStep
<1>2. ASSUME NEW n \in Nat, n \in T
      PROVE  n + 1 \in T
  <2> DEFINE p == Pow(b, 2 * n)
  <2>1. 2 * n \in Nat /\ 2 * n + 1 \in Nat /\ b * b \in Int /\ 2 * (n + 1) = (2 * n + 1) + 1
    OBVIOUS
  <2>2. p \in Int /\ Pow(b, 2 * n + 1) = b * p
    BY <2>1, PowStep
  <2>3. Pow(b, 2 * (n + 1)) = b * (b * p)
    BY <2>1, <2>2, PowStep
  <2>4. Pow(b * b, n + 1) = (b * b) * p
    BY <1>2, <2>1, PowStep
  <2> HIDE DEF p
  <2>5. b * (b * p) = (b * b) * p
    BY <2>2
  <2>6. QED BY <2>3, <2>4, <2>5
<1> HIDE DEF T
<1>3. Nat \subseteq T
  BY <1>1, <1>2, SetInduction
<1>4. QED BY <1>3 DEF T

(* A factor of 1 or more keeps a product as far from 0. *)
LEMMA FactorKeeps ==
  ASSUME NEW x \in Int, NEW p \in Int, p >= 1
  PROVE  /\ x * p \in Int
         /\ x >= 0 => x * p >= x
         /\ x <= 0 => x * p <= x
<1>1. CASE x > 0
  BY <1>1, MultipleGap
<1>2. CASE x = 0
  BY <1>2
<1>3. CASE x < 0
  <2> DEFINE z == -x
  <2>1. z \in Nat \ {0} /\ p # 0
    BY <1>3
  <2>2. z * p >= z \/ z * p <= -z
    BY <2>1, MultipleGap
  <2>3. QED BY <1>3, <2>2
<1>4. QED BY <1>1, <1>2, <1>3

(* The powers of a positive base do not fall below it. *)
LEMMA PowPositive ==
  ASSUME NEW b \in Int, b >= 1
  PROVE  \A n \in Nat : Pow(b, n) >= 1 /\ (n > 0 => Pow(b, n) >= b)
<1> DEFINE T == {n \in Nat : Pow(b, n) >= 1 /\ (n > 0 => Pow(b, n) >= b)}
<1>1. 0 \in T
  BY PowStep
<1>2. ASSUME NEW n \in Nat, n \in T
      PROVE  n + 1 \in T
  <2>1. Pow(b, n) \in Int /\ Pow(b, n) >= 1 /\ Pow(b, n + 1) = b * Pow(b, n)
    BY <1>2, PowStep
  <2>2. Pow(b, n + 1) >= b
    BY <2>1, FactorKeeps
  <2>3. Pow(b, n + 1) \in Int /\ n + 1 \in Nat
    BY PowStep
  <2>4. QED BY <2>2, <2>3
<1> HIDE DEF T
<1>3. Nat \subseteq T
  BY <1>1, <1>2, SetInduction
<1>4. QED BY <1>3 DEF T

(* Power is Pow, kept within twice the range. *)
KeptNear(x) == IF x > 2 * Half THEN 2 * Half ELSE IF x < -2 * Half THEN -2 * Half ELSE x

(* Keeping a power there before it is multiplied makes no difference. *)
LEMMA KeptFactor ==
  ASSUME NEW b \in Int, NEW x \in Int
  PROVE  KeptNear(b * KeptNear(x)) = KeptNear(b * x)
<1> DEFINE H == 2 * Half
<1>1. H \in Nat /\ H > 4 /\ -2 * Half = -H
  BY Ranges
<1> HIDE DEF H
<1>2. \A y : KeptNear(y) = IF y > H THEN H ELSE IF y < -H THEN -H ELSE y
  BY <1>1 DEF KeptNear, H
<1>3. CASE -H <= x /\ x <= H
  BY <1>1, <1>2, <1>3
<1>4. CASE x > H
  <2>1. KeptNear(x) = H
    BY <1>1, <1>2, <1>4
  <2>2. CASE b >= 1
    <3>1. H * b >= H /\ x * b >= x
      BY <1>1, <1>4, <2>2, FactorKeeps
    <3>2. b * H >= H /\ b * x > H /\ b * H \in Int /\ b * x \in Int
      BY <1>1, <1>4, <3>1
    <3>3. KeptNear(b * H) = H /\ KeptNear(b * x) = H
      BY <1>1, <1>2, <3>2
    <3>4. QED BY <2>1, <3>3
  <2>3. CASE b = 0
    BY <1>1, <2>1, <2>3
  <2>4. CASE b <= -1
    <3>1. H * (-b) >= H /\ x * (-b) >= x
      BY <1>1, <1>4, <2>4, FactorKeeps
    <3>2. b * H <= -H /\ b * x < -H /\ b * H \in Int /\ b * x \in Int
      BY <1>1, <1>4, <3>1
    <3>3. KeptNear(b * H) = -H /\ KeptNear(b * x) = -H
      BY <1>1, <1>2, <3>2
    <3>4. QED BY <2>1, <3>3
  <2>5. QED BY <2>2, <2>3, <2>4
<1>5. CASE x < -H
  <2>1. KeptNear(x) = -H
    BY <1>1, <1>2, <1>5
  <2>2. CASE b >= 1
    <3>1. H * b >= H /\ x * b <= x
      BY <1>1, <1>5, <2>2, FactorKeeps
    <3>2. b * (-H) <= -H /\ b * x < -H /\ b * (-H) \in Int /\ b * x \in Int
      BY <1>1, <1>5, <3>1
    <3>3. KeptNear(b * (-H)) = -H /\ KeptNear(b * x) = -H
      BY <1>1, <1>2, <3>2
    <3>4. QED BY <2>1, <3>3
  <2>3. CASE b = 0
    BY <1>1, <2>1, <2>3
  <2>4. CASE b <= -1
    <3>1. H * (-b) >= H /\ x * (-b) <= x
      BY <1>1, <1>5, <2>4, FactorKeeps
    <3>2. b * (-H) >= H /\ b * x > H /\ b * (-H) \in Int /\ b * x \in Int
      BY <1>1, <1>5, <3>1
    <3>3. KeptNear(b * (-H)) = H /\ KeptNear(b * x) = H
      BY <1>1, <1>2, <3>2
    <3>4. QED BY <2>1, <3>3
  <2>5. QED BY <2>2, <2>3, <2>4
<1>6. QED BY <1>1, <1>3, <1>4, <1>5

(* So the recursive definition of Power computes it. *)
LEMMA PowerIsKept ==
  ASSUME NEW b \in Int, NEW e \in Nat
  PROVE  Power(b, e) = KeptNear(Pow(b, e))
<1> DEFINE Kept(x) == IF x > 2 * Half THEN 2 * Half ELSE IF x < -2 * Half THEN -2 * Half ELSE x
           power[n \in 0 .. e] == IF n = 0 THEN 1 ELSE Kept(b * power[n - 1])
           kept == [n \in 0 .. e |-> KeptNear(Pow(b, n))]
           T == {n \in Nat : n \in 0 .. e => power[n] = kept[n]}
<1>0. Half \in Nat /\ Half > 2
  BY Ranges
<1>1. kept = [n \in 0 .. e |-> IF n = 0 THEN 1 ELSE KeptNear(b * kept[n - 1])]
  <2>1. ASSUME NEW n \in 0 .. e
        PROVE  kept[n] = IF n = 0 THEN 1 ELSE KeptNear(b * kept[n - 1])
    <3>1. CASE n = 0
      <4>1. Pow(b, 0) = 1
        BY PowStep
      <4>2. KeptNear(1) = 1
        BY <1>0 DEF KeptNear
      <4>3. QED BY <3>1, <4>1, <4>2
    <3>2. CASE n # 0
      <4>1. n - 1 \in 0 .. e /\ n - 1 \in Nat /\ (n - 1) + 1 = n
        BY <3>2
      <4>2. Pow(b, n) = b * Pow(b, n - 1) /\ Pow(b, n - 1) \in Int
        BY <4>1, PowStep
      <4>3. KeptNear(b * kept[n - 1]) = KeptNear(Pow(b, n))
        BY <4>1, <4>2, KeptFactor
      <4>4. QED BY <3>2, <4>3
    <3>3. QED BY <3>1, <3>2
  <2>2. QED BY <2>1
<1>2. \A x : Kept(x) = KeptNear(x)
  BY DEF KeptNear
<1>3. power = [n \in 0 .. e |-> IF n = 0 THEN 1 ELSE Kept(b * power[n - 1])]
  <2>1. kept = [n \in 0 .. e |-> IF n = 0 THEN 1 ELSE Kept(b * kept[n - 1])]
    BY <1>1, <1>2
  <2> HIDE DEF kept, Kept
  <2>2. QED BY <2>1
<1> HIDE DEF power
<1>4. 0 \in T
  <2>1. power[0] = 1
    BY <1>3
  <2>2. kept[0] = 1
    <3>1. 0 \in 0 .. e
      OBVIOUS
    <3>2. QED BY <1>1, <3>1
  <2>3. QED BY <2>1, <2>2
<1>5. ASSUME NEW n \in Nat, n \in T
      PROVE  n + 1 \in T
  <2>1. CASE n + 1 \in 0 .. e
    <3>1. n \in 0 .. e /\ (n + 1) - 1 = n /\ n + 1 # 0
      BY <2>1
    <3>2. power[n] = kept[n]
      BY <1>5, <3>1
    <3>3. power[n + 1] = Kept(b * power[n])
      BY <1>3, <2>1, <3>1
    <3>4. kept[n + 1] = KeptNear(b * kept[n])
      BY <1>1, <2>1, <3>1
    <3>5. QED BY <1>2, <2>1, <3>2, <3>3, <3>4
  <2>2. QED BY <2>1
<1>6. Nat \subseteq T
  <2> HIDE DEF T
  <2>1. QED BY <1>4, <1>5, SetInduction
<1>7. power[e] = kept[e]
  <2>1. e \in T
    <3> HIDE DEF T
    <3>1. QED BY <1>6
  <2>2. e \in 0 .. e
    OBVIOUS
  <2>3. QED BY <2>1, <2>2
<1>8. Power(b, e) = power[e]
  BY DEF Power, power
<1>9. QED BY <1>7, <1>8

(* The integers of the function that is called. *)
Highest == MaxOf(fn.signed)
Bottom == MinOf(fn.signed)

(* Which they are; minus twice the largest is below the smallest. *)
LEMMA EndsOfRange ==
  ASSUME fn \in Functions
  PROVE  /\ Highest \in Int /\ Bottom \in Int /\ Highest >= 2 /\ Bottom <= 0 /\ -2 * Highest < Bottom
         /\ \A x : x \in Values(fn.signed) <=> x \in Int /\ Bottom <= x /\ x <= Highest
         /\ fn.signed => Bottom = -Half
         /\ ~fn.signed => Bottom = 0
<1>1. fn.signed \in BOOLEAN
  BY DEF Functions
<1>2. Half \in Nat /\ Half > 2
  BY Ranges
<1>3. CASE fn.signed
  <2>1. fn.signed = TRUE
    BY <1>1, <1>3
  <2>2. Highest = Half - 1 /\ Bottom = -Half
    BY <2>1, Ranges DEF Highest, Bottom
  <2>3. \A x : x \in Values(fn.signed) <=> x \in Int /\ -Half <= x /\ x < Half
    BY <2>1, Ranges
  <2>4. /\ Highest \in Int /\ Bottom \in Int /\ Highest >= 2 /\ Bottom <= 0 /\ -2 * Highest < Bottom
        /\ \A x \in Int : x < Half <=> x <= Highest
    BY <1>2, <2>2
  <2>5. \A x : x \in Values(fn.signed) <=> x \in Int /\ Bottom <= x /\ x <= Highest
    BY <2>2, <2>3, <2>4
  <2>6. QED BY <1>3, <2>2, <2>4, <2>5
<1>4. CASE ~fn.signed
  <2>1. fn.signed = FALSE
    BY <1>1, <1>4
  <2>2. Highest = 2 * Half - 1 /\ Bottom = 0
    BY <2>1, Ranges DEF Highest, Bottom
  <2>3. \A x : x \in Values(fn.signed) <=> x \in Int /\ 0 <= x /\ x < 2 * Half
    BY <2>1, Ranges
  <2>4. /\ Highest \in Int /\ Bottom \in Int /\ Highest >= 2 /\ Bottom <= 0 /\ -2 * Highest < Bottom
        /\ \A x \in Int : x < 2 * Half <=> x <= Highest
    BY <1>2, <2>2
  <2>5. \A x : x \in Values(fn.signed) <=> x \in Int /\ Bottom <= x /\ x <= Highest
    BY <2>2, <2>3, <2>4
  <2>6. QED BY <1>4, <2>2, <2>4, <2>5
<1>5. QED BY <1>3, <1>4

(* What a checked product x of the loop leaves, and whether it is an error. *)
IsSaturated(lane, x) ==
  /\ Selected(lane) \in Values(fn.signed)
  /\ x > Highest => lane.error /\ Selected(lane) = Highest
  /\ x < Bottom => lane.error /\ Selected(lane) = Bottom
  /\ Bottom <= x /\ x <= Highest => ~lane.error /\ Selected(lane) = x

(* Every product of the loop does, whichever function computes it. *)
LEMMA ProductSaturates ==
  ASSUME fn \in Functions, fn.op = "pow", overflow_mode # "UNSAFE",
         NEW l \in Values(fn.signed), NEW r \in Values(fn.signed),
         fn.signed => {l, r} # {-1, -Half}
  PROVE  l * r \in Int /\ IsSaturated(Multiplied(l, r), l * r)
<1>1. fn.signed \in BOOLEAN /\ fn.shape \in {"small", "wide"}
  BY DEF Functions
<1>2. Multiplied(l, r) = ScalarProduct(fn, l, r)
  BY DEF Multiplied
<1>3. Clamps(Multiplied(l, r), fn.signed, l * r)
  <2>1. CASE fn.signed
    <3>1. fn.signed = TRUE
      BY <1>1, <2>1
    <3>2. l \in Values(TRUE) /\ r \in Values(TRUE)
      BY <3>1
    <3>3. Clamps(int_safe_mul_small(l, r), TRUE, l * r) /\ Clamps(int_safe_mul(l, r), TRUE, l * r)
      BY <2>1, <3>2, SmallProduct, WideProduct
    <3>4. ScalarProduct(fn, l, r) \in {int_safe_mul_small(l, r), int_safe_mul(l, r)}
      BY <1>1, <2>1 DEF ScalarProduct
    <3>5. QED BY <1>2, <3>1, <3>3, <3>4
  <2>2. CASE ~fn.signed
    <3>1. fn.signed = FALSE
      BY <1>1, <2>2
    <3>2. l \in Values(FALSE) /\ r \in Values(FALSE)
      BY <3>1
    <3>3. Clamps(uint_safe_mul(l, r), FALSE, l * r)
      BY <3>2, UnsignedProduct
    <3>4. ScalarProduct(fn, l, r) = uint_safe_mul(l, r)
      BY <2>2 DEF ScalarProduct
    <3>5. QED BY <1>2, <3>1, <3>3, <3>4
  <2>3. QED BY <2>1, <2>2
<1> DEFINE lane == Multiplied(l, r)
           x == l * r
<1>4. x \in Int
  BY EndsOfRange
<1>5. lane.error <=> x \notin Values(fn.signed)
  BY <1>3 DEF Clamps
<1>6. Selected(lane) = IF x > Highest THEN Highest ELSE IF x < Bottom THEN Bottom ELSE x
  BY <1>3 DEF Clamps, Clamped, Highest, Bottom
<1> HIDE DEF lane, x
<1>7. IsSaturated(lane, x)
  BY <1>4, <1>5, <1>6, EndsOfRange DEF IsSaturated
<1>8. QED BY <1>4, <1>7 DEF lane, x

(* What the loop has before it: so many more factors of base_mut. *)
Remaining == IF at = "square" THEN 2 * (exp_mut \div 2) ELSE exp_mut
Total == Pow(lhs[1], rhs[1])

(* Nothing has been clamped yet.  Only the first base can be negative, and
   only powers of -1 or 0 can be -1 or 0. *)
IsExact ==
  /\ result * Pow(base_mut, Remaining) = Total
  /\ printed = FALSE
  /\ base_mut < 0 => result = 1 \/ (at = "square" /\ result = base_mut)
  /\ result = -1 => base_mut \in {-1, 1}
  /\ result = 0 => base_mut = 0

(* Something has, and that was reported: the power does not fit, and the
   result is the end of the range on that side, or becomes it with the
   next product. *)
IsClamped ==
  /\ printed = Reports(TRUE) /\ ~Stops(TRUE)
  /\ Remaining = 0 \/ base_mut >= 1
  /\ result \in {Highest, Bottom} \/ (Remaining > 0 /\ base_mut = Highest)
  /\ \/ Total > Highest /\ result >= 1
     \/ Total < Bottom /\ result <= -2

IsSafePower == fn.op = "pow" /\ overflow_mode # "UNSAFE" /\ rhs[1] >= 0

InLoop ==
  /\ base_mut \in Values(fn.signed) /\ result \in Values(fn.signed)
  /\ exp_mut \in Nat /\ (at = "square" => exp_mut > 0)
  /\ IsExact \/ IsClamped

(* Where a call of the power function may be. *)
PowerState ==
  /\ at \in {"entry", "loop", "square", "returned", "aborted"}
  /\ at = "entry" => printed = FALSE
  /\ at \in {"loop", "square"} => InLoop
  /\ at \in {"returned", "aborted"} => Saturates([i \in {1} |-> Total])

PowerInvariant == CallIsTyped /\ LoopIsPower /\ (IsSafePower => PowerState)

(* Its arguments. *)
LEMMA PowerArguments ==
  ASSUME CallIsTyped, IsSafePower
  PROVE  /\ fn \in Functions /\ fn.op = "pow" /\ overflow_mode # "UNSAFE" /\ LanesOf(fn) = {1}
         /\ lhs[1] \in Values(fn.signed) /\ rhs[1] \in Values(fn.signed)
         /\ lhs[1] \in Int /\ rhs[1] \in Nat /\ Total \in Int
<1>1. fn \in Functions /\ fn.op = "pow" /\ overflow_mode # "UNSAFE" /\ rhs[1] >= 0
  BY DEF CallIsTyped, IsSafePower
<1>2. LanesOf(fn) = {1}
  BY <1>1 DEF LanesOf, Functions
<1>3. lhs[1] \in Values(fn.signed) /\ rhs[1] \in Values(fn.signed)
  BY <1>2 DEF CallIsTyped
<1>4. lhs[1] \in Int /\ rhs[1] \in Nat
  BY <1>1, <1>3, EndsOfRange
<1>5. QED BY <1>1, <1>2, <1>3, <1>4, PowStep DEF Total

(* A power of base_mut that is due, taken apart. *)
LEMMA Halves ==
  ASSUME NEW e \in Nat, NEW b \in Int
  PROVE  /\ e \div 2 \in Nat
         /\ e % 2 # 1 => 2 * (e \div 2) = e
         /\ e % 2 = 1 => e = 2 * (e \div 2) + 1 /\ Pow(b, e) = b * Pow(b, 2 * (e \div 2))
         /\ e > 1 => e \div 2 > 0
         /\ e = 1 => e \div 2 = 0
<1> DEFINE k == e \div 2
<1>1. k \in Int /\ e = 2 * k + (e % 2) /\ e % 2 \in 0 .. 1
  BY DivMod, ModRange
<1> HIDE DEF k
<1>2. k \in Nat /\ (e % 2 # 1 => 2 * k = e) /\ (e % 2 = 1 => e = 2 * k + 1)
      /\ (e > 1 => k > 0) /\ (e = 1 => k = 0)
  BY <1>1
<1>3. 2 * k \in Nat
  BY <1>2
<1>4. Pow(b, 2 * k + 1) = b * Pow(b, 2 * k)
  BY <1>3, PowStep
<1>5. QED BY <1>2, <1>4 DEF k

(* The end of a call whose power is known to fit, or known not to. *)
LEMMA PowerStops ==
  ASSUME CallIsTyped, IsSafePower, call' = call, at' = "aborted",
         Total \notin Values(fn.signed), printed' = Reports(TRUE), Stops(TRUE)
  PROVE  Saturates([i \in {1} |-> Total])'
<1> DEFINE exact == [i \in {1} |-> Total]
           overflow == \E i \in LanesOf(fn) : exact[i] \notin Values(fn.signed)
<1>1. fn' = fn /\ overflow_mode' = overflow_mode /\ lhs' = lhs /\ rhs' = rhs /\ exact' = exact
  BY DEF call, Total
<1>2. overflow = TRUE
  BY PowerArguments
<1>3. overflow' = TRUE
  BY <1>1, <1>2
<1> HIDE DEF overflow
<1>4. Reports(TRUE)' = Reports(TRUE) /\ Stops(TRUE)' = Stops(TRUE)
  BY <1>1 DEF Reports, Stops
<1>5. Stops(overflow)' /\ printed' = Reports(overflow)'
  BY <1>3, <1>4 DEF Reports, Stops
<1>6. QED BY <1>5 DEF Saturates, overflow

(* The loop ends with the power, clamped. *)
LEMMA PowerEnds ==
  ASSUME CallIsTyped, IsSafePower, PowerState, PowerReturns
  PROVE  Saturates([i \in {1} |-> Total])'
<1> DEFINE exact == [i \in {1} |-> Total]
           overflow == \E i \in LanesOf(fn) : exact[i] \notin Values(fn.signed)
<1>1. /\ fn \in Functions /\ LanesOf(fn) = {1} /\ Total \in Int
  BY PowerArguments
<1>2. /\ fn' = fn /\ overflow_mode' = overflow_mode /\ exact' = exact
      /\ printed' = printed /\ at' = "returned" /\ returned' = [i \in {1} |-> result]
  BY DEF PowerReturns, Return, call, Total
<1>3. InLoop /\ Remaining = 0
  <2>1. InLoop
    BY DEF PowerReturns, PowerState
  <2>2. CASE at = "loop"
    BY <2>1, <2>2 DEF PowerReturns, Remaining, InLoop
  <2>3. CASE at = "square"
    BY <2>1, <2>3, Halves DEF PowerReturns, Remaining, InLoop
  <2>4. QED BY <2>1, <2>2, <2>3 DEF PowerReturns
<1>4. overflow <=> Total \notin Values(fn.signed)
  BY <1>1
<1>5. /\ result = Clamped(fn.signed, Total)
      /\ printed = Reports(Total \notin Values(fn.signed))
      /\ ~Stops(Total \notin Values(fn.signed))
  <2>1. CASE IsExact
    <3>1. result = Total
      <4>1. base_mut \in Int /\ result \in Int
        BY <1>1, <1>3, EndsOfRange DEF InLoop
      <4>2. Pow(base_mut, 0) = 1
        BY <4>1, PowStep
      <4>3. result * 1 = Total
        BY <1>3, <2>1, <4>2 DEF IsExact
      <4>4. QED BY <4>1, <4>3
    <3>2. Total \in Values(fn.signed)
      BY <1>3, <3>1 DEF InLoop
    <3>3. result = Clamped(fn.signed, Total)
      BY <1>1, <3>1, <3>2, EndsOfRange DEF Clamped, Highest, Bottom
    <3>4. QED BY <2>1, <3>2, <3>3 DEF IsExact, Reports, Stops
  <2>2. CASE IsClamped
    <3>1. Total \notin Values(fn.signed)
      BY <1>1, <2>2, EndsOfRange DEF IsClamped
    <3>2. result = Clamped(fn.signed, Total)
      <4>1. result \in {Highest, Bottom}
        BY <1>3, <2>2 DEF IsClamped
      <4>2. Clamped(fn.signed, Total) = IF Total > Highest THEN Highest ELSE IF Total < Bottom THEN Bottom ELSE Total
        BY DEF Clamped, Highest, Bottom
      <4>3. QED BY <1>1, <2>2, <4>1, <4>2, EndsOfRange DEF IsClamped
    <3>3. printed = Reports(TRUE) /\ ~Stops(TRUE)
      BY <2>2 DEF IsClamped
    <3>4. QED BY <3>1, <3>2, <3>3 DEF Reports, Stops
  <2>3. QED BY <1>3, <2>1, <2>2 DEF InLoop
<1>6. overflow' <=> overflow
  BY <1>2
<1> HIDE DEF overflow
<1>7. printed' = Reports(overflow)' /\ ~Stops(overflow)'
  BY <1>2, <1>4, <1>5, <1>6 DEF Reports, Stops
<1>8. returned' = [i \in LanesOf(fn) |-> Clamped(fn.signed, exact[i])]'
  BY <1>1, <1>2, <1>5
<1>9. QED BY <1>2, <1>7, <1>8 DEF Saturates, overflow

(* A product of the loop that is clamped leaves a power that does not fit. *)
LEMMA PowerUneven ==
  ASSUME CallIsTyped, IsSafePower, PowerState, LoopUneven
  PROVE  PowerState'
<1> DEFINE x == result * base_mut
           k == exp_mut \div 2
           p == Pow(base_mut, 2 * k)
           lane == Multiplied(result, base_mut)
<1>1. /\ fn \in Functions /\ fn.op = "pow" /\ overflow_mode # "UNSAFE" /\ Total \in Int
      /\ Highest \in Int /\ Bottom \in Int /\ Highest >= 2 /\ Bottom <= 0 /\ -2 * Highest < Bottom
  BY PowerArguments, EndsOfRange
<1>2. /\ InLoop /\ at = "loop" /\ exp_mut > 0 /\ exp_mut % 2 = 1
      /\ result' = Selected(lane) /\ base_mut' = base_mut /\ exp_mut' = exp_mut
      /\ printed' = (printed \/ Reports(lane.error))
      /\ at' = IF Stops(lane.error) THEN "aborted" ELSE "square"
      /\ call' = call
  BY DEF LoopUneven, Multiply, PowerState
<1>3. fn' = fn /\ overflow_mode' = overflow_mode /\ Total' = Total /\ Highest' = Highest /\ Bottom' = Bottom
  BY <1>2 DEF call, Total, Highest, Bottom
<1>4. /\ base_mut \in Int /\ result \in Int /\ exp_mut \in Nat
      /\ Bottom <= base_mut /\ base_mut <= Highest /\ Bottom <= result /\ result <= Highest
      /\ base_mut \in Values(fn.signed) /\ result \in Values(fn.signed)
  BY <1>1, <1>2, EndsOfRange DEF InLoop
<1>5. /\ k \in Nat /\ exp_mut = 2 * k + 1 /\ Pow(base_mut, exp_mut) = base_mut * p
      /\ p \in Int /\ (base_mut >= 1 => p >= 1)
      /\ Remaining = exp_mut
      /\ at' = "square" => Remaining' = 2 * k
  <2>1. k \in Nat /\ exp_mut = 2 * k + 1 /\ Pow(base_mut, exp_mut) = base_mut * p
    BY <1>2, <1>4, Halves
  <2>2. 2 * k \in Nat
    BY <2>1
  <2>3. p \in Int /\ (base_mut >= 1 => p >= 1)
    BY <1>4, <2>2, PowStep, PowPositive
  <2>4. Remaining = exp_mut /\ (at' = "square" => Remaining' = 2 * k)
    BY <1>2 DEF Remaining
  <2>5. QED BY <2>1, <2>3, <2>4
<1>6. IsExact /\ base_mut < 0 => result = 1
  BY <1>2 DEF IsExact
<1>7. IsClamped => base_mut >= 1 /\ (result >= 1 \/ result <= -2)
  BY <1>2, <1>5 DEF IsClamped
<1>8. x \in Int /\ IsSaturated(lane, x)
  <2>1. ASSUME fn.signed, {result, base_mut} = {-1, -Half}
        PROVE  FALSE
    <3>1. Half \in Nat /\ Half > 2
      BY Ranges
    <3>2. (result = -1 /\ base_mut = -Half) \/ (result = -Half /\ base_mut = -1)
      <4>1. result \in {-1, -Half} /\ base_mut \in {-1, -Half}
        BY <2>1
      <4>2. -1 \in {result, base_mut} /\ -Half \in {result, base_mut}
        BY <2>1
      <4>3. QED BY <3>1, <4>1, <4>2
    <3>3. base_mut < 0 /\ result # 1
      BY <3>1, <3>2
    <3>4. QED BY <1>2, <1>4, <1>6, <1>7, <3>3 DEF InLoop
  <2>2. QED BY <1>1, <1>4, <2>1, ProductSaturates
<1>9. Selected(lane) \in Values(fn.signed)
  BY <1>8 DEF IsSaturated
<1>10. CASE IsExact
  <2>1. /\ result * (base_mut * p) = Total /\ printed = FALSE
        /\ result = -1 => base_mut \in {-1, 1}
        /\ result = 0 => base_mut = 0
    BY <1>5, <1>10 DEF IsExact
  <2>2. x * p = Total
    BY <1>4, <1>5, <2>1
  <2>3. CASE Bottom <= x /\ x <= Highest
    <3>1. lane.error = FALSE /\ result' = x
      <4>1. ~lane.error
        BY <1>8, <2>3 DEF IsSaturated
      <4>2. lane.error \in BOOLEAN
        BY DEF Multiplied, Plain, Tested, ScalarProduct, int_safe_mul_small, int_safe_mul, uint_safe_mul
      <4>3. QED BY <1>2, <1>8, <2>3, <4>1, <4>2 DEF IsSaturated
    <3>2. at' = "square" /\ printed' = FALSE
      BY <1>2, <2>1, <3>1 DEF Reports, Stops
    <3>3. result' * Pow(base_mut, 2 * k) = Total
      BY <2>2, <3>1
    <3>4. base_mut < 0 => x = base_mut
      BY <1>4, <1>6, <1>10
    <3>5. x = -1 => base_mut \in {-1, 1}
      <4>1. ASSUME x = -1
            PROVE  base_mut \in {-1, 1}
        <5>1. base_mut # 0 /\ result # 0
          BY <1>4, <4>1
        <5>2. CASE base_mut >= 2
          <6>1. result * base_mut >= base_mut \/ result * base_mut <= -base_mut
            <7>1. base_mut * result >= base_mut \/ base_mut * result <= -base_mut
              BY <1>4, <5>1, <5>2, MultipleGap
            <7>2. QED BY <1>4, <7>1
          <6>2. QED BY <1>4, <4>1, <5>2, <6>1
        <5>3. CASE base_mut < 0
          BY <3>4, <4>1, <5>3
        <5>4. QED BY <1>4, <5>1, <5>2, <5>3
      <4>2. QED BY <4>1
    <3>6. x = 0 => base_mut = 0
      <4>1. ASSUME x = 0, base_mut # 0
            PROVE  FALSE
        <5>1. result # 0
          BY <2>1, <4>1
        <5>2. CASE result > 0
          <6>1. result * base_mut >= result \/ result * base_mut <= -result
            BY <1>4, <4>1, <5>2, MultipleGap
          <6>2. QED BY <1>4, <4>1, <5>2, <6>1
        <5>3. CASE result < 0
          <6> DEFINE n == -result
          <6>1. n \in Nat \ {0}
            BY <1>4, <5>3
          <6>2. n * base_mut >= n \/ n * base_mut <= -n
            BY <1>4, <4>1, <6>1, MultipleGap
          <6>3. n * base_mut = -x
            BY <1>4
          <6>4. QED BY <4>1, <6>1, <6>2, <6>3
        <5>4. QED BY <1>4, <5>1, <5>2, <5>3
      <4>2. QED BY <4>1
    <3> HIDE DEF x
    <3>7. IsExact'
      BY <1>2, <1>3, <1>5, <3>1, <3>2, <3>3, <3>4, <3>5, <3>6 DEF IsExact
    <3>8. InLoop'
      BY <1>2, <1>3, <1>4, <1>9, <3>7 DEF InLoop
    <3>9. QED BY <3>2, <3>8 DEF PowerState
  <2>4. CASE ~(Bottom <= x /\ x <= Highest)
    <3>1. base_mut >= 1
      <4>1. CASE base_mut < 0
        <5>1. x = base_mut
          BY <1>4, <1>6, <1>10, <4>1
        <5>2. QED BY <1>4, <2>4, <5>1
      <4>2. CASE base_mut = 0
        <5>1. x = 0
          BY <1>4, <4>2
        <5>2. QED BY <1>1, <2>4, <5>1
      <4>3. QED BY <1>4, <4>1, <4>2
    <3>2. p >= 1 /\ p \in Int
      BY <1>5, <3>1
    <3>3. (x >= 0 => x * p >= x) /\ (x <= 0 => x * p <= x)
      BY <1>8, <3>2, FactorKeeps
    <3> HIDE DEF x, p
    <3>4. /\ x > Highest => Total > Highest
          /\ x < Bottom => Total < Bottom
      BY <1>1, <1>8, <2>2, <3>3
    <3>5. /\ lane.error
          /\ x > Highest => result' = Highest
          /\ x < Bottom => result' = Bottom
      BY <1>1, <1>2, <1>8, <2>4 DEF IsSaturated
    <3>6. Total \notin Values(fn.signed)
      BY <1>1, <1>8, <2>4, <3>4, EndsOfRange
    <3>7. printed' = Reports(TRUE)
      BY <1>2, <2>1, <3>5 DEF Reports
    <3>8. CASE Stops(TRUE)
      <4>1. at' = "aborted"
        BY <1>2, <3>5, <3>8 DEF Stops
      <4>2. Saturates([i \in {1} |-> Total])'
        BY <1>2, <3>6, <3>7, <3>8, <4>1, PowerStops
      <4>3. QED BY <4>1, <4>2 DEF PowerState
    <3>9. CASE ~Stops(TRUE)
      <4>1. at' = "square"
        BY <1>2, <3>5, <3>9 DEF Stops
      <4>2. x < Bottom => Bottom <= -2
        <5>1. Half > 2 /\ Half \in Nat
          BY Ranges
        <5>2. result >= 0 => x >= 0
          BY <1>4, <3>1, FactorKeeps DEF x
        <5>3. x < Bottom => Bottom < 0
          BY <1>1, <1>4, <1>8, <5>2
        <5>4. QED BY <1>1, <5>1, <5>3, EndsOfRange
      <4>3. IsClamped'
        BY <1>1, <1>2, <1>3, <1>8, <2>4, <3>1, <3>4, <3>5, <3>7, <3>9, <4>1, <4>2 DEF IsClamped, Reports, Stops
      <4>4. InLoop'
        BY <1>2, <1>3, <1>4, <1>9, <4>3 DEF InLoop
      <4>5. QED BY <4>1, <4>4 DEF PowerState
    <3>10. QED BY <3>8, <3>9
  <2>5. QED BY <2>3, <2>4
<1>11. CASE IsClamped
  <2>1. /\ printed = Reports(TRUE) /\ ~Stops(TRUE) /\ base_mut >= 1
        /\ result \in {Highest, Bottom} \/ base_mut = Highest
        /\ \/ Total > Highest /\ result >= 1
           \/ Total < Bottom /\ result <= -2
    BY <1>2, <1>5, <1>7, <1>11 DEF IsClamped
  <2>2. (result >= 0 => x >= result) /\ (result <= 0 => x <= result)
    BY <1>4, <2>1, FactorKeeps
  <2>3. ASSUME Total > Highest, result >= 1
        PROVE  result' = Highest
    <3>1. x >= Highest
      <4>1. CASE result = Highest
        BY <1>1, <1>8, <2>2, <2>3, <4>1
      <4>2. CASE base_mut = Highest
        <5>1. Highest * result >= Highest
          BY <1>1, <1>4, <2>3, FactorKeeps
        <5>2. QED BY <1>1, <1>4, <4>2, <5>1
      <4>3. QED BY <1>1, <2>1, <2>3, <4>1, <4>2
    <3> HIDE DEF x
    <3>2. QED BY <1>1, <1>2, <1>8, <3>1 DEF IsSaturated
  <2>4. ASSUME Total < Bottom, result <= -2
        PROVE  result' = Bottom
    <3>1. x <= Bottom
      <4>1. CASE result = Bottom
        BY <1>1, <2>2, <4>1
      <4>2. CASE base_mut = Highest
        <5> DEFINE n == -result
        <5>1. n >= 2 /\ n \in Int /\ n - 2 \in Nat
          BY <1>4, <2>4
        <5>2. Highest * (n - 2) >= 0 /\ Highest * (n - 2) = Highest * n - 2 * Highest
          BY <1>1, <5>1
        <5>3. Highest * n = -x
          BY <1>1, <1>4, <4>2
        <5> HIDE DEF x, n
        <5>4. QED BY <1>1, <1>8, <5>2, <5>3
      <4>3. QED BY <1>1, <2>1, <2>4, <4>1, <4>2
    <3> HIDE DEF x
    <3>2. QED BY <1>1, <1>2, <1>8, <3>1 DEF IsSaturated
  <2>5. result' \in {Highest, Bottom} /\ ((Total > Highest /\ result' >= 1) \/ (Total < Bottom /\ result' <= -2))
    <3>1. CASE Total > Highest /\ result >= 1
      BY <1>1, <2>3, <3>1
    <3>2. CASE Total < Bottom /\ result <= -2
      BY <1>1, <1>4, <2>4, <3>2
    <3>3. QED BY <2>1, <3>1, <3>2
  <2>6. at' = "square"
    BY <1>2, <2>1 DEF Stops
  <2>7. printed' = Reports(TRUE)
    BY <1>2, <2>1 DEF Reports
  <2>8. IsClamped'
    BY <1>2, <1>3, <2>1, <2>5, <2>7 DEF IsClamped, Reports, Stops
  <2>9. InLoop'
    BY <1>2, <1>3, <1>4, <1>9, <2>8 DEF InLoop
  <2>10. QED BY <2>6, <2>9 DEF PowerState
<1>12. QED BY <1>2, <1>10, <1>11 DEF InLoop

(* A square that is clamped is still to be used. *)
LEMMA PowerSquare ==
  ASSUME CallIsTyped, IsSafePower, PowerState, Square
  PROVE  PowerState'
<1> DEFINE y == base_mut * base_mut
           k == exp_mut \div 2
           q == Pow(y, k)
           lane == Multiplied(base_mut, base_mut)
<1>1. /\ fn \in Functions /\ fn.op = "pow" /\ overflow_mode # "UNSAFE" /\ Total \in Int
      /\ Highest \in Int /\ Bottom \in Int /\ Highest >= 2 /\ Bottom <= 0 /\ -2 * Highest < Bottom
  BY PowerArguments, EndsOfRange
<1>2. /\ InLoop /\ at = "square" /\ exp_mut # 1
      /\ base_mut' = Selected(lane) /\ result' = result /\ exp_mut' = k
      /\ printed' = (printed \/ Reports(lane.error))
      /\ at' = IF Stops(lane.error) THEN "aborted" ELSE "loop"
      /\ call' = call
  BY DEF Square, Multiply, PowerState
<1>3. fn' = fn /\ overflow_mode' = overflow_mode /\ Total' = Total /\ Highest' = Highest /\ Bottom' = Bottom
  BY <1>2 DEF call, Total, Highest, Bottom
<1>4. /\ base_mut \in Int /\ result \in Int /\ exp_mut \in Nat /\ exp_mut > 1
      /\ Bottom <= base_mut /\ base_mut <= Highest /\ Bottom <= result /\ result <= Highest
      /\ base_mut \in Values(fn.signed) /\ result \in Values(fn.signed)
  BY <1>1, <1>2, EndsOfRange DEF InLoop
<1>5. /\ k \in Nat /\ k > 0 /\ y \in Int /\ y >= 0 /\ q \in Int
      /\ Pow(base_mut, 2 * k) = q /\ Remaining = 2 * k
      /\ y >= 1 => q >= y
      /\ at' = "loop" => Remaining' = k
  <2>1. k \in Nat /\ k > 0
    BY <1>4, Halves
  <2>2. y \in Int /\ y >= 0
    <3>1. base_mut >= 0 => y >= 0
      BY <1>4, FactorKeeps
    <3>2. base_mut < 0 => y >= 0
      <4>1. ASSUME base_mut < 0
            PROVE  y >= 0
        <5> DEFINE n == -base_mut
        <5>1. n >= 1 /\ n \in Int
          BY <1>4, <4>1
        <5>2. n * n >= n
          BY <5>1, FactorKeeps
        <5>3. n * n = y
          BY <1>4
        <5>4. QED BY <5>1, <5>2, <5>3
      <4>2. QED BY <4>1
    <3>3. QED BY <1>4, <3>1, <3>2
  <2>3. Pow(base_mut, 2 * k) = q
    BY <1>4, <2>1, PowSquare
  <2> HIDE DEF y
  <2>4. q \in Int /\ (y >= 1 => q >= y)
    BY <2>1, <2>2, PowStep, PowPositive
  <2>5. Remaining = 2 * k
    BY <1>2 DEF Remaining
  <2>6. at' = "loop" => Remaining' = k
    BY <1>2 DEF Remaining
  <2>7. QED BY <2>1, <2>2, <2>3, <2>4, <2>5, <2>6
<1>6. y \in Int /\ IsSaturated(lane, y)
  <2>1. {base_mut, base_mut} # {-1, -Half}
    <3>1. Half \in Nat /\ Half > 2
      BY Ranges
    <3>2. -1 \in {-1, -Half} /\ -Half \in {-1, -Half} /\ -1 # -Half
      BY <3>1
    <3>3. QED BY <3>2
  <2>2. QED BY <1>1, <1>4, <2>1, ProductSaturates
<1>7. Selected(lane) \in Values(fn.signed)
  BY <1>6 DEF IsSaturated
<1>8. CASE IsExact
  <2>1. /\ result * q = Total /\ printed = FALSE
        /\ result = -1 => base_mut \in {-1, 1}
        /\ result = 0 => base_mut = 0
    BY <1>5, <1>8 DEF IsExact
  <2>2. result = -1 => y = 1
    BY <1>4, <2>1
  <2>3. result = 0 => y = 0
    BY <1>4, <2>1
  <2>4. CASE y <= Highest
    <3>1. lane.error = FALSE /\ base_mut' = y
      <4>1. ~lane.error
        BY <1>1, <1>5, <1>6, <2>4 DEF IsSaturated
      <4>2. lane.error \in BOOLEAN
        BY DEF Multiplied, Plain, Tested, ScalarProduct, int_safe_mul_small, int_safe_mul, uint_safe_mul
      <4>3. QED BY <1>1, <1>2, <1>5, <1>6, <2>4, <4>1, <4>2 DEF IsSaturated
    <3>2. at' = "loop" /\ printed' = FALSE
      BY <1>2, <2>1, <3>1 DEF Reports, Stops
    <3>3. result * Pow(base_mut', k) = Total
      BY <2>1, <3>1
    <3> HIDE DEF y, q, k
    <3>4. IsExact'
      BY <1>2, <1>3, <1>5, <2>2, <2>3, <3>1, <3>2, <3>3 DEF IsExact
    <3>5. InLoop'
      BY <1>2, <1>3, <1>4, <1>5, <1>7, <3>2, <3>4 DEF InLoop
    <3>6. QED BY <3>2, <3>5 DEF PowerState
  <2>5. CASE y > Highest
    <3> HIDE DEF y, q, k
    <3>1. q > Highest /\ result # 0 /\ result # -1
      BY <1>1, <1>5, <2>2, <2>3, <2>5
    <3>2. (Total > Highest /\ result >= 1) \/ (Total < Bottom /\ result <= -2)
      <4>1. CASE result >= 1
        <5>1. q * result >= q
          BY <1>1, <1>4, <1>5, <3>1, <4>1, FactorKeeps
        <5>2. QED BY <1>1, <1>4, <1>5, <2>1, <3>1, <4>1, <5>1
      <4>2. CASE result <= -2
        <5> DEFINE n == -result
        <5>1. n \in Int /\ n - 2 \in Nat
          BY <1>4, <4>2
        <5>2. q * (n - 2) >= 0 /\ q * (n - 2) = q * n - 2 * q
          BY <1>1, <1>5, <3>1, <5>1
        <5>3. q * n = -Total
          BY <1>4, <1>5, <2>1
        <5> HIDE DEF n
        <5>4. Total <= -2 * q /\ -2 * q < -2 * Highest
          BY <1>1, <1>5, <3>1, <5>1, <5>2, <5>3
        <5>5. QED BY <1>1, <1>5, <4>2, <5>4
      <4>3. QED BY <1>4, <3>1, <4>1, <4>2
    <3>3. Total \notin Values(fn.signed)
      BY <1>1, <3>2, EndsOfRange
    <3>4. lane.error /\ base_mut' = Highest
      BY <1>1, <1>2, <1>6, <2>5 DEF IsSaturated
    <3>5. printed' = Reports(TRUE)
      BY <1>2, <2>1, <3>4 DEF Reports
    <3>6. CASE Stops(TRUE)
      <4>1. at' = "aborted"
        BY <1>2, <3>4, <3>6 DEF Stops
      <4>2. Saturates([i \in {1} |-> Total])'
        BY <1>2, <3>3, <3>5, <3>6, <4>1, PowerStops
      <4>3. QED BY <4>1, <4>2 DEF PowerState
    <3>7. CASE ~Stops(TRUE)
      <4>1. at' = "loop"
        BY <1>2, <3>4, <3>7 DEF Stops
      <4>2. IsClamped'
        BY <1>1, <1>2, <1>3, <1>5, <3>2, <3>4, <3>5, <3>7, <4>1 DEF IsClamped, Reports, Stops
      <4>3. InLoop'
        BY <1>2, <1>3, <1>4, <1>5, <1>7, <4>1, <4>2 DEF InLoop
      <4>4. QED BY <4>1, <4>3 DEF PowerState
    <3>8. QED BY <3>6, <3>7
  <2>6. QED BY <1>1, <1>5, <2>4, <2>5
<1>9. CASE IsClamped
  <2> HIDE DEF q, k
  <2>1. /\ printed = Reports(TRUE) /\ ~Stops(TRUE) /\ base_mut >= 1
        /\ result \in {Highest, Bottom} \/ base_mut = Highest
        /\ \/ Total > Highest /\ result >= 1
           \/ Total < Bottom /\ result <= -2
    <3>1. Remaining # 0
      BY <1>5
    <3>2. QED BY <1>9, <3>1 DEF IsClamped
  <2>2. y >= base_mut
    BY <1>4, <2>1, FactorKeeps
  <2> HIDE DEF y
  <2>3. base_mut' >= 1 /\ (base_mut = Highest => base_mut' = Highest)
    BY <1>1, <1>2, <1>4, <1>6, <2>1, <2>2 DEF IsSaturated
  <2>4. at' = "loop"
    BY <1>2, <2>1 DEF Stops
  <2>5. printed' = Reports(TRUE)
    BY <1>2, <2>1 DEF Reports
  <2>6. IsClamped'
    BY <1>2, <1>3, <1>5, <2>1, <2>3, <2>4, <2>5 DEF IsClamped, Reports, Stops
  <2>7. InLoop'
    BY <1>2, <1>3, <1>4, <1>5, <1>7, <2>4, <2>6 DEF InLoop
  <2>8. QED BY <2>4, <2>7 DEF PowerState
<1>10. QED BY <1>2, <1>8, <1>9 DEF InLoop

(* The loop is entered with nothing multiplied. *)
LEMMA PowerEnters ==
  ASSUME CallIsTyped, IsSafePower, PowerState, Enter
  PROVE  PowerState'
<1>1. /\ fn \in Functions /\ lhs[1] \in Values(fn.signed) /\ rhs[1] \in Values(fn.signed)
      /\ lhs[1] \in Int /\ rhs[1] \in Nat /\ Total \in Int
  BY PowerArguments
<1>2. /\ base_mut' = lhs[1] /\ exp_mut' = rhs[1] /\ result' = 1 /\ at' = "loop" /\ printed' = FALSE
      /\ call' = call
  BY DEF Enter, PowerState
<1>3. fn' = fn /\ Total' = Total /\ Remaining' = rhs[1]
  BY <1>2 DEF call, Total, Remaining
<1>4. 1 \in Values(fn.signed)
  BY <1>1, EndsOfRange
<1>5. Pow(lhs[1], rhs[1]) = Total
  BY DEF Total
<1>6. 1 * Pow(lhs[1], rhs[1]) = Total
  BY <1>1, <1>5
<1>7. IsExact'
  BY <1>2, <1>3, <1>6 DEF IsExact
<1>8. InLoop'
  BY <1>1, <1>2, <1>3, <1>4, <1>7 DEF InLoop
<1>9. QED BY <1>2, <1>8 DEF PowerState

(* An even exponent is halved as it is. *)
LEMMA PowerEven ==
  ASSUME CallIsTyped, IsSafePower, PowerState, LoopEven
  PROVE  PowerState'
<1>1. /\ InLoop /\ at = "loop" /\ at' = "square" /\ exp_mut > 0 /\ exp_mut % 2 # 1
      /\ call' = call /\ printed' = printed
      /\ base_mut' = base_mut /\ exp_mut' = exp_mut /\ result' = result
  BY DEF LoopEven, PowerState, locals
<1>2. /\ fn' = fn /\ overflow_mode' = overflow_mode /\ Total' = Total /\ Highest' = Highest /\ Bottom' = Bottom
  BY <1>1 DEF call, Total, Highest, Bottom
<1>3. Remaining' = Remaining
  <2>1. 2 * (exp_mut \div 2) = exp_mut
    BY <1>1, Halves DEF InLoop
  <2>2. QED BY <1>1, <2>1 DEF Remaining
<1>4. IsExact => IsExact'
  BY <1>1, <1>2, <1>3 DEF IsExact
<1>5. IsClamped => IsClamped'
  BY <1>1, <1>2, <1>3 DEF IsClamped, Reports, Stops
<1>6. InLoop'
  BY <1>1, <1>2, <1>4, <1>5 DEF InLoop
<1>7. QED BY <1>1, <1>6 DEF PowerState

(* The power function, which multiplies by squaring and clamps on the way,
   returns what clamping the power once would return, and reports or stops
   exactly if the power does not fit, for integers of every width, bases
   of both signs and every exponent that is not negative. *)
THEOREM PowersSaturate == ArithmeticSpec => []PowersAreClamped
<1>1. ASSUME ArithmeticInit
      PROVE  PowerInvariant
  <2>1. CallIsTyped /\ LoopIsPower
    BY <1>1, InitTypes
  <2>2. PowerState
    BY <1>1 DEF ArithmeticInit, PowerState
  <2>3. QED BY <2>1, <2>2 DEF PowerInvariant
<1>2. ASSUME PowerInvariant, [ArithmeticNext]_arithmetic_vars
      PROVE  PowerInvariant'
  <2>1. CallIsTyped /\ LoopIsPower /\ CallIsTyped' /\ LoopIsPower'
    BY <1>2, NextTypes DEF PowerInvariant
  <2>2. overflow_mode' = overflow_mode /\ fn' = fn /\ lhs' = lhs /\ rhs' = rhs
    <3>1. call' = call
      BY <1>2 DEF ArithmeticNext, arithmetic_vars, Compute, Trap, Enter, LoopEven, LoopUneven, Square, PowerReturns, Ended
    <3>2. QED BY <3>1 DEF call
  <2>3. IsSafePower' <=> IsSafePower
    BY <2>2 DEF IsSafePower
  <2>4. SUFFICES ASSUME IsSafePower
                 PROVE  PowerState'
    BY <2>1, <2>3 DEF PowerInvariant
  <2>5. PowerState
    BY <1>2, <2>4 DEF PowerInvariant
  <2>6. CASE Compute \/ Trap
    BY <2>4, <2>6 DEF Compute, Trap, IsSafePower
  <2>7. CASE Enter
    BY <2>1, <2>4, <2>5, <2>7, PowerEnters
  <2>8. CASE LoopEven
    BY <2>1, <2>4, <2>5, <2>8, PowerEven
  <2>9. CASE LoopUneven
    BY <2>1, <2>4, <2>5, <2>9, PowerUneven
  <2>10. CASE Square
    BY <2>1, <2>4, <2>5, <2>10, PowerSquare
  <2>11. CASE PowerReturns
    <3>1. at' = "returned"
      BY <2>11 DEF PowerReturns, Return
    <3>2. QED BY <2>1, <2>4, <2>5, <2>11, <3>1, PowerEnds DEF PowerState
  <2>12. CASE Ended \/ UNCHANGED arithmetic_vars
    <3>1. UNCHANGED arithmetic_vars
      BY <2>12 DEF Ended
    <3>2. /\ at' = at /\ returned' = returned /\ printed' = printed
          /\ base_mut' = base_mut /\ exp_mut' = exp_mut /\ result' = result
      BY <3>1 DEF arithmetic_vars, locals
    <3>3. Total' = Total /\ Highest' = Highest /\ Bottom' = Bottom /\ Remaining' = Remaining
      BY <2>2, <3>2 DEF Total, Highest, Bottom, Remaining
    <3>4. InLoop => InLoop'
      BY <2>2, <3>2, <3>3 DEF InLoop, IsExact, IsClamped, Reports, Stops
    <3>5. Saturates([i \in {1} |-> Total]) => Saturates([i \in {1} |-> Total])'
      BY <2>2, <3>2, <3>3 DEF Saturates, Reports, Stops
    <3>6. QED BY <2>5, <3>2, <3>4, <3>5 DEF PowerState
  <2>13. QED
    BY <1>2, <2>6, <2>7, <2>8, <2>9, <2>10, <2>11, <2>12 DEF ArithmeticNext
<1>3. ASSUME PowerInvariant
      PROVE  PowersAreClamped
  <2>1. SUFFICES ASSUME at \in {"returned", "aborted"}, IsSafePower
                 PROVE  Saturates([i \in {1} |-> Power(lhs[1], rhs[1])])
    BY DEF PowersAreClamped, IsSafePower
  <2>2. CallIsTyped /\ PowerState
    BY <1>3, <2>1 DEF PowerInvariant
  <2>3. /\ fn \in Functions /\ LanesOf(fn) = {1} /\ Total \in Int /\ lhs[1] \in Int /\ rhs[1] \in Nat
    BY <2>1, <2>2, PowerArguments
  <2> DEFINE power == Power(lhs[1], rhs[1])
  <2>4. power = KeptNear(Total)
    BY <2>3, PowerIsKept DEF Total
  <2>5. Highest <= 2 * Half - 1 /\ Bottom >= -Half /\ Half \in Nat /\ Half > 2
    <3>1. Half \in Nat /\ Half > 2 /\ Highest \in {Half - 1, 2 * Half - 1} /\ Bottom \in {-Half, 0}
      BY Ranges DEF Highest, Bottom, MaxOf, MinOf
    <3>2. QED BY <3>1
  <2> HIDE DEF power
  <2>6. /\ power \in Int
        /\ power > Highest <=> Total > Highest
        /\ power < Bottom <=> Total < Bottom
        /\ Bottom <= Total /\ Total <= Highest => power = Total
    BY <2>3, <2>4, <2>5, EndsOfRange DEF KeptNear
  <2>7. power \in Values(fn.signed) <=> Total \in Values(fn.signed)
    BY <2>3, <2>6, EndsOfRange
  <2>8. Clamped(fn.signed, power) = Clamped(fn.signed, Total)
    <3>1. \A x : Clamped(fn.signed, x) = IF x > Highest THEN Highest ELSE IF x < Bottom THEN Bottom ELSE x
      BY DEF Clamped, Highest, Bottom
    <3>2. QED BY <2>3, <2>6, <3>1, EndsOfRange
  <2>9. Saturates([i \in {1} |-> Total])
    BY <2>1, <2>2 DEF PowerState
  <2>10. Saturates([i \in {1} |-> power])
    <3> DEFINE fits == Total \notin Values(fn.signed)
               other == power \notin Values(fn.signed)
    <3>1. (\E i \in LanesOf(fn) : [j \in {1} |-> Total][i] \notin Values(fn.signed)) <=> fits
      BY <2>3
    <3>2. (\E i \in LanesOf(fn) : [j \in {1} |-> power][i] \notin Values(fn.signed)) <=> other
      BY <2>3
    <3>3. fits <=> other
      BY <2>7
    <3>4. [i \in LanesOf(fn) |-> Clamped(fn.signed, [j \in {1} |-> Total][i])]
            = [i \in LanesOf(fn) |-> Clamped(fn.signed, [j \in {1} |-> power][i])]
      BY <2>3, <2>8
    <3> HIDE DEF fits, other
    <3>5. QED BY <2>9, <3>1, <3>2, <3>3, <3>4 DEF Saturates, Reports, Stops
  <2>11. QED BY <2>10 DEF power
<1>4. QED BY <1>1, <1>2, <1>3, PTL DEF ArithmeticSpec

----------------------------------------
(* The program's shared data. *)

(* A field that was initialized has the value of its initializer, and the
   others are zero. *)
IsSettled(v, p, i) ==
  LET f == p.fields[i] IN
  v[f.name] = CASE f.init.kind = "none" -> 0
                [] f.init.kind = "number" -> f.init.value
                [] f.init.kind = "text" -> [text |-> f.init.value, made_for |-> f.name]
                [] f.init.kind = "reads" ->
                     LET g == FieldOf(p, f.init.name)
                     IN IF g.init.kind = "text" THEN [text |-> g.init.value, made_for |-> f.name] ELSE v[g.name]

(* A program that can be started and whose initializers read what is there. *)
IsCareful(p) == IsStarted(p) /\ Careful(p)

(* Initializers read fields of the set. *)
IsClosed(S, p) ==
  \A i \in S : p.fields[i].init.kind = "reads" => PlaceOf(p, p.fields[i].init.name) \in S

(* The fields at the places in S have their values, and the others none. *)
SettledIn(v, p, S) ==
  /\ DOMAIN v = {f.name : f \in Fields(p)}
  /\ \A i \in DOMAIN p.fields : IF i \in S THEN IsSettled(v, p, i) ELSE v[p.fields[i].name] = 0

(* What is read is the field at its place. *)
LEMMA ReadIs ==
  ASSUME NEW p, IsStarted(p), NEW i \in DOMAIN p.fields, p.fields[i].init.kind = "reads"
  PROVE  LET j == PlaceOf(p, p.fields[i].init.name)
         IN /\ j \in DOMAIN p.fields /\ FieldOf(p, p.fields[i].init.name) = p.fields[j]
            /\ p.fields[j].name = p.fields[i].init.name
<1>. DEFINE n == p.fields[i].init.name
            j == PlaceOf(p, n)
<1>1. \E k \in DOMAIN p.fields : p.fields[k].name = n
  BY DEF IsStarted
<1>2. j \in DOMAIN p.fields /\ p.fields[j].name = n
  BY <1>1 DEF PlaceOf
<1>3. \A f \in Fields(p) : f.name = n => f = p.fields[j]
  BY <1>2 DEF Fields, IsStarted
<1>4. p.fields[j] \in Fields(p)
  BY <1>2 DEF Fields
<1>5. FieldOf(p, n) = p.fields[j]
  <2>. HIDE DEF j, n
  <2>. QED BY <1>2, <1>3, <1>4 DEF FieldOf
<1>. QED BY <1>2, <1>5

(* One more field is initialized, which reads one that was. *)
LEMMA OneSettled ==
  ASSUME StartupCareless = {}, NEW p, IsCareful(p), NEW S \in SUBSET DOMAIN p.fields, IsClosed(S, p),
         NEW i \in DOMAIN p.fields \ S, IsClosed(S \cup {i}, p), NEW v, SettledIn(v, p, S)
  PROVE  SettledIn([v EXCEPT ![p.fields[i].name] = Evaluated(v, p.fields[i])], p, S \cup {i})
<1>. DEFINE f == p.fields[i]
            w == [v EXCEPT ![f.name] = Evaluated(v, f)]
<1>1. f.name \in DOMAIN v /\ DOMAIN w = DOMAIN v /\ w[f.name] = Evaluated(v, f)
  BY DEF SettledIn, Fields
<1>2. \A k \in DOMAIN p.fields : k # i => w[p.fields[k].name] = v[p.fields[k].name]
  BY DEF IsCareful, IsStarted, SettledIn, Fields
<1>3. IsSettled(w, p, i)
  <2>1. f.init.kind \in {"none", "number", "text", "reads"}
    BY DEF IsCareful, IsStarted
  <2>2. v[f.name] = 0
    BY DEF SettledIn
  <2>3. CASE f.init.kind # "reads"
    BY <1>1, <2>1, <2>2, <2>3 DEF IsSettled, Evaluated
  <2>4. CASE f.init.kind = "reads"
    <3>. DEFINE j == PlaceOf(p, f.init.name)
    <3>1. /\ j \in DOMAIN p.fields /\ FieldOf(p, f.init.name) = p.fields[j]
          /\ p.fields[j].name = f.init.name
      BY <2>4, ReadIs DEF IsCareful
    <3>2. MayRead(p, f, p.fields[j])
      BY <2>4, <3>1 DEF IsCareful, Careful, Fields
    <3>3. PlaceOf(p, p.fields[j].name) < PlaceOf(p, f.name) /\ p.fields[j].init.kind # "text"
      BY <3>2 DEF MayRead
    <3>4. PlaceOf(p, f.name) = i
      BY DEF IsCareful, IsStarted, PlaceOf
    <3>5. j # i
      BY <3>1, <3>3, <3>4 DEF IsCareful, IsStarted
    <3>6. w[f.name] = v[p.fields[j].name]
      BY <1>1, <2>4, <3>1 DEF Evaluated
    <3>7. w[p.fields[j].name] = v[p.fields[j].name]
      BY <1>2, <3>1, <3>5
    <3>. QED BY <2>4, <3>1, <3>3, <3>6, <3>7 DEF IsSettled
  <2>. QED BY <2>3, <2>4
<1>4. ASSUME NEW k \in S
      PROVE  IsSettled(w, p, k)
  <2>1. IsSettled(v, p, k) /\ k \in DOMAIN p.fields /\ k # i /\ w[p.fields[k].name] = v[p.fields[k].name]
    BY <1>2 DEF SettledIn
  <2>2. CASE p.fields[k].init.kind # "reads"
    BY <2>1, <2>2 DEF IsSettled, IsCareful, IsStarted
  <2>3. CASE p.fields[k].init.kind = "reads"
    <3>. DEFINE j == PlaceOf(p, p.fields[k].init.name)
    <3>1. j \in S /\ FieldOf(p, p.fields[k].init.name) = p.fields[j]
      BY <2>1, <2>3, ReadIs DEF IsClosed, IsCareful
    <3>2. w[p.fields[j].name] = v[p.fields[j].name]
      BY <1>2, <3>1
    <3>. HIDE DEF w
    <3>. QED BY <2>1, <2>3, <3>1, <3>2 DEF IsSettled
  <2>. QED BY <2>2, <2>3
<1>5. ASSUME NEW k \in DOMAIN p.fields, k \notin S \cup {i}
      PROVE  w[p.fields[k].name] = 0
  BY <1>2, <1>5 DEF SettledIn
<1>. HIDE DEF w
<1>6. DOMAIN w = {g.name : g \in Fields(p)}
  BY <1>1 DEF SettledIn
<1>7. SettledIn(w, p, S \cup {i})
  BY <1>3, <1>4, <1>5, <1>6 DEF SettledIn
<1>. QED BY <1>7 DEF w

(* The fields' names, what may be stored, and where the fields of files are. *)
Names(p) == {f.name : f \in Fields(p)}
FieldValues(p) ==
  {0} \cup {p.fields[i].init.value : i \in DOMAIN p.fields}
      \cup {[text |-> p.fields[i].init.value, made_for |-> p.fields[i].name] : i \in DOMAIN p.fields}
PlacesIn(p, files) == {i \in DOMAIN p.fields : p.fields[i].file \in files}

(* What is stored is a value. *)
LEMMA EvaluatedIs ==
  ASSUME NEW p, IsStarted(p), NEW i \in DOMAIN p.fields, NEW v \in [Names(p) -> FieldValues(p)]
  PROVE  [v EXCEPT ![p.fields[i].name] = Evaluated(v, p.fields[i])] \in [Names(p) -> FieldValues(p)]
<1>. DEFINE f == p.fields[i]
<1>1. f.name \in Names(p) /\ f.init.value \in FieldValues(p) /\ [text |-> f.init.value, made_for |-> f.name] \in FieldValues(p)
  BY DEF Names, FieldValues, Fields
<1>2. CASE f.init.kind = "reads"
  <2>1. PICK j \in DOMAIN p.fields : p.fields[j].name = f.init.name
    BY <1>2 DEF IsStarted
  <2>2. f.init.name \in Names(p)
    BY <2>1 DEF Names, Fields
  <2>. QED BY <1>2, <2>2 DEF Evaluated
<1>3. CASE f.init.kind # "reads"
  <2>1. f.init.kind \in {"none", "number", "text"}
    BY <1>3 DEF IsStarted
  <2>2. Evaluated(v, f) \in FieldValues(p)
    <3>. HIDE DEF f
    <3>. QED BY <1>1, <2>1 DEF Evaluated
  <2>. QED BY <2>2
<1>. QED BY <1>2, <1>3

(* The fields of one file are initialized behind those of other files. *)
LEMMA FileSettled ==
  ASSUME StartupCareless = {}, IsCareful(program), NEW files, NEW file, file \notin files,
         NEW v \in [Names(program) -> FieldValues(program)], SettledIn(v, program, PlacesIn(program, files))
  PROVE  /\ FileInitialized(file, v) \in [Names(program) -> FieldValues(program)]
         /\ SettledIn(FileInitialized(file, v), program, PlacesIn(program, files \cup {file}))
<1>. DEFINE N == Len(program.fields)
            S == [Names(program) -> FieldValues(program)]
            Stored(i, x) == IF program.fields[i].file # file THEN x
                            ELSE [x EXCEPT ![program.fields[i].name] = Evaluated(x, program.fields[i])]
            step == [q \in (1 .. N) \X S |-> Stored(q[1], q[2])]
            Is(g) == g = [i \in 0 .. N |-> IF i = 0 THEN v ELSE Stored(i, g[i - 1])]
            after == CHOOSE g : Is(g)
            Done(i) == PlacesIn(program, files) \cup {k \in 1 .. i : program.fields[k].file = file}
<1>0. N \in Nat /\ DOMAIN program.fields = 1 .. N
  BY DEF IsCareful, IsStarted
<1>1. \A i \in 1 .. N, x \in S : Stored(i, x) \in S
  BY <1>0, EvaluatedIs DEF IsCareful
<1>2. step \in [(1 .. N) \X S -> S]
  <2>. HIDE DEF S, N, Stored
  <2>. QED BY <1>1
<1>3. PICK g : IsNumbered(g, S, v, N, step)
  <2>. HIDE DEF N, step
  <2>. QED BY <1>0, <1>2, NumberedIteration
<1>4. g \in [0 .. N -> S] /\ g[0] = v /\ \A i \in 1 .. N : g[i] = Stored(i, g[i - 1])
  <2>. HIDE DEF S, Stored
  <2>1. ASSUME NEW i \in 1 .. N
        PROVE  g[i - 1] \in S
    <3>1. i - 1 \in 0 .. N
      BY <1>0
    <3>. QED BY <1>3, <3>1 DEF IsNumbered
  <2>. QED BY <1>3, <2>1 DEF IsNumbered
<1>5. Is(g)
  <2>. HIDE DEF S, Stored
  <2>. QED BY <1>4, <1>0
<1>6. Is(after)
  BY <1>5, Zenon
<1>7. FileInitialized(file, v) = after[N]
  BY DEF FileInitialized
<1>. HIDE DEF after
<1>8. after[0] = v /\ \A i \in 1 .. N : after[i] = Stored(i, after[i - 1])
  <2>. HIDE DEF Stored
  <2>. QED BY <1>6, <1>0
<1>9. ASSUME NEW i \in 0 .. N
      PROVE  IsClosed(Done(i), program)
  <2>. SUFFICES ASSUME NEW k \in Done(i), program.fields[k].init.kind = "reads"
                PROVE  PlaceOf(program, program.fields[k].init.name) \in Done(i)
    BY DEF IsClosed
  <2>. DEFINE j == PlaceOf(program, program.fields[k].init.name)
  <2>1. k \in 1 .. N
    BY <1>0 DEF PlacesIn
  <2>2. j \in 1 .. N /\ FieldOf(program, program.fields[k].init.name) = program.fields[j]
    BY <1>0, <2>1, ReadIs DEF IsCareful
  <2>3. MayRead(program, program.fields[k], program.fields[j])
    BY <1>0, <2>1, <2>2 DEF IsCareful, Careful, Fields
  <2>4. PlaceOf(program, program.fields[k].name) = k /\ PlaceOf(program, program.fields[j].name) = j
    <3>. HIDE DEF j
    <3>. QED BY <1>0, <2>1, <2>2 DEF IsCareful, IsStarted, PlaceOf
  <2>5. program.fields[j].file = program.fields[k].file /\ j < k
    BY <2>3, <2>4 DEF MayRead
  <2>. HIDE DEF j
  <2>6. ASSUME program.fields[k].file \in files
        PROVE  j \in Done(i)
    BY <1>0, <2>2, <2>5, <2>6 DEF PlacesIn
  <2>7. ASSUME program.fields[k].file \notin files
        PROVE  j \in Done(i)
    <3>1. k <= i /\ program.fields[k].file = file
      BY <2>7 DEF PlacesIn
    <3>2. j \in 1 .. i
      BY <3>1, <2>2, <2>1, <2>5, <1>0
    <3>. QED BY <3>1, <3>2, <2>5
  <2>8. j \in Done(i)
    BY <2>6, <2>7
  <2>. QED BY <2>8 DEF j
<1>. DEFINE T == {n \in Nat : n \in 0 .. N => after[n] \in S /\ SettledIn(after[n], program, Done(n))}
<1>10. Nat \subseteq T
  <2>1. 0 \in T
    <3>1. Done(0) = PlacesIn(program, files)
      OBVIOUS
    <3>2. v \in S /\ SettledIn(v, program, Done(0))
      BY <3>1
    <3>. HIDE DEF Done, S, Stored
    <3>3. after[0] \in S /\ SettledIn(after[0], program, Done(0))
      BY <3>2, <1>8
    <3>. QED BY <3>3
  <2>2. ASSUME NEW n \in Nat, n \in T
        PROVE  n + 1 \in T
    <3>1. SUFFICES ASSUME n + 1 \in 0 .. N
                   PROVE  after[n + 1] \in S /\ SettledIn(after[n + 1], program, Done(n + 1))
      OBVIOUS
    <3>2. n \in 0 .. N /\ n + 1 \in 1 .. N /\ (n + 1) - 1 = n
      BY <1>0, <3>1
    <3>3. after[n] \in S /\ SettledIn(after[n], program, Done(n))
      BY <2>2, <3>2
    <3>4. after[n + 1] = Stored(n + 1, after[n])
      BY <1>8, <3>2
    <3>5. after[n + 1] \in S
      <4>. HIDE DEF S, Stored
      <4>. QED BY <1>1, <3>2, <3>3, <3>4
    <3>6. CASE program.fields[n + 1].file # file
      <4>1. Done(n + 1) = Done(n)
        BY <3>2, <3>6
      <4>2. after[n + 1] = after[n]
        BY <3>4, <3>6
      <4>. QED BY <3>3, <3>5, <4>1, <4>2
    <3>7. CASE program.fields[n + 1].file = file
      <4>1. Done(n + 1) = Done(n) \cup {n + 1}
        BY <3>2, <3>7
      <4>2. n + 1 \in DOMAIN program.fields \ Done(n) /\ Done(n) \in SUBSET DOMAIN program.fields
        BY <1>0, <3>2, <3>7 DEF PlacesIn
      <4>3. IsClosed(Done(n), program) /\ IsClosed(Done(n + 1), program)
        BY <1>9, <3>2
      <4>4. after[n + 1] = [after[n] EXCEPT ![program.fields[n + 1].name] = Evaluated(after[n], program.fields[n + 1])]
        BY <3>4, <3>7
      <4>5. SettledIn(after[n + 1], program, Done(n + 1))
        <5>1. \A D \in SUBSET DOMAIN program.fields : \A i \in DOMAIN program.fields \ D :
                IsClosed(D, program) /\ IsClosed(D \cup {i}, program) =>
                  \A x : SettledIn(x, program, D) =>
                    SettledIn([x EXCEPT ![program.fields[i].name] = Evaluated(x, program.fields[i])], program, D \cup {i})
          BY OneSettled
        <5>. HIDE DEF Done
        <5>2. IsClosed(Done(n) \cup {n + 1}, program)
          BY <4>1, <4>3
        <5>3. SettledIn([after[n] EXCEPT ![program.fields[n + 1].name] = Evaluated(after[n], program.fields[n + 1])],
                        program, Done(n) \cup {n + 1})
          BY <3>3, <4>2, <4>3, <5>1, <5>2
        <5>. QED BY <4>1, <4>4, <5>3
      <4>. QED BY <3>5, <4>5
    <3>. QED BY <3>6, <3>7
  <2>. HIDE DEF T
  <2>. QED BY <2>1, <2>2, SetInduction
<1>11. after[N] \in S /\ SettledIn(after[N], program, Done(N))
  <2>1. N \in 0 .. N
    BY <1>0
  <2>. HIDE DEF S, Done
  <2>. QED BY <1>0, <1>10, <2>1
<1>12. Done(N) = PlacesIn(program, files \cup {file})
  BY <1>0 DEF PlacesIn
<1>. QED BY <1>7, <1>11, <1>12

(* An order of a finite set has each of its elements. *)
LEMMA OrdersAreComplete ==
  ASSUME NEW files, IsFiniteSet(files), NEW s \in Orders(files)
  PROVE  files = {s[i] : i \in 1 .. Cardinality(files)}
<1>. DEFINE n == Cardinality(files)
<1>1. n \in Nat /\ IsFiniteSet(1 .. n) /\ Cardinality(1 .. n) = n
  <2>1. n \in Nat
    BY FS_CardinalityType
  <2>. HIDE DEF n
  <2>2. IsFiniteSet(1 .. n) /\ Cardinality(1 .. n) = IF 1 > n THEN 0 ELSE n - 1 + 1
    BY <2>1, FS_Interval
  <2>. QED BY <2>1, <2>2
<1>2. s \in Injection(1 .. n, files)
  BY DEF Orders, Injection, IsInjective
<1>3. s \in Surjection(1 .. n, files)
  <2>. HIDE DEF n
  <2>1. Cardinality(1 .. n) = Cardinality(files)
    BY <1>1 DEF n
  <2>. QED BY <1>2, <2>1, FS_Injection
<1>. QED BY <1>3 DEF Surjection

(* In the end every field has its value. *)
LEMMA AllSettled ==
  ASSUME StartupCareless = {}, IsCareful(program),
         instances \in Orders({f.file : f \in Fields(program)}), NEW v, v = [n \in Names(program) |-> 0]
  PROVE  SettledIn(Initialized(v), program, DOMAIN program.fields)
<1>. DEFINE files == {f.file : f \in Fields(program)}
            N == Len(instances)
            S == [Names(program) -> FieldValues(program)]
            Done(k) == {instances[m] : m \in 1 .. k}
<1>1. IsFiniteSet(files)
  <2>1. Len(program.fields) \in Nat /\ DOMAIN program.fields = 1 .. Len(program.fields)
    BY DEF IsCareful, IsStarted
  <2>2. IsFiniteSet(1 .. Len(program.fields))
    BY <2>1, FS_Interval
  <2>. DEFINE of == [i \in 1 .. Len(program.fields) |-> program.fields[i].file]
  <2>3. of \in Surjection(1 .. Len(program.fields), files)
    BY <2>1 DEF Fields, Surjection
  <2>. QED BY <2>2, <2>3, FS_Surjection
<1>2. /\ N \in Nat /\ DOMAIN instances = 1 .. N /\ files = Done(N)
      /\ \A i, j \in 1 .. N : instances[i] = instances[j] => i = j
  <2>. HIDE DEF files
  <2>1. Cardinality(files) \in Nat
    BY <1>1, FS_CardinalityType
  <2>2. instances \in [1 .. Cardinality(files) -> files] /\ \A i, j \in DOMAIN instances : instances[i] = instances[j] => i = j
    BY DEF Orders, files
  <2>3. N = Cardinality(files)
    BY <2>1, <2>2
  <2>4. files = {instances[i] : i \in 1 .. Cardinality(files)}
    BY <1>1, OrdersAreComplete DEF files
  <2>. QED BY <2>1, <2>2, <2>3, <2>4
<1>3. v \in S /\ SettledIn(v, program, PlacesIn(program, {}))
  BY DEF FieldValues, SettledIn, PlacesIn, Names, Fields
<1>. DEFINE Good(x, k) == x \in S /\ SettledIn(x, program, PlacesIn(program, Done(k)))
<1>4. ASSUME NEW k \in 1 .. N, NEW x, Good(x, k - 1)
      PROVE  Good(FileInitialized(instances[k], x), k)
  <2>1. instances[k] \notin Done(k - 1)
    BY <1>2
  <2>2. Done(k) = Done(k - 1) \cup {instances[k]}
    BY <1>2
  <2>. HIDE DEF Done
  <2>. QED BY <1>4, <2>1, <2>2, FileSettled
<1>. DEFINE step == [q \in (1 .. N) \X S |-> IF Good(q[2], q[1] - 1) THEN FileInitialized(instances[q[1]], q[2]) ELSE q[2]]
            Is(g) == g = [k \in 0 .. N |-> IF k = 0 THEN v ELSE FileInitialized(instances[k], g[k - 1])]
            after == CHOOSE g : Is(g)
<1>5. step \in [(1 .. N) \X S -> S]
  <2>1. \A k \in 1 .. N, x \in S : Good(x, k - 1) => FileInitialized(instances[k], x) \in S
    BY <1>4
  <2>. HIDE DEF S, N, Good
  <2>. QED BY <2>1
<1>6. PICK g : IsNumbered(g, S, v, N, step)
  <2>. HIDE DEF N, S, step
  <2>. QED BY <1>2, <1>3, <1>5, NumberedIteration
<1>7. g \in [0 .. N -> S] /\ g[0] = v
  BY <1>6 DEF IsNumbered
<1>8. ASSUME NEW k \in 1 .. N, Good(g[k - 1], k - 1)
      PROVE  g[k] = FileInitialized(instances[k], g[k - 1])
  <2>1. k - 1 \in 0 .. N
    BY <1>2
  <2>2. <<k, g[k - 1]>> \in (1 .. N) \X S
    BY <1>7, <2>1
  <2>. HIDE DEF S, N, Good
  <2>3. g[k] = step[<<k, g[k - 1]>>]
    BY <1>6 DEF IsNumbered
  <2>4. step[<<k, g[k - 1]>>] = FileInitialized(instances[k], g[k - 1])
    BY <1>8, <2>2
  <2>. QED BY <2>3, <2>4
<1>. DEFINE T == {n \in Nat : n \in 0 .. N => Good(g[n], n)}
<1>9. Nat \subseteq T
  <2>1. 0 \in T
    <3>1. Done(0) = {}
      OBVIOUS
    <3>2. Good(v, 0)
      BY <1>3, <3>1
    <3>. HIDE DEF Good
    <3>3. Good(g[0], 0)
      BY <1>7, <3>2
    <3>. QED BY <3>3
  <2>2. ASSUME NEW n \in Nat, n \in T
        PROVE  n + 1 \in T
    <3>. HIDE DEF Good
    <3>1. SUFFICES ASSUME n + 1 \in 0 .. N
                   PROVE  Good(g[n + 1], n + 1)
      OBVIOUS
    <3>2. n \in 0 .. N /\ n + 1 \in 1 .. N /\ (n + 1) - 1 = n
      BY <1>2, <3>1
    <3>3. Good(g[n], n)
      BY <2>2, <3>2
    <3>4. g[n + 1] = FileInitialized(instances[n + 1], g[n])
      BY <1>8, <3>2, <3>3
    <3>5. Good(FileInitialized(instances[n + 1], g[n]), n + 1)
      BY <1>4, <3>2, <3>3
    <3>. QED BY <3>4, <3>5
  <2>. HIDE DEF T
  <2>. QED BY <2>1, <2>2, SetInduction
<1>10. \A k \in 0 .. N : Good(g[k], k)
  <2>. HIDE DEF Good
  <2>. QED BY <1>9, <1>2
<1>. HIDE DEF Good
<1>11. \A k \in 1 .. N : k - 1 \in 0 .. N /\ g[k] = FileInitialized(instances[k], g[k - 1])
  BY <1>2, <1>8, <1>10
<1>12. Is(g)
  <2>. HIDE DEF S
  <2>. QED BY <1>2, <1>7, <1>11
<1>13. Is(after)
  BY <1>12, Zenon
<1>14. Initialized(v) = after[N]
  BY DEF Initialized
<1>. HIDE DEF after
<1>15. after[0] = v /\ \A k \in 1 .. N : after[k] = FileInitialized(instances[k], after[k - 1])
  BY <1>13, <1>2
<1>. DEFINE U == {n \in Nat : n \in 0 .. N => after[n] = g[n]}
<1>16. Nat \subseteq U
  <2>1. 0 \in U
    BY <1>7, <1>15
  <2>2. ASSUME NEW n \in Nat, n \in U
        PROVE  n + 1 \in U
    <3>1. SUFFICES ASSUME n + 1 \in 0 .. N
                   PROVE  after[n + 1] = g[n + 1]
      OBVIOUS
    <3>2. n \in 0 .. N /\ n + 1 \in 1 .. N /\ (n + 1) - 1 = n
      BY <1>2, <3>1
    <3>3. after[n] = g[n]
      BY <2>2, <3>2
    <3>. QED BY <1>11, <1>15, <3>2, <3>3
  <2>. HIDE DEF U
  <2>. QED BY <2>1, <2>2, SetInduction
<1>17. Good(Initialized(v), N)
  <2>1. N \in 0 .. N
    BY <1>2
  <2>2. after[N] = g[N]
    BY <1>2, <1>16, <2>1
  <2>. QED BY <1>10, <1>14, <2>1, <2>2
<1>18. PlacesIn(program, Done(N)) = DOMAIN program.fields
  <2>1. \A i \in DOMAIN program.fields : program.fields[i].file \in files
    BY DEF Fields
  <2>. HIDE DEF files, Done
  <2>. QED BY <1>2, <2>1 DEF PlacesIn
<1>19. SettledIn(Initialized(v), program, PlacesIn(program, Done(N)))
  BY <1>17 DEF Good
<1>. QED BY <1>18, <1>19

----------------------------------------
(* A field that is settled has the value the property asks for. *)
LEMMA SettledIsValue ==
  ASSUME IsCareful(program), SettledIn(shared, program, DOMAIN program.fields), NEW f \in Fields(program)
  PROVE  shared[f.name] = ValueOf(f)
<1>1. PICK i \in DOMAIN program.fields : f = program.fields[i]
  BY DEF Fields
<1>2. IsSettled(shared, program, i)
  BY <1>1 DEF SettledIn
<1>. QED BY <1>1, <1>2 DEF IsSettled, ValueOf

(* The frame of main before it is called. *)
FieldInMainFrame(i) == IF FrameFields[i] = "args" THEN ArgumentsAre(args_array) ELSE Zero
IsMainFrame ==
  /\ data = [function |-> "main", thread_stack |-> "stack", fields |-> data.fields]
  /\ data.fields = [i \in DOMAIN FrameFields |-> FieldInMainFrame(i)]

LEMMA FrameFieldsAre ==
  ASSUME program.returns \in BOOLEAN, program.takes_args \in BOOLEAN
  PROVE  /\ DOMAIN FrameFields = 1 .. Len(FrameFields)
         /\ program.returns => 2 \in DOMAIN FrameFields
         /\ program.takes_args => \A i \in DOMAIN FrameFields : FrameFields[i] = "args" <=> i = ArgsField
         /\ ~program.takes_args => \A i \in DOMAIN FrameFields : FrameFields[i] # "args"
<1>1. CASE program.returns /\ program.takes_args
  <2>1. DOMAIN FrameFields = 1 .. 3 /\ Len(FrameFields) = 3 /\ FrameFields[1] = "function" /\ FrameFields[2] = "ret" /\ FrameFields[3] = "args"
    BY <1>1 DEF FrameFields
  <2>. QED BY <1>1, <2>1 DEF ArgsField
<1>2. CASE program.returns /\ ~program.takes_args
  <2>1. DOMAIN FrameFields = 1 .. 2 /\ Len(FrameFields) = 2 /\ FrameFields[1] = "function" /\ FrameFields[2] = "ret"
    BY <1>2 DEF FrameFields
  <2>. QED BY <1>2, <2>1 DEF ArgsField
<1>3. CASE ~program.returns /\ program.takes_args
  <2>1. DOMAIN FrameFields = 1 .. 2 /\ Len(FrameFields) = 2 /\ FrameFields[1] = "function" /\ FrameFields[2] = "args"
    BY <1>3 DEF FrameFields
  <2>. QED BY <1>3, <2>1 DEF ArgsField
<1>4. CASE ~program.returns /\ ~program.takes_args
  <2>1. FrameFields = <<"function">>
    BY <1>4 DEF FrameFields
  <2>. QED BY <1>4, <2>1 DEF ArgsField
<1>. QED BY <1>1, <1>2, <1>3, <1>4

(* How far a program is, and what it has by then. *)
BeforeGlobals == {"heads", "stack", "args", "globals"}
ProgramIsSound ==
  /\ IsCareful(program) /\ instances \in Orders({f.file : f \in Fields(program)})
  /\ program.form = "tests" => phase \notin {"args", "frame", "call", "catch"}
SharedIsSound ==
  /\ phase \in BeforeGlobals => shared = [n \in Names(program) |-> 0]
  /\ phase \in {"frame", "files"} => SettledIn(shared, program, DOMAIN program.fields)
StackIsSound ==
  /\ program.form = "main" /\ phase # "heads" => heads
  /\ phase \in {"args", "globals"} => HeaderIsWhole
  /\ phase \in {"frame", "call"} /\ program.fields = << >> => HeaderIsWhole
ArgumentsAreSound ==
  program.form = "main" /\ program.takes_args /\ phase \in {"globals", "frame", "call"} =>
    args_array.length = Len(program.argv) /\ args_array.strings = program.argv
ExitIsSound ==
  IF phase = "exit"
  THEN /\ exit_code = IF outcome.fails THEN 1 ELSE IF program.returns THEN outcome.ret ELSE 0
       /\ freed_message = IF outcome.fails THEN 1 ELSE 0
       /\ (report # << >>) = outcome.fails
  ELSE report = << >> /\ freed_message = 0
EndIsSound ==
  /\ phase = "call" => IsMainFrame
  /\ phase = "catch" => outcome.fails \in BOOLEAN /\ (program.returns /\ ~outcome.fails => data.fields[2].value = outcome.ret)
  /\ program.form = "main" => ExitIsSound
StartupInv == ProgramIsSound /\ SharedIsSound /\ StackIsSound /\ ArgumentsAreSound /\ EndIsSound

LEMMA StartupBegins ==
  ASSUME StartupCareless = {}, ProgramInit
  PROVE  StartupInv
<1>. USE DEF ProgramInit, StartupInit
<1>1. program \in Programs /\ Careful(program) /\ IsStarted(program)
  BY StartupAssumption
<1>2. ProgramIsSound
  BY <1>1 DEF ProgramIsSound, IsCareful
<1>3. SharedIsSound
  BY DEF SharedIsSound, Names
<1>4. StackIsSound /\ ArgumentsAreSound /\ EndIsSound
  BY DEF StackIsSound, ArgumentsAreSound, EndIsSound, ExitIsSound
<1>. QED BY <1>2, <1>3, <1>4 DEF StartupInv

(* What a step of startup does is what the next part may rely on. *)
LEMMA StartupGoesOn ==
  ASSUME StartupCareless = {}, StartupInv, StartupNext
  PROVE  StartupInv'
<1>1. IsStarted(program) /\ program.form \in {"main", "tests"} /\ program.returns \in BOOLEAN /\ program.takes_args \in BOOLEAN
  BY DEF StartupInv, ProgramIsSound, IsCareful, IsStarted
<1>2. program' = program /\ instances' = instances
  BY DEF StartupNext, init_heads, MakeThreadStack, TakeArguments, init_global_variables, StoreMainFrame, MainCatch, CallMain
<1>3. program.form = "tests" => phase' \notin {"args", "frame", "call", "catch"}
  BY <1>1 DEF StartupNext, init_heads, MakeThreadStack, TakeArguments, init_global_variables, StoreMainFrame, MainCatch,
     CallMain, StartupInv, ProgramIsSound
<1>4. ProgramIsSound'
  BY <1>2, <1>3 DEF StartupInv, ProgramIsSound
<1>5. SharedIsSound'
  <2>1. Names(program') = Names(program) /\ DOMAIN program'.fields = DOMAIN program.fields
    BY <1>2
  <2>2. CASE init_global_variables
    <3>1. shared = [n \in Names(program) |-> 0] /\ shared' = Initialized(shared) /\ phase' \in {"frame", "files"}
      BY <2>2 DEF init_global_variables, StartupInv, SharedIsSound, BeforeGlobals
    <3>2. SettledIn(shared', program, DOMAIN program.fields)
      BY <3>1, AllSettled DEF StartupInv, ProgramIsSound
    <3>. QED BY <1>2, <3>1, <3>2 DEF SharedIsSound, BeforeGlobals
  <2>3. CASE ~init_global_variables
    <3>1. /\ shared' = shared /\ phase' \notin {"files"}
          /\ phase' \in BeforeGlobals => phase \in BeforeGlobals
          /\ phase' # "frame"
      BY <1>1, <2>3 DEF StartupNext, init_heads, MakeThreadStack, TakeArguments, StoreMainFrame, MainCatch, CallMain, BeforeGlobals
    <3>. QED BY <1>2, <3>1 DEF StartupInv, SharedIsSound
  <2>. QED BY <2>2, <2>3
<1>6. StackIsSound'
  <2>1. CASE init_heads
    BY <1>2, <2>1 DEF init_heads, StackIsSound, StartupInv
  <2>2. CASE MakeThreadStack
    BY <1>2, <2>2 DEF MakeThreadStack, StackIsSound, StartupInv, HeaderIsWhole
  <2>3. CASE TakeArguments
    BY <1>2, <2>3 DEF TakeArguments, StackIsSound, StartupInv, HeaderIsWhole
  <2>4. CASE init_global_variables
    BY <1>2, <2>4 DEF init_global_variables, StackIsSound, StartupInv, HeaderIsWhole
  <2>5. CASE StoreMainFrame
    BY <1>2, <2>5 DEF StoreMainFrame, StackIsSound, StartupInv, HeaderIsWhole
  <2>6. CASE MainCatch \/ \E fails \in BOOLEAN, ret \in Results : CallMain(fails, ret)
    <3>1. phase' \in {"catch", "exit"} /\ heads' = heads /\ phase # "heads"
      BY <2>6 DEF MainCatch, CallMain
    <3>. QED BY <1>2, <3>1 DEF StackIsSound, StartupInv
  <2>. QED BY <2>1, <2>2, <2>3, <2>4, <2>5, <2>6 DEF StartupNext
<1>7. ArgumentsAreSound'
  <2>1. CASE init_heads
    BY <2>1 DEF init_heads, ArgumentsAreSound
  <2>2. CASE MakeThreadStack
    BY <1>2, <2>2 DEF MakeThreadStack, ArgumentsAreSound
  <2>3. CASE TakeArguments
    BY <1>2, <2>3 DEF TakeArguments, ArgumentsAreSound
  <2>4. CASE init_global_variables
    BY <1>2, <2>4 DEF init_global_variables, ArgumentsAreSound, StartupInv
  <2>5. CASE StoreMainFrame
    BY <1>2, <2>5 DEF StoreMainFrame, ArgumentsAreSound, StartupInv
  <2>6. CASE MainCatch \/ \E fails \in BOOLEAN, ret \in Results : CallMain(fails, ret)
    <3>1. phase' \in {"catch", "exit"}
      BY <2>6 DEF MainCatch, CallMain
    <3>. QED BY <3>1 DEF ArgumentsAreSound
  <2>. QED BY <2>1, <2>2, <2>3, <2>4, <2>5, <2>6 DEF StartupNext
<1>8. EndIsSound'
  <2>1. CASE init_heads \/ MakeThreadStack \/ TakeArguments \/ init_global_variables
    <3>1. /\ phase # "exit" /\ phase' \notin {"exit", "call", "catch"}
          /\ report' = report /\ freed_message' = freed_message
      BY <1>1, <2>1 DEF init_heads, MakeThreadStack, TakeArguments, init_global_variables
    <3>. QED BY <1>2, <3>1 DEF StartupInv, EndIsSound, ExitIsSound
  <2>2. CASE StoreMainFrame
    <3>1. /\ phase # "exit" /\ phase' = "call"
          /\ report' = report /\ freed_message' = freed_message /\ args_array' = args_array
      BY <2>2 DEF StoreMainFrame
    <3>2. ExitIsSound' \/ program.form # "main"
      BY <3>1 DEF StartupInv, EndIsSound, ExitIsSound
    <3>. DEFINE zeros == [i \in DOMAIN FrameFields |-> Zero]
                loaded == [function |-> "main", thread_stack |-> "stack", fields |-> zeros]
    <3>3. data' = IF program.takes_args THEN [loaded EXCEPT !.fields[ArgsField] = ArgumentsAre(args_array)] ELSE loaded
      <4>1. DefaultFrame("main") = [function |-> "main", thread_stack |-> NotSet, fields |-> zeros]
        BY DEF DefaultFrame
      <4>. HIDE DEF zeros
      <4>2. [DefaultFrame("main") EXCEPT !.thread_stack = "stack"] = loaded
        BY <4>1
      <4>. QED BY <2>2, <4>2 DEF StoreMainFrame
    <3>4. /\ data' = [function |-> "main", thread_stack |-> "stack", fields |-> data'.fields]
          /\ data'.fields = IF program.takes_args THEN [zeros EXCEPT ![ArgsField] = ArgumentsAre(args_array)] ELSE zeros
      <4>. HIDE DEF zeros
      <4>. QED BY <3>3
    <3>5. data'.fields = [i \in DOMAIN FrameFields |-> FieldInMainFrame(i)]
      BY <1>1, <3>4, FrameFieldsAre DEF FieldInMainFrame
    <3>6. FrameFields' = FrameFields /\ \A i : FieldInMainFrame(i)' = FieldInMainFrame(i)
      BY <1>2, <3>1 DEF FrameFields, FieldInMainFrame
    <3>7. IsMainFrame'
      BY <3>4, <3>5, <3>6 DEF IsMainFrame
    <3>. QED BY <1>2, <3>1, <3>2, <3>7 DEF EndIsSound
  <2>3. ASSUME NEW fails \in BOOLEAN, NEW ret \in Results, CallMain(fails, ret)
        PROVE  EndIsSound'
    <3>1. /\ phase = "call" /\ phase' = "catch" /\ outcome'.fails = fails /\ outcome'.ret = ret
          /\ report' = report /\ freed_message' = freed_message
      BY <2>3 DEF CallMain
    <3>2. program.returns /\ ~fails => data'.fields[2].value = ret
      <4>1. IsMainFrame
        BY <3>1 DEF StartupInv, EndIsSound
      <4>2. program.returns => 2 \in DOMAIN data.fields
        BY <1>1, <4>1, FrameFieldsAre DEF IsMainFrame
      <4>3. "fields" \in DOMAIN data
        BY <4>1 DEF IsMainFrame
      <4>. QED BY <2>3, <4>2, <4>3 DEF CallMain, ResultIs
    <3>. QED BY <1>2, <3>1, <3>2 DEF StartupInv, EndIsSound, ExitIsSound
  <2>4. CASE MainCatch
    <3>1. phase = "catch" /\ phase' = "exit" /\ outcome' = outcome
      BY <2>4 DEF MainCatch
    <3>2. program.form = "main"
      BY <1>1, <3>1 DEF StartupInv, ProgramIsSound
    <3>3. /\ outcome.fails \in BOOLEAN /\ (program.returns /\ ~outcome.fails => data.fields[2].value = outcome.ret)
          /\ report = << >> /\ freed_message = 0
      BY <3>1, <3>2 DEF StartupInv, EndIsSound, ExitIsSound
    <3>4. <<"type", "value", "message">> # << >>
      OBVIOUS
    <3>5. ExitIsSound'
      BY <1>2, <2>4, <3>1, <3>3, <3>4 DEF MainCatch, ExitIsSound
    <3>. QED BY <3>1, <3>5 DEF EndIsSound
  <2>. QED BY <2>1, <2>2, <2>3, <2>4 DEF StartupNext
<1>. QED BY <1>4, <1>5, <1>6, <1>7, <1>8 DEF StartupInv

(* The runner of the tests does not go back to it. *)
LEMMA RunnerGoesOn ==
  ASSUME StartupInv, program.form = "tests", RunnerNext
  PROVE  StartupInv'
<1>1. /\ program' = program /\ instances' = instances
      /\ phase' \in {"file", "prepare", "run", "verdict", "output", "perf", "merge", "end", "exit"}
  BY DEF RunnerNext, NoTests, SortTests, PrintFile, PrepareTest, RunTest, PrintVerdict, PrintOutput, PrintPerf, NextTest, EndTests
<1>2. ProgramIsSound'
  BY <1>1 DEF StartupInv, ProgramIsSound
<1>3. SharedIsSound' /\ StackIsSound' /\ ArgumentsAreSound' /\ EndIsSound'
  BY <1>1 DEF SharedIsSound, StackIsSound, ArgumentsAreSound, EndIsSound, BeforeGlobals
<1>. QED BY <1>2, <1>3 DEF StartupInv

LEMMA StartupStutters ==
  ASSUME StartupInv, UNCHANGED startup_vars
  PROVE  StartupInv'
<1>1. ProgramIsSound' /\ SharedIsSound'
  BY DEF startup_vars, StartupInv, ProgramIsSound, SharedIsSound
<1>2. StackIsSound' /\ ArgumentsAreSound'
  BY DEF startup_vars, StartupInv, StackIsSound, ArgumentsAreSound, HeaderIsWhole
<1>3. EndIsSound'
  BY DEF startup_vars, StartupInv, EndIsSound, ExitIsSound, IsMainFrame, FrameFields, FieldInMainFrame
<1>. QED BY <1>1, <1>2, <1>3 DEF StartupInv

(* From StartupInv. *)
LEMMA StartupIsWhole ==
  ASSUME StartupInv
  PROVE  ProgramsStartWhole
<1>1. program.form \in {"main", "tests"} /\ program.returns \in BOOLEAN /\ program.takes_args \in BOOLEAN
  BY DEF StartupInv, ProgramIsSound, IsCareful, IsStarted
<1>2. phase \in {"frame", "files"} => \A f \in Fields(program) : shared[f.name] = ValueOf(f)
  BY SettledIsValue DEF StartupInv, ProgramIsSound, SharedIsSound
<1>3. ASSUME phase = "call"
      PROVE  /\ heads
             /\ data.function = "main" /\ data.thread_stack = "stack"
             /\ \A i \in DOMAIN data.fields :
                  data.fields[i] = IF FrameFields[i] = "args" THEN ArgumentsAre(args_array) ELSE Zero
             /\ program.takes_args => args_array.length = Len(program.argv) /\ args_array.strings = program.argv
             /\ program.fields = << >> => HeaderIsWhole
  <2>1. program.form = "main"
    BY <1>1, <1>3 DEF StartupInv, ProgramIsSound
  <2>2. IsMainFrame
    BY <1>3 DEF StartupInv, EndIsSound
  <2>3. data.function = "main" /\ data.thread_stack = "stack"
    BY <2>2 DEF IsMainFrame
  <2>4. \A i \in DOMAIN data.fields : data.fields[i] = FieldInMainFrame(i)
    BY <2>2 DEF IsMainFrame
  <2>. QED BY <1>3, <2>1, <2>3, <2>4 DEF StartupInv, StackIsSound, ArgumentsAreSound, FieldInMainFrame
<1>4. phase = "exit" /\ program.form = "main" => ExitIsSound
  BY DEF StartupInv, EndIsSound
<1>. QED BY <1>2, <1>3, <1>4 DEF ProgramsStartWhole, ExitIsSound

(* For every program, whatever the order in which its files were parsed:
   when main is entered the shared data has its values and the frame of
   main its arguments, and the program exits with what main ended with, as
   long as no initializer does what StartupCareless lists. *)
THEOREM ProgramsBeginWhole ==
  ASSUME StartupCareless = {}
  PROVE  ProgramSpec => []ProgramsStartWhole
<1>1. ProgramInit => StartupInv
  BY StartupBegins
<1>2. StartupInv /\ [ProgramNext]_<<startup_vars, runner_vars>> => StartupInv'
  BY StartupGoesOn, RunnerGoesOn, StartupStutters DEF ProgramNext
<1>3. StartupInv => ProgramsStartWhole
  BY StartupIsWhole
<1>. QED BY <1>1, <1>2, <1>3, PTL DEF ProgramSpec
=============================================================================
