---------------------------- MODULE StringsProofs ----------------------------
(***************************************************************************)
(* Proofs about the strings of generated programs, for any variables, any  *)
(* literals and any lengths.  The invariant says who owns every live       *)
(* block: each belongs to exactly one of a variable, an operand, the       *)
(* garbage of the statement and the blocks the code loses, and what an     *)
(* operand stands for is the text of its block.  The theorems are about    *)
(* programs in which malloc never fails (there are always blocks left),    *)
(* which append no string to itself, and which index strings only where a  *)
(* check is compiled in and there is a character (Careless is empty).      *)
(***************************************************************************)
EXTENDS Strings, DataTheorems, FiniteSetTheorems, TLAPS

----------------------------------------
(* The heap.  A block is free and empty, or holds a text. *)
LiveIn(h) == {b \in Blocks : h[b].live}

HeapIsSound(h) ==
  /\ h \in [Blocks -> [live : BOOLEAN, text : Seq(Chars)]]
  /\ \A b \in Blocks : Len(h[b].text) <= MaxLen /\ (~h[b].live => h[b].text = << >>)
  /\ IsFiniteSet(LiveIn(h))

(* The block has this text now. *)
Put(h, b, chars) == [h EXCEPT ![b] = [live |-> TRUE, text |-> chars]]

(* With infinitely many blocks malloc finds one that is free. *)
LEMMA FreshBlocks ==
  ASSUME ~IsFiniteSet(Blocks), NEW h, HeapIsSound(h)
  PROVE  Fresh(h) \in Blocks /\ h[Fresh(h)].live = FALSE /\ Fresh(h) # None
<1>1. \E b \in Blocks : ~h[b].live
  <2>1. CASE \A b \in Blocks : h[b].live
    <3>1. LiveIn(h) = Blocks
      BY <2>1 DEF LiveIn
    <3>. QED BY <3>1 DEF HeapIsSound
  <2>. QED BY <2>1
<1>2. Fresh(h) \in Blocks /\ ~h[Fresh(h)].live
  BY <1>1 DEF Fresh
<1>. QED BY <1>2, StringsAssumption DEF HeapIsSound

(* A text put into a block leaves the heap sound and the other blocks
   alone. *)
LEMMA PutIsSound ==
  ASSUME NEW h, HeapIsSound(h), NEW b \in Blocks, NEW chars \in Seq(Chars), Len(chars) <= MaxLen
  PROVE  /\ HeapIsSound(Put(h, b, chars))
         /\ \A c \in Blocks : Put(h, b, chars)[c] = IF c = b THEN [live |-> TRUE, text |-> chars] ELSE h[c]
<1>. DEFINE k == Put(h, b, chars)
<1>1. /\ k \in [Blocks -> [live : BOOLEAN, text : Seq(Chars)]]
      /\ \A c \in Blocks : k[c] = IF c = b THEN [live |-> TRUE, text |-> chars] ELSE h[c]
  BY DEF Put, HeapIsSound
<1>. HIDE DEF k
<1>2. LiveIn(k) = LiveIn(h) \cup {b}
  BY <1>1 DEF LiveIn
<1>3. IsFiniteSet(LiveIn(k))
  BY <1>2, FS_AddElement DEF HeapIsSound
<1>4. \A c \in Blocks : Len(k[c].text) <= MaxLen /\ (~k[c].live => k[c].text = << >>)
  BY <1>1 DEF HeapIsSound
<1>5. HeapIsSound(k)
  BY <1>1, <1>3, <1>4 DEF HeapIsSound
<1>. QED BY <1>1, <1>5 DEF k

(* Freeing a set of blocks empties them and leaves the others alone. *)
LEMMA FreedIsSound ==
  ASSUME NEW h, HeapIsSound(h), NEW F
  PROVE  /\ HeapIsSound(FreedAll(h, F))
         /\ \A c \in Blocks : FreedAll(h, F)[c] = IF c \in F THEN [live |-> FALSE, text |-> << >>] ELSE h[c]
<1>. DEFINE k == FreedAll(h, F)
<1>1. /\ k \in [Blocks -> [live : BOOLEAN, text : Seq(Chars)]]
      /\ \A c \in Blocks : k[c] = IF c \in F THEN [live |-> FALSE, text |-> << >>] ELSE h[c]
  BY DEF FreedAll, HeapIsSound
<1>. HIDE DEF k
<1>2. LiveIn(k) \subseteq LiveIn(h)
  BY <1>1 DEF LiveIn
<1>3. IsFiniteSet(LiveIn(k))
  BY <1>2, FS_Subset DEF HeapIsSound
<1>4. \A c \in Blocks : Len(k[c].text) <= MaxLen /\ (~k[c].live => k[c].text = << >>)
  <2>1. 0 <= MaxLen
    <3>1. MaxLen \in Nat
      BY StringsAssumption, Zenon
    <3>. QED BY <3>1
  <2>. QED BY <1>1, <2>1 DEF HeapIsSound
<1>5. HeapIsSound(k)
  BY <1>1, <1>3, <1>4 DEF HeapIsSound
<1>. QED BY <1>1, <1>5 DEF k

(* Freeing one block is freeing the set of it. *)
LEMMA OneFreed ==
  ASSUME NEW h, HeapIsSound(h), NEW b \in Blocks
  PROVE  Freed(h, b) = FreedAll(h, {b})
  BY DEF Freed, FreedAll, HeapIsSound

----------------------------------------
(* What the functions that make blocks do. *)
LEMMA CreatePuts ==
  ASSUME NEW h, HeapIsSound(h), Fresh(h) \in Blocks
  PROVE  create_str(h, 0) = Put(h, Fresh(h), << >>)
<1>1. [i \in 1 .. 0 |-> Junk] = << >>
  OBVIOUS
<1>. QED BY <1>1 DEF create_str, Put

(* The text of a block is replaced, its life is not. *)
Retext(k, b, t) == [k EXCEPT ![b].text = t]

(* Replacing the text just put is putting the other one. *)
LEMMA TextReplaced ==
  ASSUME NEW h, HeapIsSound(h), NEW b \in Blocks, NEW u, NEW t
  PROVE  Put(h, b, u)[b].text = u /\ Retext(Put(h, b, u), b, t) = Put(h, b, t)
<1>. DEFINE k == Put(h, b, u)
            l == Retext(k, b, t)
            m == Put(h, b, t)
<1>1. k[b] = [live |-> TRUE, text |-> u] /\ DOMAIN k = Blocks /\ \A c \in Blocks : c # b => k[c] = h[c]
  BY DEF HeapIsSound, Put
<1>. HIDE DEF k
<1>2. l[b] = [live |-> TRUE, text |-> t] /\ m[b] = [live |-> TRUE, text |-> t]
  <2>1. l[b] = [k[b] EXCEPT !.text = t]
    BY <1>1 DEF Retext
  <2>2. m[b] = [live |-> TRUE, text |-> t]
    BY DEF HeapIsSound, Put
  <2>3. [[live |-> TRUE, text |-> u] EXCEPT !.text = t] = [live |-> TRUE, text |-> t]
    <3>. DEFINE S == [live : BOOLEAN, text : {u, t}]
                v == [live |-> TRUE, text |-> u]
                w == [v EXCEPT !.text = t]
    <3>1. v \in S /\ [live |-> TRUE, text |-> t] \in S
      OBVIOUS
    <3>2. w \in S /\ w.live = v.live /\ w.text = t
      BY <3>1
    <3>. HIDE DEF v, w
    <3>3. w = [live |-> w.live, text |-> w.text]
      BY <3>2
    <3>. QED BY <3>2, <3>3 DEF v, w
  <2>4. k[b] = [live |-> TRUE, text |-> u]
    BY <1>1
  <2>. HIDE DEF l, m
  <2>5. l[b] = [live |-> TRUE, text |-> t]
    BY <2>1, <2>3, <2>4, Zenon
  <2>. QED BY <2>2, <2>5
<1>3. \A c \in Blocks : c # b => l[c] = h[c] /\ m[c] = h[c]
  BY <1>1 DEF HeapIsSound, Put, Retext
<1>4. l = [c \in Blocks |-> l[c]] /\ m = [c \in Blocks |-> m[c]]
  BY <1>1 DEF HeapIsSound, Put, Retext
<1>. HIDE DEF l, m
<1>5. \A c \in Blocks : l[c] = m[c]
  BY <1>2, <1>3
<1>6. l = m
  BY <1>4, <1>5
<1>. QED BY <1>1, <1>6 DEF k, l, m

(* A memcpy into a block just made puts the text with the copied places
   changed. *)
LEMMA CopiedIs ==
  ASSUME NEW h, HeapIsSound(h), NEW b \in Blocks, NEW u, NEW offset, NEW chars, NEW t,
         t = [i \in DOMAIN u |-> IF i - offset \in DOMAIN chars THEN chars[i - offset] ELSE u[i]]
  PROVE  Copied(Put(h, b, u), b, offset, chars) = Put(h, b, t)
<1>. DEFINE k == Put(h, b, u)
<1>1. k = [h EXCEPT ![b] = [live |-> TRUE, text |-> u]] /\ DOMAIN k = Blocks
  BY DEF Put, HeapIsSound
<1>. HIDE DEF k
<1>2. \A v : k[b].text = u /\ Retext(k, b, v) = Put(h, b, v)
  <2>1. ASSUME NEW v
        PROVE  k[b].text = u /\ Retext(k, b, v) = Put(h, b, v)
    BY TextReplaced DEF k
  <2>. QED BY <2>1
<1>3. k[b].text = u
  BY <1>2
<1>4. Copied(k, b, offset, chars) = Retext(k, b, t)
  BY <1>1, <1>3 DEF Copied, Retext
<1>. QED BY <1>2, <1>4 DEF k

(* init_str puts the literal's characters into a fresh block. *)
LEMMA InitPuts ==
  ASSUME NEW h, HeapIsSound(h), Fresh(h) \in Blocks, NEW chars \in Seq(Chars)
  PROVE  init_str(h, chars) = Put(h, Fresh(h), chars)
<1>. DEFINE junk == [i \in 1 .. Len(chars) |-> Junk]
            t == [i \in DOMAIN junk |-> IF i - 0 \in DOMAIN chars THEN chars[i - 0] ELSE junk[i]]
<1>1. t = chars
  OBVIOUS
<1>2. create_str(h, Len(chars)) = Put(h, Fresh(h), junk)
  BY DEF create_str, Put
<1>3. t = [i \in DOMAIN junk |-> IF i - 0 \in DOMAIN chars THEN chars[i - 0] ELSE junk[i]]
  OBVIOUS
<1>. HIDE DEF junk, t
<1>4. Copied(Put(h, Fresh(h), junk), Fresh(h), 0, chars) = Put(h, Fresh(h), t)
  BY <1>3, CopiedIs
<1>. QED BY <1>1, <1>2, <1>4 DEF init_str

(* Two copies, one behind the other. *)
LEMMA PlacedBehind ==
  ASSUME NEW first \in Seq(Chars), NEW chars \in Seq(Chars),
         NEW junk, junk = [i \in 1 .. Len(first) + Len(chars) |-> IF i \in DOMAIN first THEN first[i] ELSE Junk]
  PROVE  [i \in DOMAIN junk |-> IF i - Len(first) \in DOMAIN chars THEN chars[i - Len(first)] ELSE junk[i]]
           = first \o chars
<1>. DEFINE t == [i \in DOMAIN junk |->
                    IF i - Len(first) \in DOMAIN chars THEN chars[i - Len(first)] ELSE junk[i]]
<1>1. DOMAIN junk = 1 .. Len(first) + Len(chars)
  OBVIOUS
<1>2. ASSUME NEW i \in 1 .. Len(first) + Len(chars)
      PROVE  t[i] = (first \o chars)[i]
  <2>1. CASE i <= Len(first)
    <3>1. i \in DOMAIN first /\ i - Len(first) \notin DOMAIN chars /\ i \in DOMAIN junk
      BY <2>1
    <3>2. junk[i] = first[i]
      BY <3>1
    <3>3. (first \o chars)[i] = first[i]
      BY <3>1
    <3>. QED BY <3>1, <3>2, <3>3
  <2>2. CASE i > Len(first)
    <3>1. i - Len(first) \in DOMAIN chars /\ i \in DOMAIN junk
      BY <2>2
    <3>2. (first \o chars)[i] = chars[i - Len(first)]
      BY <2>2
    <3>. QED BY <3>1, <3>2
  <2>. QED BY <2>1, <2>2
<1>3. first \o chars = [i \in 1 .. Len(first) + Len(chars) |-> (first \o chars)[i]]
  <2>1. \A s \in Seq(Chars) : s = [i \in 1 .. Len(s) |-> s[i]]
    OBVIOUS
  <2>2. first \o chars \in Seq(Chars) /\ Len(first \o chars) = Len(first) + Len(chars)
    OBVIOUS
  <2>. QED BY <2>1, <2>2
<1>. HIDE DEF t
<1>4. t = [i \in 1 .. Len(first) + Len(chars) |-> t[i]]
  BY <1>1 DEF t
<1>5. t = first \o chars
  BY <1>2, <1>3, <1>4
<1>. QED BY <1>5 DEF t

(* The add functions put the text of the block and the characters behind
   it into a fresh block. *)
LEMMA AddPuts ==
  ASSUME NEW h, HeapIsSound(h), Fresh(h) \in Blocks, NEW b \in Blocks, NEW chars \in Seq(Chars)
  PROVE  add_str_lit(h, b, chars) = Put(h, Fresh(h), h[b].text \o chars)
<1>. DEFINE first == h[b].text
            n == Len(first) + Len(chars)
            none == [i \in 1 .. n |-> Junk]
            junk == [i \in 1 .. n |-> IF i \in DOMAIN first THEN first[i] ELSE Junk]
            f == Fresh(h)
            t == [i \in DOMAIN none |-> IF i - 0 \in DOMAIN first THEN first[i - 0] ELSE none[i]]
<1>1. first \in Seq(Chars)
  BY DEF HeapIsSound
<1>2. create_str(h, n) = Put(h, f, none)
  BY DEF create_str, Put
<1>3. t = junk
  BY <1>1
<1>4. t = [i \in DOMAIN none |-> IF i - 0 \in DOMAIN first THEN first[i - 0] ELSE none[i]]
  OBVIOUS
<1>5. junk = [i \in 1 .. Len(first) + Len(chars) |-> IF i \in DOMAIN first THEN first[i] ELSE Junk]
  OBVIOUS
<1>6. add_str_lit(h, b, chars) = Copied(Copied(Put(h, f, none), f, 0, first), f, Len(first), chars)
  BY <1>2 DEF add_str_lit, Text
<1>. HIDE DEF t, none, junk, first, f
<1>7. f \in Blocks
  BY DEF f
<1>8. Copied(Put(h, f, none), f, 0, first) = Put(h, f, t)
  BY <1>4, <1>7, CopiedIs
<1>9. Copied(Put(h, f, junk), f, Len(first), chars) = Put(h, f, first \o chars)
  <2>. DEFINE w == [i \in DOMAIN junk |-> IF i - Len(first) \in DOMAIN chars THEN chars[i - Len(first)] ELSE junk[i]]
  <2>1. w = first \o chars
    BY <1>1, <1>5, PlacedBehind
  <2>2. w = [i \in DOMAIN junk |-> IF i - Len(first) \in DOMAIN chars THEN chars[i - Len(first)] ELSE junk[i]]
    OBVIOUS
  <2>. HIDE DEF w
  <2>3. Copied(Put(h, f, junk), f, Len(first), chars) = Put(h, f, w)
    BY <1>7, <2>2, CopiedIs
  <2>. QED BY <2>1, <2>3
<1>. QED BY <1>3, <1>6, <1>8, <1>9 DEF f, first

(* append_str leaves the two texts one behind the other, in the old block
   or the one realloc moved to, whose predecessor is then free. *)
LEMMA AppendPuts ==
  ASSUME NEW h, HeapIsSound(h), Fresh(h) \in Blocks, NEW b \in Blocks, NEW c \in Blocks, NEW moves \in BOOLEAN
  PROVE  append_str(h, b, c, moves)
           = Put(IF moves THEN FreedAll(h, {b}) ELSE h, Moved(h, b, moves), h[b].text \o h[c].text)
<1>. DEFINE first == h[b].text
            chars == h[c].text
            n == Len(first) + Len(chars)
            junk == [i \in 1 .. n |-> IF i \in DOMAIN first THEN first[i] ELSE Junk]
            k == IF moves THEN FreedAll(h, {b}) ELSE h
            f == Moved(h, b, moves)
<1>1. first \in Seq(Chars) /\ chars \in Seq(Chars) /\ f \in Blocks
  BY DEF HeapIsSound, Moved
<1>2. HeapIsSound(k)
  BY FreedIsSound
<1>3. Reallocated(h, b, n, moves) = Put(k, f, junk)
  BY OneFreed DEF Reallocated, Text, Put
<1>4. append_str(h, b, c, moves) = Copied(Reallocated(h, b, n, moves), f, Len(first), chars)
  BY DEF append_str, Text
<1>5. junk = [i \in 1 .. Len(first) + Len(chars) |-> IF i \in DOMAIN first THEN first[i] ELSE Junk]
  OBVIOUS
<1>. HIDE DEF k, f, junk, first, chars
<1>6. Copied(Put(k, f, junk), f, Len(first), chars) = Put(k, f, first \o chars)
  <2>. DEFINE w == [i \in DOMAIN junk |-> IF i - Len(first) \in DOMAIN chars THEN chars[i - Len(first)] ELSE junk[i]]
  <2>1. w = first \o chars
    BY <1>1, <1>5, PlacedBehind
  <2>2. w = [i \in DOMAIN junk |-> IF i - Len(first) \in DOMAIN chars THEN chars[i - Len(first)] ELSE junk[i]]
    OBVIOUS
  <2>. HIDE DEF w
  <2>3. Copied(Put(k, f, junk), f, Len(first), chars) = Put(k, f, w)
    BY <1>1, <1>2, <2>2, CopiedIs
  <2>. QED BY <2>1, <2>3
<1>. QED BY <1>3, <1>4, <1>6 DEF k, f, first, chars

(* A slice that neither aborts nor leaves the string. *)
SliceText(text, from, to) ==
  LET real_to == SliceTo(Len(text), to)
      real_from == SliceFrom(from, real_to)
  IN IF from = real_to THEN << >> ELSE SubSeq(text, real_from + 1, real_to)

(* get_str_slice puts a part of the text into a fresh block; where the
   bounds are right it is the part they name. *)
LEMMA SlicePuts ==
  ASSUME NEW h, HeapIsSound(h), Fresh(h) \in Blocks, NEW b \in Blocks,
         NEW from \in Nat, NEW to \in Nat, ~SliceOutOfBounds(Len(h[b].text), from, to)
  PROVE  /\ get_str_slice(h, b, from, to) = Put(h, Fresh(h), SliceText(h[b].text, from, to))
         /\ SliceText(h[b].text, from, to) \in Seq(Chars)
         /\ Len(SliceText(h[b].text, from, to)) <= MaxLen
         /\ from <= to /\ to <= Len(h[b].text) =>
              SliceText(h[b].text, from, to) = SubSeq(h[b].text, from + 1, to)
<1>. DEFINE text == h[b].text
            real_to == SliceTo(Len(text), to)
            real_from == SliceFrom(from, real_to)
<1>1. text \in Seq(Chars) /\ Len(text) \in Nat /\ Len(text) <= MaxLen /\ MaxLen \in Nat
  <2>1. MaxLen \in Nat
    BY StringsAssumption, Zenon
  <2>. QED BY <2>1 DEF HeapIsSound
<1>2. from # real_to => 0 <= real_from /\ real_from <= real_to /\ real_to <= Len(text)
  BY DEF SliceOutOfBounds
<1>3. real_to \in Nat /\ real_from \in Int
  BY <1>1 DEF SliceTo, SliceFrom, OpenEnd
<1>4. from <= to /\ to <= Len(text) => real_to = to /\ real_from = from
  BY <1>1 DEF SliceTo, SliceFrom, OpenEnd
<1>5. SliceText(text, from, to) = IF from = real_to THEN << >> ELSE SubSeq(text, real_from + 1, real_to)
  BY DEF SliceText
<1>6. get_str_slice(h, b, from, to)
        = IF from = real_to THEN create_str(h, 0) ELSE init_str(h, SubSeq(text, real_from + 1, real_to))
  BY DEF get_str_slice, Text
<1>. HIDE DEF real_to, real_from, text
<1>7. CASE from = real_to
  <2>1. from <= to /\ to <= Len(text) => SubSeq(text, from + 1, to) = << >>
    BY <1>1, <1>4, <1>7
  <2>2. SliceText(text, from, to) = << >> /\ get_str_slice(h, b, from, to) = Put(h, Fresh(h), << >>)
    BY <1>5, <1>6, <1>7, CreatePuts
  <2>. QED BY <1>1, <2>1, <2>2 DEF text
<1>8. CASE from # real_to
  <2>. DEFINE s == SubSeq(text, real_from + 1, real_to)
  <2>1. s \in Seq(Chars) /\ Len(s) <= Len(text)
    BY <1>1, <1>2, <1>3, <1>8
  <2>2. SliceText(text, from, to) = s /\ get_str_slice(h, b, from, to) = init_str(h, s)
    BY <1>5, <1>6, <1>8
  <2>3. from <= to /\ to <= Len(text) => s = SubSeq(text, from + 1, to)
    BY <1>4
  <2>4. init_str(h, s) = Put(h, Fresh(h), s)
    BY <2>1, InitPuts
  <2>5. Len(s) <= MaxLen
    BY <1>1, <2>1
  <2>. HIDE DEF s
  <2>. QED BY <2>1, <2>2, <2>3, <2>4, <2>5 DEF text
<1>. QED BY <1>7, <1>8

----------------------------------------
(* Who owns the blocks: variables, operands, the garbage, or nobody. *)
HasVar(v, b) == \E x \in Vars : v[x] = b

Belong(h, v, T, g, l) ==
  /\ \A i \in {1, 2} : T[i] \subseteq Blocks
  /\ g \subseteq Blocks /\ l \subseteq Blocks
  /\ \A b \in Blocks : h[b].live <=> HasVar(v, b) \/ b \in T[1] \/ b \in T[2] \/ b \in g \/ b \in l
  /\ \A b \in Blocks : HasVar(v, b) => b \notin T[1] /\ b \notin T[2] /\ b \notin g /\ b \notin l
  /\ \A b \in Blocks : /\ b \in T[1] => b \notin T[2] /\ b \notin g /\ b \notin l
                       /\ b \in T[2] => b \notin g /\ b \notin l
                       /\ b \in g => b \notin l
  /\ \A x, y \in Vars : v[x] = v[y] /\ v[x] # None => x = y

(* A variable is given a block that no other variable has. *)
Injective(v) == \A x, y \in Vars : v[x] = v[y] /\ v[x] # None => x = y

(* The variable holds this block now. *)
Given(v, x, b) == [v EXCEPT ![x] = b]

(* A variable is given a block of its own and the others keep theirs. *)
LEMMA Restored ==
  ASSUME NEW v \in [Vars -> Blocks \cup {None}], Injective(v),
         NEW x \in Vars, NEW b \in Blocks, ~HasVar(v, b) \/ b = v[x]
  PROVE  /\ Given(v, x, b) \in [Vars -> Blocks \cup {None}] /\ Injective(Given(v, x, b))
         /\ Given(v, x, b)[x] = b /\ \A y \in Vars : y # x => Given(v, x, b)[y] = v[y]
         /\ \A c \in Blocks : HasVar(Given(v, x, b), c) <=> c = b \/ (HasVar(v, c) /\ c # v[x])
<1>. DEFINE w == Given(v, x, b)
<1>1. None \notin Blocks
  BY StringsAssumption, Zenon
<1>2. w[x] = b /\ w \in [Vars -> Blocks \cup {None}] /\ \A y \in Vars : y # x => w[y] = v[y]
  BY DEF Given
<1>. HIDE DEF w
<1>3. \A c \in Blocks : HasVar(w, c) <=> c = b \/ (HasVar(v, c) /\ c # v[x])
  BY <1>1, <1>2 DEF HasVar, Injective
<1>4. Injective(w)
  BY <1>2 DEF HasVar, Injective
<1>. QED BY <1>2, <1>3, <1>4 DEF w

----------------------------------------
(* Operands, and what they own. *)
OperandKinds == {"variable", "literal", "sum", "interpolation", "slice"}
OperandSet == [kind : OperandKinds, block : Blocks, late : SUBSET Blocks, text : Seq(Chars)]

Own(o) == o.late \cup (IF o.kind = "variable" THEN {} ELSE {o.block})

IsOperand(o, h, v) ==
  /\ o \in OperandSet
  /\ o.text = h[o.block].text
  /\ o.kind = "variable" => o.late = {} /\ HasVar(v, o.block)
  /\ o.kind = "literal" => o.late = {}
  /\ o.kind \in {"sum", "slice"} => o.block \notin o.late
  /\ o.kind = "interpolation" => o.block \in o.late

Temporaries(s) == [i \in {1, 2} |-> IF i \in DOMAIN s THEN Own(s[i]) ELSE {}]

AreOperands(s, h, v) ==
  s \in Seq(OperandSet) /\ Len(s) <= 2 /\ \A i \in DOMAIN s : IsOperand(s[i], h, v)

(* What is left of a sequence when its end is cut off. *)
LEMMA Shortened ==
  ASSUME NEW S, NEW s \in Seq(S), NEW m \in Nat, m <= Len(s)
  PROVE  /\ SubSeq(s, 1, m) \in Seq(S) /\ Len(SubSeq(s, 1, m)) = m
         /\ \A i \in 1 .. m : SubSeq(s, 1, m)[i] = s[i]
  OBVIOUS

(* An operand is put on top of those below the n uppermost ones. *)
LEMMA Replaced ==
  ASSUME NEW s, NEW h, NEW v, AreOperands(s, h, v), NEW n \in Nat, n <= Len(s), Len(s) - n < 2,
         NEW k, NEW w, NEW o, IsOperand(o, k, w),
         \A i \in DOMAIN s : i <= Len(s) - n => IsOperand(s[i], k, w)
  PROVE  /\ AreOperands(Append(SubSeq(s, 1, Len(s) - n), o), k, w)
         /\ Len(s) - n = 0 => /\ Temporaries(Append(SubSeq(s, 1, Len(s) - n), o))[1] = Own(o)
                              /\ Temporaries(Append(SubSeq(s, 1, Len(s) - n), o))[2] = {}
         /\ Len(s) - n = 1 => /\ Temporaries(Append(SubSeq(s, 1, Len(s) - n), o))[1] = Temporaries(s)[1]
                              /\ Temporaries(Append(SubSeq(s, 1, Len(s) - n), o))[2] = Own(o)
<1>. DEFINE m == Len(s) - n
            r == SubSeq(s, 1, m)
            t == Append(r, o)
<1>1. s \in Seq(OperandSet) /\ Len(s) \in Nat /\ m \in Nat /\ m <= Len(s) /\ m < 2 /\ o \in OperandSet
  BY DEF AreOperands, IsOperand
<1>2. r \in Seq(OperandSet) /\ Len(r) = m /\ \A i \in 1 .. m : r[i] = s[i]
  BY <1>1, Shortened
<1>. HIDE DEF r
<1>3. t \in Seq(OperandSet) /\ Len(t) = m + 1 /\ t[m + 1] = o /\ \A i \in 1 .. m : t[i] = s[i]
  BY <1>1, <1>2
<1>. HIDE DEF t
<1>4. DOMAIN t = 1 .. m + 1 /\ 1 .. m \subseteq DOMAIN s
  BY <1>1, <1>3
<1>5. \A i \in DOMAIN t : IsOperand(t[i], k, w)
  <2>1. ASSUME NEW i \in 1 .. m + 1
        PROVE  IsOperand(t[i], k, w)
    <3>1. CASE i = m + 1
      BY <1>3, <3>1
    <3>2. CASE i # m + 1
      <4>1. i \in 1 .. m /\ i <= Len(s) - n
        BY <1>1, <3>2
      <4>. QED BY <1>3, <1>4, <4>1
    <3>. QED BY <3>1, <3>2
  <2>. QED BY <1>4, <2>1
<1>6. AreOperands(t, k, w)
  BY <1>1, <1>3, <1>5 DEF AreOperands
<1>7. CASE m = 0
  <2>1. DOMAIN t = {1} /\ t[1] = o
    BY <1>3, <1>4, <1>7
  <2>2. Temporaries(t)[1] = Own(o) /\ Temporaries(t)[2] = {}
    BY <2>1 DEF Temporaries
  <2>. QED BY <1>6, <1>7, <2>2 DEF t, r
<1>8. CASE m = 1
  <2>1. 1 \in DOMAIN t /\ 2 \in DOMAIN t /\ t[2] = o /\ t[1] = s[1] /\ 1 \in DOMAIN s
    BY <1>1, <1>3, <1>4, <1>8
  <2>2. Temporaries(t)[1] = Temporaries(s)[1] /\ Temporaries(t)[2] = Own(o)
    BY <2>1 DEF Temporaries
  <2>. QED BY <1>6, <1>8, <2>2 DEF t, r
<1>. QED BY <1>1, <1>7, <1>8

(* Where nothing is evaluated there are no operands and they own nothing. *)
LEMMA NoOperands ==
  \A h, v : AreOperands(<< >>, h, v) /\ Temporaries(<< >>)[1] = {} /\ Temporaries(<< >>)[2] = {}
  BY DEF AreOperands, Temporaries

(* What an operand owns is its garbage, a literal's block or a block
   nobody registered, and these are apart. *)
LEMMA OperandParts ==
  ASSUME NEW o, NEW h, NEW v, IsOperand(o, h, v)
  PROVE  /\ \A b : b \in Own(o) <=> b \in o.late \/ b \in Literal(o) \/ b \in Unregistered(o)
         /\ \A b : /\ b \in o.late => b \notin Literal(o) /\ b \notin Unregistered(o)
                   /\ b \in Literal(o) => b \notin Unregistered(o)
  BY DEF IsOperand, Own, Literal, Unregistered, OperandSet, OperandKinds

(* Blocks are new, the others are as before. *)
Grown(h, k, New) ==
  /\ New \subseteq Blocks
  /\ \A b \in Blocks : IF b \in New THEN h[b].live = FALSE /\ k[b].live = TRUE ELSE k[b] = h[b]

(* What the n uppermost operands own. *)
Taken(s, n) == UNION {Own(s[i]) : i \in {j \in DOMAIN s : j > Len(s) - n}}

(* New blocks and those of operands go to an operand, the garbage or nobody. *)
Redistributed(New, taken, own, g, l, g2, l2) ==
  /\ own \subseteq Blocks /\ g2 \subseteq Blocks /\ l2 \subseteq Blocks
  /\ \A b \in Blocks : b \in own \/ b \in g2 \/ b \in l2
                         <=> b \in New \/ b \in taken \/ b \in g \/ b \in l
  /\ \A b \in Blocks : /\ b \in own => b \notin g2 /\ b \notin l2
                       /\ b \in g2 => b \notin l2

(* What the n uppermost operands own, and what each of the two owns. *)
LEMMA TakenParts ==
  ASSUME NEW s, NEW h, NEW v, AreOperands(s, h, v)
  PROVE  /\ Taken(s, 0) = {}
         /\ Len(s) >= 1 => Taken(s, 1) = Own(s[Len(s)])
         /\ Len(s) = 2 => Taken(s, 2) = Own(s[1]) \cup Own(s[2])
         /\ Len(s) = 1 => Temporaries(s)[1] = Own(s[1]) /\ Temporaries(s)[2] = {}
         /\ Len(s) = 2 => Temporaries(s)[1] = Own(s[1]) /\ Temporaries(s)[2] = Own(s[2])
         /\ Len(s) = 0 => Temporaries(s)[1] = {} /\ Temporaries(s)[2] = {}
<1>1. Len(s) \in Nat /\ DOMAIN s = 1 .. Len(s) /\ Len(s) <= 2
  BY DEF AreOperands
<1>2. \A m : Taken(s, m) = UNION {Own(s[i]) : i \in {j \in DOMAIN s : j > Len(s) - m}}
  BY DEF Taken
<1>3. {j \in DOMAIN s : j > Len(s) - 0} = {}
  BY <1>1
<1>4. Len(s) >= 1 => {j \in DOMAIN s : j > Len(s) - 1} = {Len(s)}
  BY <1>1
<1>5. Len(s) = 2 => {j \in DOMAIN s : j > Len(s) - 2} = {1, 2}
  BY <1>1
<1>6. Taken(s, 0) = {}
  BY <1>2, <1>3
<1>7. Len(s) >= 1 => Taken(s, 1) = Own(s[Len(s)])
  BY <1>2, <1>4
<1>8. Len(s) = 2 => Taken(s, 2) = Own(s[1]) \cup Own(s[2])
  BY <1>2, <1>5
<1>9. /\ Len(s) = 1 => Temporaries(s)[1] = Own(s[1]) /\ Temporaries(s)[2] = {}
      /\ Len(s) = 2 => Temporaries(s)[1] = Own(s[1]) /\ Temporaries(s)[2] = Own(s[2])
      /\ Len(s) = 0 => Temporaries(s)[1] = {} /\ Temporaries(s)[2] = {}
  BY <1>1 DEF Temporaries
<1>. QED BY <1>6, <1>7, <1>8, <1>9

(* When operands give way to the one computed from them and every block
   they owned goes to exactly one new owner, every block still has one. *)
LEMMA OperandReplaced ==
  ASSUME NEW s, NEW h, NEW v, NEW g, NEW l, AreOperands(s, h, v), Belong(h, v, Temporaries(s), g, l),
         NEW n \in Nat, n <= Len(s), Len(s) - n < 2,
         NEW k, NEW New, Grown(h, k, New), NEW o, IsOperand(o, k, v),
         NEW g2, NEW l2, Redistributed(New, Taken(s, n), Own(o), g, l, g2, l2)
  PROVE  /\ AreOperands(Append(SubSeq(s, 1, Len(s) - n), o), k, v)
         /\ Belong(k, v, Temporaries(Append(SubSeq(s, 1, Len(s) - n), o)), g2, l2)
<1>. DEFINE t == Append(SubSeq(s, 1, Len(s) - n), o)
            T == Temporaries(s)
            U == Temporaries(t)
<1>1. Len(s) \in Nat /\ DOMAIN s = 1 .. Len(s) /\ Len(s) <= 2 /\ \A i \in DOMAIN s : IsOperand(s[i], h, v)
  BY DEF AreOperands
<1>2. /\ Taken(s, 0) = {}
      /\ Len(s) >= 1 => Taken(s, 1) = Own(s[Len(s)])
      /\ Len(s) = 2 => Taken(s, 2) = Own(s[1]) \cup Own(s[2])
      /\ Len(s) = 1 => T[1] = Own(s[1]) /\ T[2] = {}
      /\ Len(s) = 2 => T[1] = Own(s[1]) /\ T[2] = Own(s[2])
      /\ Len(s) = 0 => T[1] = {} /\ T[2] = {}
  BY TakenParts
<1>3. ASSUME NEW i \in DOMAIN s
      PROVE  IsOperand(s[i], k, v)
  <2>1. s[i].block \in Blocks /\ IsOperand(s[i], h, v)
    BY <1>1 DEF IsOperand, OperandSet
  <2>2. HasVar(v, s[i].block) \/ s[i].block \in Own(s[i])
    BY <2>1 DEF IsOperand, Own
  <2>5. Len(s) \in {1, 2} /\ i \in 1 .. Len(s)
    BY <1>1
  <2>6. Own(s[i]) = T[1] \/ Own(s[i]) = T[2]
    <3>. HIDE DEF T
    <3>. QED BY <1>2, <2>5
  <2>3. h[s[i].block].live
    BY <2>6, <2>1, <2>2 DEF Belong
  <2>4. k[s[i].block] = h[s[i].block]
    BY <2>1, <2>3 DEF Grown
  <2>. QED BY <2>1, <2>4 DEF IsOperand
<1>4. /\ AreOperands(t, k, v)
      /\ Len(s) - n = 0 => U[1] = Own(o) /\ U[2] = {}
      /\ Len(s) - n = 1 => U[1] = T[1] /\ U[2] = Own(o)
  BY <1>3, Replaced
<1>5. \/ Len(s) - n = 0 /\ \A b : b \in Taken(s, n) <=> b \in T[1] \/ b \in T[2]
      \/ Len(s) - n = 1 /\ Taken(s, n) = T[2]
  <2>. HIDE DEF T
  <2>1. Len(s) \in {0, 1, 2} /\ n \in {0, 1, 2}
    BY <1>1
  <2>2. CASE n = 0
    <3>1. Taken(s, n) = {}
      BY <1>2, <2>2
    <3>2. CASE Len(s) = 0
      BY <1>2, <2>2, <3>1, <3>2
    <3>3. CASE Len(s) = 1
      BY <1>2, <2>2, <3>1, <3>3
    <3>. QED BY <2>1, <2>2, <3>2, <3>3
  <2>3. CASE n = 1
    BY <1>2, <2>1, <2>3
  <2>4. CASE n = 2
    BY <1>2, <2>1, <2>4
  <2>. QED BY <2>1, <2>2, <2>3, <2>4
<1>. HIDE DEF T, U, t
<1>6. Belong(h, v, T, g, l)
  BY DEF T
<1>7. \A b \in Blocks : k[b].live <=> b \in New \/ h[b].live
  BY DEF Grown
<1>8. \A b \in New : b \in Blocks /\ ~HasVar(v, b) /\ b \notin T[1] /\ b \notin T[2] /\ b \notin g /\ b \notin l
  BY <1>6 DEF Grown, Belong
<1>9. CASE Len(s) - n = 0
  BY <1>4, <1>5, <1>6, <1>7, <1>8, <1>9 DEF Belong, Redistributed, t, U
<1>10. CASE Len(s) - n = 1 /\ Taken(s, n) = T[2]
  BY <1>4, <1>6, <1>7, <1>8, <1>10 DEF Belong, Redistributed, t, U
<1>. QED BY <1>5, <1>9, <1>10

----------------------------------------
(* The invariant. *)
StatementSet ==
  [form : StatementForms \cup {"none"}, target : Vars \cup {None}, operands : Nat, wanted : {<< >>}]

StatementFits ==
  /\ stmt \in StatementSet
  /\ at \in {"idle", "expression", "aborted"}
  /\ at = "idle" => stmt = NoStatement /\ stack = << >> /\ garbage = {}
  /\ at = "expression" =>
       /\ stmt.form \in StatementForms
       /\ stmt.form = "declare" => stmt.target \in Vars /\ var[stmt.target] = None
       /\ stmt.form \in {"assign", "append"} => stmt.target \in Vars /\ var[stmt.target] # None
       /\ stmt.form \in {"discard", "compare"} => stmt.target = None

StringsInvariant ==
  /\ HeapIsSound(heap)
  /\ var \in [Vars -> Blocks \cup {None}]
  /\ StatementFits
  /\ AreOperands(stack, heap, var)
  /\ Belong(heap, var, Temporaries(stack), garbage, lost)

(* Every program starts without strings. *)
LEMMA StringsInit ==
  ASSUME Init
  PROVE  StringsInvariant
<1>1. /\ heap = [b \in Blocks |-> [live |-> FALSE, text |-> << >>]] /\ var = [x \in Vars |-> None]
      /\ at = "idle" /\ stmt = NoStatement /\ stack = << >> /\ garbage = {} /\ lost = {}
  BY DEF Init
<1>2. HeapIsSound(heap)
  <2>1. LiveIn(heap) = {}
    BY <1>1 DEF LiveIn
  <2>2. MaxLen \in Nat
    BY StringsAssumption, Zenon
  <2>3. heap \in [Blocks -> [live : BOOLEAN, text : Seq(Chars)]]
    BY <1>1
  <2>4. \A b \in Blocks : Len(heap[b].text) <= MaxLen /\ (~heap[b].live => heap[b].text = << >>)
    BY <1>1, <2>2
  <2>. QED BY <2>1, <2>3, <2>4, FS_EmptySet DEF HeapIsSound
<1>3. None \notin Blocks
  BY StringsAssumption, Zenon
<1>4. Belong(heap, var, Temporaries(stack), garbage, lost)
  BY <1>1, <1>3, NoOperands DEF Belong, HasVar
<1>5. StatementFits
  BY <1>1 DEF StatementFits, StatementSet, NoStatement
<1>. QED BY <1>1, <1>2, <1>4, <1>5, NoOperands DEF StringsInvariant

(* A step inside an expression that adds blocks and gives the blocks of
   its operands away keeps the invariant, and every variable its text. *)
LEMMA ExpressionGrows ==
  ASSUME StringsInvariant, at = "expression", at' = "expression", var' = var,
         stmt' = stmt \/ stmt' = [stmt EXCEPT !.operands = @ + 1], HeapIsSound(heap'),
         NEW n \in Nat, n <= Len(stack), Len(stack) - n < 2,
         NEW New, Grown(heap, heap', New), NEW o, IsOperand(o, heap', var), stack' = Append(Popped(n), o),
         Redistributed(New, Taken(stack, n), Own(o), garbage, lost, garbage', lost')
  PROVE  StringsInvariant' /\ ValuesStep
<1>1. AreOperands(stack', heap', var') /\ Belong(heap', var', Temporaries(stack'), garbage', lost')
  BY OperandReplaced DEF StringsInvariant, Popped
<1>2. stmt' \in StatementSet /\ stmt'.form = stmt.form /\ stmt'.target = stmt.target
  BY DEF StringsInvariant, StatementFits, StatementSet
<1>3. StatementFits'
  BY <1>2 DEF StringsInvariant, StatementFits
<1>4. StringsInvariant'
  BY <1>1, <1>3 DEF StringsInvariant
<1>5. ASSUME NEW x \in Vars, var[x] # None
      PROVE  heap'[var[x]] = heap[var[x]]
  <2>1. var[x] \in Blocks /\ HasVar(var, var[x])
    BY <1>5 DEF StringsInvariant, HasVar
  <2>2. heap[var[x]].live
    BY <2>1 DEF StringsInvariant, Belong
  <2>. QED BY <2>1, <2>2 DEF Grown
<1>6. ValuesStep
  BY <1>5 DEF ValuesStep, Text
<1>. QED BY <1>4, <1>6

(* Text put into a fresh block is growth by that block. *)
LEMMA PutGrows ==
  ASSUME ~IsFiniteSet(Blocks), NEW h, HeapIsSound(h), NEW chars \in Seq(Chars), Len(chars) <= MaxLen,
         NEW k, k = Put(h, Fresh(h), chars)
  PROVE  /\ HeapIsSound(k) /\ Grown(h, k, {Fresh(h)}) /\ k[Fresh(h)].text = chars
         /\ Fresh(h) \in Blocks /\ h[Fresh(h)].live = FALSE
<1>1. Fresh(h) \in Blocks /\ h[Fresh(h)].live = FALSE
  BY FreshBlocks
<1>2. HeapIsSound(k) /\ \A c \in Blocks : k[c] = IF c = Fresh(h) THEN [live |-> TRUE, text |-> chars] ELSE h[c]
  BY <1>1, PutIsSound
<1>. QED BY <1>1, <1>2 DEF Grown

(* What the invariant says of the one or two operands at the top. *)
LEMMA OperandsHere ==
  ASSUME StringsInvariant
  PROVE  /\ stack \in Seq(OperandSet) /\ Len(stack) \in {0, 1, 2}
         /\ Len(stack) >= 1 => IsOperand(Above, heap, var) /\ Taken(stack, 1) = Own(Above)
         /\ Len(stack) = 2 => /\ IsOperand(Below, heap, var) /\ Taken(stack, 2) = Own(Below) \cup Own(Above)
                              /\ Above = stack[2] /\ Below = stack[1]
         /\ Taken(stack, 0) = {}
<1>1. AreOperands(stack, heap, var)
  BY DEF StringsInvariant
<1>2. stack \in Seq(OperandSet) /\ Len(stack) \in {0, 1, 2}
  <2>1. stack \in Seq(OperandSet) /\ Len(stack) <= 2
    BY <1>1 DEF AreOperands
  <2>2. Len(stack) \in Nat
    BY <2>1
  <2>3. \A m \in Nat : m <= 2 => m \in {0, 1, 2}
    OBVIOUS
  <2>. QED BY <2>1, <2>2, <2>3, Zenon
<1>3. Len(stack) >= 1 => IsOperand(Above, heap, var) /\ Above = stack[Len(stack)]
  BY <1>1, <1>2 DEF AreOperands, Above
<1>4. Len(stack) = 2 => IsOperand(Below, heap, var) /\ Above = stack[2] /\ Below = stack[1]
  BY <1>1, <1>2 DEF AreOperands, Above, Below
<1>5. /\ Taken(stack, 0) = {}
      /\ Len(stack) >= 1 => Taken(stack, 1) = Own(stack[Len(stack)])
      /\ Len(stack) = 2 => Taken(stack, 2) = Own(stack[1]) \cup Own(stack[2])
  BY <1>1, TakenParts
<1>. QED BY <1>2, <1>3, <1>4, <1>5

(* Naming a variable evaluates to its block, which stays the variable's. *)
LEMMA VariableKept ==
  ASSUME StringsInvariant, NEW x \in Vars, generate_variable(x)
  PROVE  StringsInvariant' /\ ValuesStep
<1>. DEFINE o == Operand("variable", var[x], {}, Text(heap, var[x]))
<1>1. /\ at = "expression" /\ at' = at /\ heap' = heap /\ var' = var /\ garbage' = garbage /\ lost' = lost
      /\ stmt' = [stmt EXCEPT !.operands = @ + 1] /\ Len(stack) < 2 /\ var[x] # None
      /\ stack' = Append(stack, o)
  BY DEF generate_variable, Counted, MayPush, MayGrow, Evaluating
<1>2. var[x] \in Blocks /\ HasVar(var, var[x])
  BY <1>1 DEF StringsInvariant, HasVar
<1>3. IsOperand(o, heap', var) /\ Own(o) = {}
  BY <1>1, <1>2 DEF IsOperand, OperandSet, OperandKinds, Operand, Own, Text, StringsInvariant, HeapIsSound
<1>4. Popped(0) = stack
  BY OperandsHere DEF Popped
<1>5. Grown(heap, heap', {})
  BY <1>1 DEF Grown
<1>6. Redistributed({}, Taken(stack, 0), Own(o), garbage, lost, garbage', lost')
  BY <1>1, <1>3, OperandsHere DEF Redistributed, StringsInvariant, Belong
<1>7. 0 <= Len(stack) /\ Len(stack) - 0 < 2 /\ HeapIsSound(heap')
  BY <1>1, OperandsHere DEF StringsInvariant
<1>8. stack' = Append(Popped(0), o)
  BY <1>1, <1>4
<1>. HIDE DEF o
<1>. QED BY <1>1, <1>3, <1>5, <1>6, <1>7, <1>8, ExpressionGrows

(* A literal makes a block that its operand owns, by itself or as all of an
   interpolation. *)
LEMMA MadeKept ==
  ASSUME ~IsFiniteSet(Blocks), StringsInvariant, NEW chars \in Literals,
         NEW o, \/ o = Operand("literal", Fresh(heap), {}, chars)
                \/ o = Operand("interpolation", Fresh(heap), {Fresh(heap)}, chars),
         MayPush, heap' = init_str(heap, chars), stack' = Append(stack, o), Counted,
         at' = at, var' = var, garbage' = garbage, lost' = lost
  PROVE  StringsInvariant' /\ ValuesStep
<1>. DEFINE f == Fresh(heap)
<1>1. /\ at = "expression" /\ at' = at /\ heap' = init_str(heap, chars) /\ var' = var
      /\ garbage' = garbage /\ lost' = lost
      /\ stmt' = [stmt EXCEPT !.operands = @ + 1] /\ Len(stack) < 2 /\ stack' = Append(stack, o)
  BY DEF Counted, MayPush, MayGrow, Evaluating
<1>2. chars \in Seq(Chars) /\ Len(chars) <= MaxLen
  BY StringsAssumption, Zenon
<1>3. HeapIsSound(heap)
  BY DEF StringsInvariant
<1>4. f \in Blocks
  BY <1>3, FreshBlocks
<1>5. heap' = Put(heap, f, chars)
  BY <1>1, <1>2, <1>3, <1>4, InitPuts
<1>6. HeapIsSound(heap') /\ Grown(heap, heap', {f}) /\ heap'[f].text = chars /\ heap[f].live = FALSE
  BY <1>2, <1>3, <1>5, PutGrows
<1>7. IsOperand(o, heap', var) /\ Own(o) = {f}
  BY <1>2, <1>4, <1>6 DEF IsOperand, OperandSet, OperandKinds, Operand, Own
<1>8. Popped(0) = stack
  BY OperandsHere DEF Popped
<1>9. Redistributed({f}, Taken(stack, 0), Own(o), garbage, lost, garbage', lost')
  BY <1>1, <1>4, <1>6, <1>7, OperandsHere DEF Redistributed, StringsInvariant, Belong
<1>10. 0 <= Len(stack) /\ Len(stack) - 0 < 2
  BY <1>1, OperandsHere
<1>11. stack' = Append(Popped(0), o)
  BY <1>1, <1>8
<1>. HIDE DEF f
<1>. QED BY <1>1, <1>6, <1>7, <1>9, <1>10, <1>11, ExpressionGrows

LEMMA LiteralKept ==
  ASSUME ~IsFiniteSet(Blocks), StringsInvariant, NEW chars \in Literals,
         generate_literal(chars) \/ interpolate_literal(chars)
  PROVE  StringsInvariant' /\ ValuesStep
BY MadeKept DEF generate_literal, interpolate_literal

(* What two operands own is kept apart from each other and from the rest. *)
LEMMA OperandsApart ==
  ASSUME StringsInvariant, Len(stack) >= 1
  PROVE  /\ Own(Above) \subseteq Blocks /\ garbage \subseteq Blocks /\ lost \subseteq Blocks
         /\ \A b \in Blocks : b \in Own(Above) \/ b \in garbage \/ b \in lost => heap[b].live /\ ~HasVar(var, b)
         /\ \A b \in Blocks : /\ b \in Own(Above) => b \notin garbage /\ b \notin lost
                              /\ b \in garbage => b \notin lost
         /\ Len(stack) = 2 =>
              /\ Own(Below) \subseteq Blocks
              /\ \A b \in Own(Below) : /\ heap[b].live /\ ~HasVar(var, b)
                                        /\ b \notin garbage /\ b \notin lost /\ b \notin Own(Above)
         /\ Len(stack) = 1 =>
              \A b \in Blocks : heap[b].live <=> HasVar(var, b) \/ b \in Own(Above) \/ b \in garbage \/ b \in lost
         /\ Len(stack) = 2 =>
              \A b \in Blocks : heap[b].live <=> \/ HasVar(var, b) \/ b \in Own(Above) \/ b \in Own(Below)
                                                \/ b \in garbage \/ b \in lost
<1>. DEFINE T == Temporaries(stack)
<1>1. AreOperands(stack, heap, var) /\ Belong(heap, var, T, garbage, lost)
  BY DEF StringsInvariant
<1>2. /\ Len(stack) = 1 => T[1] = Own(stack[1]) /\ T[2] = {}
      /\ Len(stack) = 2 => T[1] = Own(stack[1]) /\ T[2] = Own(stack[2])
  BY <1>1, TakenParts
<1>. HIDE DEF T
<1>3. Len(stack) \in {1, 2}
  BY OperandsHere
<1>4. CASE Len(stack) = 1
  <2>1. Above = stack[1]
    BY <1>4 DEF Above
  <2>. QED BY <1>1, <1>2, <1>4, <2>1 DEF Belong
<1>5. CASE Len(stack) = 2
  <2>1. Above = stack[2] /\ Below = stack[1]
    BY <1>5, OperandsHere
  <2>. QED BY <1>1, <1>2, <1>5, <2>1 DEF Belong
<1>. QED BY <1>3, <1>4, <1>5

(* A sum makes a block; literals among its operands are lost and what its
   operands left for later is garbage. *)
LEMMA AdditionKept ==
  ASSUME ~IsFiniteSet(Blocks), StringsInvariant, generate_string_addition
  PROVE  StringsInvariant' /\ ValuesStep
<1>. DEFINE f == Fresh(heap)
            late == Literal(Below) \cup Literal(Above)
            chars == Below.text \o Above.text
            o == Operand("sum", f, late, chars)
<1>1. /\ at = "expression" /\ at' = at /\ heap' = add_str_str(heap, Below.block, Above.block) /\ var' = var
      /\ garbage' = garbage \cup Below.late \cup Above.late \cup Unregistered(Below) \cup Unregistered(Above)
      /\ lost' = lost /\ stmt' = stmt /\ Len(stack) >= 2 /\ stack' = Append(Popped(2), o)
      /\ Len(heap[Above.block].text) + Len(heap[Below.block].text) <= MaxLen
  BY DEF generate_string_addition, Evaluating, Text
<1>2. Len(stack) = 2 /\ IsOperand(Above, heap, var) /\ IsOperand(Below, heap, var)
      /\ Taken(stack, 2) = Own(Below) \cup Own(Above)
  <2>1. \A m \in {0, 1, 2} : m >= 2 => m = 2 /\ m >= 1
    OBVIOUS
  <2>2. Len(stack) = 2 /\ Len(stack) >= 1
    BY <1>1, <2>1, OperandsHere, Zenon
  <2>. QED BY <2>2, OperandsHere
<1>3. HeapIsSound(heap)
  BY DEF StringsInvariant
<1>4. f \in Blocks /\ heap[f].live = FALSE
  BY <1>3, FreshBlocks
<1>5. /\ Above.block \in Blocks /\ Above.text = heap[Above.block].text /\ Above.text \in Seq(Chars)
      /\ Below.block \in Blocks /\ Below.text = heap[Below.block].text /\ Below.text \in Seq(Chars)
  BY <1>2 DEF IsOperand, OperandSet
<1>6. chars \in Seq(Chars) /\ Len(chars) <= MaxLen
  <2>1. \A s, u \in Seq(Chars) : s \o u \in Seq(Chars) /\ Len(s \o u) = Len(u) + Len(s)
    OBVIOUS
  <2>2. Len(Above.text) + Len(Below.text) <= MaxLen
    BY <1>1, <1>5
  <2>3. Len(chars) = Len(Above.text) + Len(Below.text) /\ chars \in Seq(Chars)
    BY <1>5, <2>1, Zenon
  <2>. QED BY <2>2, <2>3
<1>7. heap' = Put(heap, f, chars)
  BY <1>1, <1>3, <1>4, <1>5, AddPuts DEF add_str_str, Text
<1>8. HeapIsSound(heap') /\ Grown(heap, heap', {f}) /\ heap'[f].text = chars
  <2>. HIDE DEF chars
  <2>. QED BY <1>3, <1>6, <1>7, PutGrows
<1>9. \A b : /\ b \in Own(Below) <=> b \in Below.late \/ b \in Literal(Below) \/ b \in Unregistered(Below)
             /\ b \in Below.late => b \notin Literal(Below) /\ b \notin Unregistered(Below)
             /\ b \in Literal(Below) => b \notin Unregistered(Below)
  BY <1>2, OperandParts
<1>10. \A b : /\ b \in Own(Above) <=> b \in Above.late \/ b \in Literal(Above) \/ b \in Unregistered(Above)
              /\ b \in Above.late => b \notin Literal(Above) /\ b \notin Unregistered(Above)
              /\ b \in Literal(Above) => b \notin Unregistered(Above)
  BY <1>2, OperandParts
<1>11. /\ Own(Above) \subseteq Blocks /\ garbage \subseteq Blocks /\ lost \subseteq Blocks /\ Own(Below) \subseteq Blocks
       /\ \A b \in Blocks : b \in Own(Above) \/ b \in garbage \/ b \in lost => heap[b].live
       /\ \A b \in Blocks : /\ b \in Own(Above) => b \notin garbage /\ b \notin lost
                            /\ b \in garbage => b \notin lost
       /\ \A b \in Own(Below) : heap[b].live /\ b \notin garbage /\ b \notin lost /\ b \notin Own(Above)
  BY <1>2, OperandsApart
<1>12. late \subseteq Blocks /\ f \notin late
  BY <1>4, <1>9, <1>10, <1>11
<1>13. IsOperand(o, heap', var) /\ Own(o) = {f} \cup late
  <2>. HIDE DEF late, chars, f
  <2>. QED BY <1>4, <1>6, <1>8, <1>12 DEF IsOperand, OperandSet, OperandKinds, Operand, Own
<1>14. Redistributed({f}, Taken(stack, 2), Own(o), garbage, lost, garbage', lost')
  <2>1. \A b : b \in garbage' <=> \/ b \in garbage \/ b \in Below.late \/ b \in Above.late
                                  \/ b \in Unregistered(Below) \/ b \in Unregistered(Above)
    BY <1>1
  <2>2. \A b : b \in Own(o) <=> b = f \/ b \in Literal(Below) \/ b \in Literal(Above)
    BY <1>13
  <2>3. lost' = lost
    BY <1>1
  <2>. HIDE DEF f, o, late
  <2>. QED BY <1>2, <1>4, <1>9, <1>10, <1>11, <2>1, <2>2, <2>3 DEF Redistributed
<1>15. 2 <= Len(stack) /\ Len(stack) - 2 < 2
  BY <1>2
<1>. HIDE DEF o, f, late, chars
<1>. QED BY <1>1, <1>8, <1>13, <1>14, <1>15, ExpressionGrows

(* One or two operands become an interpolation. *)
LEMMA InterpolatedKept ==
  ASSUME StringsInvariant, at = "expression", NEW h, HeapIsSound(h), NEW left, left.block \in Blocks,
         left.block \notin left.lost, left.lost \subseteq Blocks,
         Grown(heap, h, {left.block} \cup left.lost), h[left.block].text = left.text,
         NEW n \in {1, 2}, n <= Len(stack), Above.kind # "literal", n = 2 => Below.kind # "literal",
         Interpolated(h, IF n = 1 THEN <<Above>> ELSE <<Below, Above>>, left)
  PROVE  StringsInvariant' /\ ValuesStep
<1>. DEFINE late == IF n = 1 THEN Above.late ELSE Below.late \cup Above.late
            sums == IF n = 1 THEN Unregistered(Above) ELSE Unregistered(Below) \cup Unregistered(Above)
            o == Operand("interpolation", left.block, {left.block} \cup late, left.text)
<1>1. /\ at' = at /\ heap' = h /\ var' = var /\ garbage' = garbage /\ lost' = lost \cup left.lost \cup sums
      /\ stmt' = [stmt EXCEPT !.operands = @ + 1] /\ stack' = Append(Popped(n), o)
  <2>1. CASE n = 1
    <3>1. Len(<<Above>>) = 1 /\ UNION {<<Above>>[i].late : i \in DOMAIN <<Above>>} = Above.late
          /\ UNION {Unregistered(<<Above>>[i]) : i \in DOMAIN <<Above>>} = Unregistered(Above)
      OBVIOUS
    <3>. QED BY <2>1, <3>1 DEF Interpolated, Counted
  <2>2. CASE n = 2
    <3>. DEFINE s == <<Below, Above>>
    <3>1. Len(s) = 2 /\ DOMAIN s = {1, 2} /\ s[1] = Below /\ s[2] = Above
      OBVIOUS
    <3>. HIDE DEF s
    <3>2. UNION {s[i].late : i \in DOMAIN s} = Below.late \cup Above.late
          /\ UNION {Unregistered(s[i]) : i \in DOMAIN s} = Unregistered(Below) \cup Unregistered(Above)
      BY <3>1
    <3>. HIDE DEF o
    <3>3. Interpolated(h, s, left)
      BY <2>2 DEF s
    <3>4. /\ at' = at /\ heap' = h /\ var' = var /\ garbage' = garbage
          /\ lost' = lost \cup left.lost \cup (Unregistered(Below) \cup Unregistered(Above))
          /\ stmt' = [stmt EXCEPT !.operands = @ + 1]
          /\ stack' = Append(Popped(2), Operand("interpolation", left.block,
                               {left.block} \cup (Below.late \cup Above.late), left.text))
      BY <3>1, <3>2, <3>3 DEF Interpolated, Counted
    <3>. QED BY <2>2, <3>4 DEF o
  <2>. QED BY <2>1, <2>2
<1>2. /\ Len(stack) \in {1, 2} /\ IsOperand(Above, heap, var) /\ Taken(stack, 1) = Own(Above)
      /\ n = 2 => Len(stack) = 2 /\ IsOperand(Below, heap, var) /\ Taken(stack, 2) = Own(Below) \cup Own(Above)
  BY OperandsHere
<1>3. \A b : /\ b \in Own(Above) <=> b \in Above.late \/ b \in Unregistered(Above)
             /\ b \in Above.late => b \notin Unregistered(Above)
  BY <1>2, OperandParts DEF Literal
<1>4. n = 2 => \A b : /\ b \in Own(Below) <=> b \in Below.late \/ b \in Unregistered(Below)
                      /\ b \in Below.late => b \notin Unregistered(Below)
  BY <1>2, OperandParts DEF Literal
<1>5. /\ Own(Above) \subseteq Blocks /\ garbage \subseteq Blocks /\ lost \subseteq Blocks
      /\ \A b \in Blocks : b \in Own(Above) \/ b \in garbage \/ b \in lost => heap[b].live
      /\ \A b \in Blocks : /\ b \in Own(Above) => b \notin garbage /\ b \notin lost
                           /\ b \in garbage => b \notin lost
      /\ n = 2 => Own(Below) \subseteq Blocks /\ \A b \in Own(Below) :
                    heap[b].live /\ b \notin garbage /\ b \notin lost /\ b \notin Own(Above)
  BY <1>2, OperandsApart
<1>6. late \subseteq Blocks
  BY <1>2, <1>3, <1>4, <1>5
<1>7. heap[left.block].live = FALSE /\ \A b \in left.lost : heap[b].live = FALSE
  BY DEF Grown
<1>8. left.text \in Seq(Chars)
  BY DEF HeapIsSound
<1>9. IsOperand(o, heap', var) /\ Own(o) = {left.block} \cup late
  <2>. HIDE DEF late
  <2>. QED BY <1>1, <1>6, <1>8 DEF IsOperand, OperandSet, OperandKinds, Operand, Own
<1>10. Redistributed({left.block} \cup left.lost, Taken(stack, n), Own(o), garbage, lost, garbage', lost')
  <2>1. \A b : b \in lost' <=> b \in lost \/ b \in left.lost \/ b \in sums
    BY <1>1
  <2>2. \A b : b \in Own(o) <=> b = left.block \/ b \in late
    BY <1>9
  <2>3. garbage' = garbage
    BY <1>1
  <2>. HIDE DEF o
  <2>4. CASE n = 1
    BY <1>2, <1>3, <1>5, <1>7, <2>1, <2>2, <2>3, <2>4 DEF Redistributed
  <2>5. CASE n = 2
    BY <1>2, <1>3, <1>4, <1>5, <1>7, <2>1, <2>2, <2>3, <2>5 DEF Redistributed
  <2>. QED BY <2>4, <2>5
<1>11. n \in Nat /\ Len(stack) - n < 2
  <2>1. \A m \in {1, 2} : n \in Nat /\ m - n < 2
    OBVIOUS
  <2>. QED BY <1>2, <2>1, Zenon
<1>. HIDE DEF o, late, sums
<1>12. Grown(heap, heap', {left.block} \cup left.lost) /\ HeapIsSound(heap')
  BY <1>1
<1>. QED BY <1>1, <1>9, <1>10, <1>11, <1>12, ExpressionGrows

(* The four ways to add a part to an interpolation are such parts. *)
LEMMA InterpolationKept ==
  ASSUME ~IsFiniteSet(Blocks), StringsInvariant, generate_string_interpolation
  PROVE  StringsInvariant' /\ ValuesStep
<1>. DEFINE f == Fresh(heap)
            text == heap[Above.block].text
<1>1. at = "expression" /\ Len(stack) > 0 /\ Above.kind # "literal"
  BY DEF generate_string_interpolation, MayGrow, Evaluating
<1>2. Len(stack) \in {1, 2} /\ IsOperand(Above, heap, var)
  <2>1. \A m \in {0, 1, 2} : m > 0 => m >= 1 /\ m \in {1, 2}
    OBVIOUS
  <2>2. Len(stack) >= 1 /\ Len(stack) \in {1, 2}
    BY <1>1, <2>1, OperandsHere, Zenon
  <2>. QED BY <2>2, OperandsHere
<1>3. HeapIsSound(heap) /\ f \in Blocks /\ heap[f].live = FALSE
  BY FreshBlocks DEF StringsInvariant
<1>4. /\ Above.block \in Blocks /\ Above.text = text /\ text \in Seq(Chars)
      /\ heap[Above.block].live
  <2>1. Above.block \in Blocks /\ Above.text = text /\ text \in Seq(Chars)
    BY <1>2 DEF IsOperand, OperandSet
  <2>2. HasVar(var, Above.block) \/ Above.block \in Own(Above)
    BY <1>2 DEF IsOperand, Own
  <2>3. \A m \in {1, 2} : m >= 1
    OBVIOUS
  <2>4. Len(stack) >= 1
    BY <1>2, <2>3, Zenon
  <2>5. Own(Above) \subseteq Blocks /\ \A b \in Blocks : b \in Own(Above) => heap[b].live
    BY <2>4, OperandsApart
  <2>6. \A b \in Blocks : HasVar(var, b) => heap[b].live
    BY DEF StringsInvariant, Belong
  <2>. QED BY <2>1, <2>2, <2>5, <2>6
<1>5. MaxLen \in Nat /\ \A s \in Seq(Chars), c \in Chars :
        /\ <<c>> \o s \in Seq(Chars) /\ Len(<<c>> \o s) = Len(s) + 1 /\ Len(s) \in Nat
        /\ s \o <<c>> \in Seq(Chars) /\ Len(s \o <<c>>) = Len(s) + 1 /\ Append(s, c) = s \o <<c>>
        /\ <<c>> \in Seq(Chars) /\ Len(<<c>>) = 1
  <2>1. MaxLen \in Nat
    BY StringsAssumption, Zenon
  <2>2. ASSUME NEW s \in Seq(Chars), NEW c \in Chars
        PROVE  /\ <<c>> \o s \in Seq(Chars) /\ Len(<<c>> \o s) = Len(s) + 1 /\ Len(s) \in Nat
               /\ s \o <<c>> \in Seq(Chars) /\ Len(s \o <<c>>) = Len(s) + 1 /\ Append(s, c) = s \o <<c>>
               /\ <<c>> \in Seq(Chars) /\ Len(<<c>>) = 1
    <3>1. Append(s, c) = s \o <<c>>
      OBVIOUS
    <3>. QED BY <3>1
  <2>. QED BY <2>1, <2>2
<1>6. \A m \in Nat : m < MaxLen => m + 1 <= MaxLen /\ 1 <= MaxLen
  BY <1>5
<1>7. ASSUME NEW c \in Chars, Len(Text(heap, Above.block)) < MaxLen,
             LET first == init_str(heap, <<c>>)
                 sum == add_str_str(first, Fresh(heap), Above.block)
             IN Interpolated(sum, <<Above>>, [block |-> Fresh(first), lost |-> {Fresh(heap)},
                                              text |-> <<c>> \o Above.text])
      PROVE  StringsInvariant' /\ ValuesStep
  <2>. DEFINE first == init_str(heap, <<c>>)
              e == Fresh(first)
              sum == add_str_str(first, f, Above.block)
              left == [block |-> e, lost |-> {f}, text |-> <<c>> \o Above.text]
  <2>1. Len(text) \in Nat /\ Len(text) + 1 <= MaxLen /\ 1 <= MaxLen
    BY <1>4, <1>5, <1>6, <1>7 DEF Text
  <2>2. <<c>> \in Seq(Chars) /\ Len(<<c>>) <= MaxLen
    BY <1>5, <2>1
  <2>3. first = Put(heap, f, <<c>>)
    BY <1>3, <2>2, InitPuts
  <2>4. HeapIsSound(first) /\ Grown(heap, first, {f}) /\ first[f].text = <<c>>
    <3>. HIDE DEF first
    <3>. QED BY <1>3, <2>2, <2>3, PutGrows
  <2>5. first[f].live = TRUE /\ Above.block # f /\ first[Above.block] = heap[Above.block]
    BY <1>3, <1>4, <2>4 DEF Grown
  <2>6. sum = add_str_lit(first, f, text)
    BY <2>5 DEF add_str_str, Text
  <2>7. Interpolated(sum, <<Above>>, left)
    BY <1>7
  <2>. HIDE DEF first, f, text, sum
  <2>8. e \in Blocks /\ first[e].live = FALSE
    BY <2>4, FreshBlocks
  <2>9. sum = Put(first, e, <<c>> \o text)
    BY <1>3, <1>4, <2>4, <2>6, <2>8, AddPuts
  <2>10. <<c>> \o text \in Seq(Chars) /\ Len(<<c>> \o text) <= MaxLen
    BY <1>4, <1>5, <2>1
  <2>11. HeapIsSound(sum) /\ Grown(first, sum, {e}) /\ sum[e].text = <<c>> \o text
    BY <2>4, <2>9, <2>10, PutGrows
  <2>12. e # f /\ Grown(heap, sum, {e, f})
    BY <1>3, <2>4, <2>5, <2>8, <2>11 DEF Grown
  <2>13. left.block = e /\ left.lost = {f} /\ left.text = <<c>> \o text
    BY <1>4
  <2>14. Grown(heap, sum, {left.block} \cup left.lost)
    <3>1. {left.block} \cup left.lost = {e, f}
      BY <2>13
    <3>. QED BY <2>12, <3>1
  <2>. HIDE DEF left, e
  <2>15. left.block \in Blocks /\ left.block \notin left.lost /\ left.lost \subseteq Blocks
         /\ sum[left.block].text = left.text
    BY <1>3, <2>8, <2>11, <2>12, <2>13
  <2>16. 1 <= Len(stack)
    <3>1. \A m \in {1, 2} : 1 <= m
      OBVIOUS
    <3>. QED BY <1>2, <3>1, Zenon
  <2>17. Interpolated(sum, IF 1 = 1 THEN <<Above>> ELSE <<Below, Above>>, left)
    BY <2>7
  <2>18. 1 \in {1, 2} /\ (1 = 2 => Below.kind # "literal")
    OBVIOUS
  <2>. QED BY <1>1, <2>11, <2>14, <2>15, <2>16, <2>17, <2>18, InterpolatedKept
<1>8. ASSUME NEW n \in {1, 2}, n <= Len(stack), n = 2 => Below.kind # "literal",
             NEW b \in Blocks, NEW chars \in Seq(Chars), NEW whole, whole = heap[b].text \o chars,
             whole \in Seq(Chars), Len(whole) <= MaxLen,
             NEW left, left = [block |-> f, lost |-> {}, text |-> whole],
             Interpolated(add_str_lit(heap, b, chars), IF n = 1 THEN <<Above>> ELSE <<Below, Above>>, left)
      PROVE  StringsInvariant' /\ ValuesStep
  <2>. DEFINE sum == add_str_lit(heap, b, chars)
  <2>1. sum = Put(heap, f, whole)
    BY <1>3, <1>8, AddPuts
  <2>2. left.block = f /\ left.lost = {} /\ left.text = whole
    BY <1>8
  <2>3. Interpolated(sum, IF n = 1 THEN <<Above>> ELSE <<Below, Above>>, left)
    BY <1>8
  <2>. HIDE DEF sum
  <2>4. HeapIsSound(sum) /\ Grown(heap, sum, {f}) /\ sum[f].text = whole
    <3>1. ASSUME NEW w \in Seq(Chars), Len(w) <= MaxLen
          PROVE  /\ HeapIsSound(Put(heap, f, w)) /\ Grown(heap, Put(heap, f, w), {f})
                 /\ Put(heap, f, w)[f].text = w
      BY <1>3, <3>1, PutGrows
    <3>2. whole \in Seq(Chars) /\ Len(whole) <= MaxLen
      BY <1>8
    <3>. QED BY <2>1, <3>1, <3>2
  <2>5. {left.block} \cup left.lost = {f}
    BY <2>2
  <2>6. Grown(heap, sum, {left.block} \cup left.lost) /\ left.block \in Blocks /\ left.block \notin left.lost
        /\ left.lost \subseteq Blocks /\ sum[left.block].text = left.text
    BY <1>3, <2>2, <2>4, <2>5
  <2>7. n <= Len(stack) /\ (n = 2 => Below.kind # "literal")
    BY <1>8
  <2>. QED BY <1>1, <2>3, <2>4, <2>6, <2>7, InterpolatedKept
<1>9. ASSUME NEW c \in Chars, Len(Text(heap, Above.block)) < MaxLen,
             Interpolated(add_str_lit(heap, Above.block, <<c>>), <<Above>>,
               [block |-> Fresh(heap), lost |-> {}, text |-> Append(Above.text, c)])
      PROVE  StringsInvariant' /\ ValuesStep
  <2>. DEFINE whole == text \o <<c>>
              left == [block |-> f, lost |-> {}, text |-> whole]
  <2>1. Len(text) < MaxLen /\ Len(text) \in Nat
    BY <1>4, <1>5, <1>9 DEF Text
  <2>2. whole \in Seq(Chars) /\ Len(whole) <= MaxLen /\ <<c>> \in Seq(Chars) /\ Append(Above.text, c) = whole
    BY <1>4, <1>5, <1>6, <2>1
  <2>3. \A m \in {1, 2} : 1 <= m /\ 1 # 2 /\ 1 \in {1, 2}
    OBVIOUS
  <2>4. 1 <= Len(stack) /\ 1 \in {1, 2} /\ (1 = 2 => Below.kind # "literal")
    BY <1>2, <2>3, Zenon
  <2>5. Interpolated(add_str_lit(heap, Above.block, <<c>>), <<Above>>, left)
    BY <1>9, <2>2
  <2>6. Interpolated(add_str_lit(heap, Above.block, <<c>>),
                     IF 1 = 1 THEN <<Above>> ELSE <<Below, Above>>, left)
    BY <2>5
  <2>7. whole = heap[Above.block].text \o <<c>> /\ left = [block |-> f, lost |-> {}, text |-> whole]
    OBVIOUS
  <2>. HIDE DEF left, whole
  <2>. QED BY <1>4, <1>8, <2>2, <2>4, <2>6, <2>7
<1>10. ASSUME Len(stack) >= 2, Below.kind # "literal",
              Len(Text(heap, Above.block)) + Len(Text(heap, Below.block)) <= MaxLen,
              Interpolated(add_str_str(heap, Below.block, Above.block), <<Below, Above>>,
                [block |-> Fresh(heap), lost |-> {}, text |-> Below.text \o Above.text])
       PROVE  StringsInvariant' /\ ValuesStep
  <2>. DEFINE whole == heap[Below.block].text \o text
              left == [block |-> f, lost |-> {}, text |-> whole]
  <2>1. Len(stack) = 2
    <3>1. \A m \in {1, 2} : m >= 2 => m = 2
      OBVIOUS
    <3>. QED BY <1>2, <1>10, <3>1, Zenon
  <2>2. Below.block \in Blocks /\ Below.text = heap[Below.block].text /\ Below.text \in Seq(Chars)
    BY <2>1, OperandsHere DEF IsOperand, OperandSet
  <2>3. whole \in Seq(Chars) /\ Len(whole) <= MaxLen /\ Below.text \o Above.text = whole
    <3>1. \A s, u \in Seq(Chars) : s \o u \in Seq(Chars) /\ Len(s \o u) = Len(u) + Len(s)
      OBVIOUS
    <3>2. Len(text) + Len(Below.text) <= MaxLen
      BY <1>10, <2>2 DEF Text
    <3>3. Len(whole) = Len(text) + Len(Below.text) /\ whole \in Seq(Chars)
      BY <1>4, <2>2, <3>1
    <3>. QED BY <1>4, <2>2, <3>2, <3>3
  <2>4. 2 <= Len(stack) /\ 2 \in {1, 2}
    BY <2>1
  <2>5. Interpolated(add_str_lit(heap, Below.block, text), <<Below, Above>>, left)
    BY <1>10, <2>3 DEF add_str_str, Text
  <2>6. Interpolated(add_str_lit(heap, Below.block, text),
                     IF 2 = 1 THEN <<Above>> ELSE <<Below, Above>>, left)
    BY <2>5
  <2>7. left = [block |-> f, lost |-> {}, text |-> whole] /\ whole = heap[Below.block].text \o text
    OBVIOUS
  <2>. HIDE DEF left, whole
  <2>. QED BY <1>4, <1>8, <1>10, <2>2, <2>3, <2>4, <2>6, <2>7
<1>. QED BY <1>7, <1>9, <1>10 DEF generate_string_interpolation

(* A slice makes a block of its own; its bounds, right or clamped, stay
   inside the text it is taken from. *)
LEMMA SliceKept ==
  ASSUME ~IsFiniteSet(Blocks), Careless = {}, StringsInvariant,
         NEW from \in 0 .. MaxLen, NEW to \in (0 .. MaxLen + 1) \cup {OpenEnd}, generate_slice(from, to)
  PROVE  StringsInvariant' /\ ValuesStep
<1>. DEFINE f == Fresh(heap)
            text == heap[Above.block].text
            len == Len(text)
<1>1. MaxLen \in Nat
  BY StringsAssumption, Zenon
<1>2. from \in Nat /\ to \in Nat
  BY <1>1 DEF OpenEnd
<1>3. /\ at = "expression" /\ Len(stack) > 0 /\ Above.kind \in {"variable", "slice"}
      /\ stmt' = [stmt EXCEPT !.operands = @ + 1] /\ var' = var /\ garbage' = garbage
  BY DEF generate_slice, MayGrow, Evaluating, Counted
<1>4. Len(stack) \in {1, 2} /\ Len(stack) >= 1
  <2>1. \A m \in {0, 1, 2} : m > 0 => m >= 1 /\ m \in {1, 2}
    OBVIOUS
  <2>. QED BY <1>3, <2>1, OperandsHere, Zenon
<1>5. IsOperand(Above, heap, var) /\ Taken(stack, 1) = Own(Above)
  BY <1>4, OperandsHere
<1>6. HeapIsSound(heap) /\ f \in Blocks /\ heap[f].live = FALSE
  BY FreshBlocks DEF StringsInvariant
<1>7. Above.block \in Blocks /\ Above.text = text /\ Above.late \subseteq Blocks /\ text \in Seq(Chars)
  BY <1>5 DEF IsOperand, OperandSet
<1>8. len \in Nat /\ len <= MaxLen
  BY <1>6, <1>7 DEF HeapIsSound
<1>9. ~(~SliceAborts(len, from, to) /\ SliceOutOfBounds(len, from, to) /\ (Checked \/ "index without checks" \in Careless))
  <2>. DEFINE real_to == SliceTo(len, to)
              real_from == SliceFrom(from, real_to)
  <2>. SUFFICES ASSUME Checked, ~SliceAborts(len, from, to) PROVE ~SliceOutOfBounds(len, from, to)
    OBVIOUS
  <2>1. real_to \in Nat /\ real_to <= len
    <3>. HIDE DEF len
    <3>. QED BY <1>1, <1>2, <1>8 DEF SliceTo, OpenEnd
  <2>2. ~(from > real_to /\ real_to = 0)
    BY DEF SliceAborts
  <2>3. real_from = IF from > real_to THEN real_to - 1 ELSE from
    BY DEF SliceFrom
  <2>4. SliceOutOfBounds(len, from, to)
          <=> from # real_to /\ ~(0 <= real_from /\ real_from <= real_to /\ real_to <= len)
    BY DEF SliceOutOfBounds
  <2>. HIDE DEF real_to, real_from, len
  <2>. QED BY <1>2, <1>8, <2>1, <2>2, <2>3, <2>4
<1>10. CASE at' = "aborted" /\ heap' = heap /\ stack' = stack /\ lost' = lost
  <2>1. stmt' \in StatementSet
    BY <1>3 DEF StringsInvariant, StatementFits, StatementSet
  <2>2. StatementFits'
    BY <1>10, <2>1 DEF StatementFits
  <2>3. StringsInvariant'
    BY <1>3, <1>10, <2>2 DEF StringsInvariant
  <2>4. ValuesStep
    BY <1>3, <1>10 DEF ValuesStep
  <2>. QED BY <2>3, <2>4
<1>11. CASE /\ ~SliceOutOfBounds(len, from, to) /\ heap' = get_str_slice(heap, Above.block, from, to) /\ at' = at
            /\ stack' = Append(Popped(1), Operand("slice", Fresh(heap), Above.late,
                 IF from <= to /\ to <= len THEN SubSeq(Above.text, from + 1, to)
                 ELSE Text(heap', Fresh(heap))))
            /\ lost' = lost \cup Unregistered(Above)
  <2>. DEFINE chars == SliceText(text, from, to)
              o == Operand("slice", f, Above.late, chars)
  <2>1. /\ get_str_slice(heap, Above.block, from, to) = Put(heap, f, chars)
        /\ chars \in Seq(Chars) /\ Len(chars) <= MaxLen
        /\ from <= to /\ to <= len => chars = SubSeq(text, from + 1, to)
    BY <1>2, <1>6, <1>7, <1>11, SlicePuts
  <2>2. heap' = Put(heap, f, chars)
    BY <1>11, <2>1
  <2>3. HeapIsSound(heap') /\ Grown(heap, heap', {f}) /\ heap'[f].text = chars
    <3>. HIDE DEF chars
    <3>. QED BY <1>6, <2>1, <2>2, PutGrows
  <2>4. stack' = Append(Popped(1), o)
    BY <1>7, <1>11, <2>1, <2>3 DEF Text
  <2>5. /\ \A b : b \in Own(Above) <=> b \in Above.late \/ b \in Unregistered(Above)
        /\ \A b \in Above.late : b \notin Unregistered(Above)
    BY <1>3, <1>5, OperandParts DEF Literal
  <2>6. /\ Own(Above) \subseteq Blocks /\ garbage \subseteq Blocks /\ lost \subseteq Blocks
        /\ \A b \in Blocks : b \in Own(Above) \/ b \in garbage \/ b \in lost => heap[b].live
        /\ \A b \in Blocks : /\ b \in Own(Above) => b \notin garbage /\ b \notin lost
                             /\ b \in garbage => b \notin lost
    BY <1>4, OperandsApart
  <2>. HIDE DEF chars, f
  <2>7. f \notin Above.late
    BY <1>6, <2>5, <2>6
  <2>8. IsOperand(o, heap', var) /\ Own(o) = {f} \cup Above.late
    BY <1>6, <1>7, <2>1, <2>3, <2>7 DEF IsOperand, OperandSet, OperandKinds, Operand, Own
  <2>. HIDE DEF o
  <2>9. Redistributed({f}, Taken(stack, 1), Own(o), garbage, lost, garbage', lost')
    BY <1>3, <1>5, <1>6, <1>11, <2>5, <2>6, <2>8 DEF Redistributed
  <2>10. 1 <= Len(stack) /\ Len(stack) - 1 < 2 /\ 1 \in Nat
    <3>1. \A m \in {1, 2} : 1 <= m /\ m - 1 < 2 /\ 1 \in Nat
      OBVIOUS
    <3>. QED BY <1>4, <3>1, Zenon
  <2>. QED BY <1>3, <1>11, <2>3, <2>4, <2>8, <2>9, <2>10, ExpressionGrows
<1>. QED BY <1>9, <1>10, <1>11 DEF generate_slice, Text

----------------------------------------
(* The ends of statements, and what happens between them. *)

(* Nothing is evaluated any more: variables have the blocks, or nobody. *)
LEMMA Settled ==
  ASSUME StringsInvariant, at' \in {"idle", "aborted"}, stmt' = NoStatement, stack' = << >>, garbage' = {},
         HeapIsSound(heap'), var' \in [Vars -> Blocks \cup {None}], Injective(var'), lost' \subseteq Blocks,
         \A b \in Blocks : heap'[b].live <=> HasVar(var', b) \/ b \in lost',
         \A b \in Blocks : HasVar(var', b) => b \notin lost'
  PROVE  StringsInvariant'
<1>. DEFINE T == Temporaries(stack')
<1>1. AreOperands(stack', heap', var') /\ T[1] = {} /\ T[2] = {}
  BY NoOperands
<1>. HIDE DEF T
<1>2. \A i \in {1, 2} : T[i] \subseteq Blocks
  BY <1>1
<1>3. Belong(heap', var', T, garbage', lost')
  BY <1>1, <1>2 DEF Belong, Injective
<1>4. StatementFits'
  BY DEF StatementFits, StatementSet, NoStatement
<1>. QED BY <1>1, <1>3, <1>4 DEF StringsInvariant, T

(* Between statements no block is anything else. *)
LEMMA NothingEvaluated ==
  ASSUME StringsInvariant, at = "idle"
  PROVE  /\ stmt = NoStatement /\ stack = << >> /\ garbage = {} /\ lost \subseteq Blocks
         /\ HeapIsSound(heap) /\ var \in [Vars -> Blocks \cup {None}] /\ Injective(var)
         /\ \A b \in Blocks : heap[b].live <=> HasVar(var, b) \/ b \in lost
         /\ \A b \in Blocks : HasVar(var, b) => b \notin lost
<1>. DEFINE T == Temporaries(stack)
<1>1. stmt = NoStatement /\ stack = << >> /\ garbage = {} /\ Belong(heap, var, T, garbage, lost)
  BY DEF StringsInvariant, StatementFits
<1>2. T[1] = {} /\ T[2] = {}
  BY <1>1, NoOperands
<1>. HIDE DEF T
<1>3. /\ lost \subseteq Blocks /\ Injective(var)
      /\ \A b \in Blocks : heap[b].live <=> HasVar(var, b) \/ b \in lost
      /\ \A b \in Blocks : HasVar(var, b) => b \notin lost
  BY <1>1, <1>2 DEF Belong, Injective
<1>. QED BY <1>1, <1>3 DEF StringsInvariant

(* The statement has one operand left. *)
LEMMA OneLeft ==
  ASSUME StringsInvariant, Len(stack) = 1
  PROVE  /\ HeapIsSound(heap) /\ var \in [Vars -> Blocks \cup {None}] /\ Injective(var)
         /\ Own(Above) \subseteq Blocks /\ garbage \subseteq Blocks /\ lost \subseteq Blocks
         /\ \A b \in Blocks : heap[b].live <=> HasVar(var, b) \/ b \in Own(Above) \/ b \in garbage \/ b \in lost
         /\ \A b \in Blocks : HasVar(var, b) => b \notin Own(Above) /\ b \notin garbage /\ b \notin lost
         /\ \A b \in Blocks : /\ b \in Own(Above) => b \notin garbage /\ b \notin lost
                              /\ b \in garbage => b \notin lost
         /\ Above.block \in Blocks /\ Above.text = heap[Above.block].text /\ Above.text \in Seq(Chars)
         /\ Above.kind \in OperandKinds
         /\ Above.block \notin garbage /\ (HasVar(var, Above.block) \/ Above.block \in Own(Above))
<1>1. Len(stack) >= 1
  OBVIOUS
<1>2. /\ Own(Above) \subseteq Blocks /\ garbage \subseteq Blocks /\ lost \subseteq Blocks
      /\ \A b \in Blocks : b \in Own(Above) \/ b \in garbage \/ b \in lost => heap[b].live /\ ~HasVar(var, b)
      /\ \A b \in Blocks : /\ b \in Own(Above) => b \notin garbage /\ b \notin lost
                           /\ b \in garbage => b \notin lost
      /\ \A b \in Blocks : heap[b].live <=> HasVar(var, b) \/ b \in Own(Above) \/ b \in garbage \/ b \in lost
  BY <1>1, OperandsApart
<1>3. IsOperand(Above, heap, var)
  BY <1>1, OperandsHere
<1>4. /\ Above.block \in Blocks /\ Above.text = heap[Above.block].text /\ Above.text \in Seq(Chars)
      /\ Above.kind \in OperandKinds /\ (HasVar(var, Above.block) \/ Above.block \in Own(Above))
  BY <1>3 DEF IsOperand, OperandSet, Own
<1>5. Above.block \notin garbage
  BY <1>2, <1>4
<1>6. Injective(var)
  BY DEF StringsInvariant, Belong, Injective
<1>. QED BY <1>2, <1>4, <1>5, <1>6 DEF StringsInvariant

(* What a statement drops of its last operand. *)
LEMMA DroppedIs ==
  ASSUME StringsInvariant, Len(stack) = 1
  PROVE  /\ IsProducer(Above) => \A b : b \in Dropped <=> b \in Own(Above) /\ b # Above.block
         /\ IsProducer(Above) => Above.block \in Own(Above)
         /\ ~IsProducer(Above) => Dropped = Own(Above)
         /\ Above.kind # "variable" =>
              /\ Above.block \in Own(Above)
              /\ \A b : b \in Dropped \ {Above.block} <=> b \in Own(Above) /\ b # Above.block
         /\ Above.kind = "variable" => Own(Above) = {} /\ Dropped = {} /\ HasVar(var, Above.block)
<1>1. IsOperand(Above, heap, var)
  BY OperandsHere
<1>2. /\ \A b : b \in Own(Above) <=> b \in Above.late \/ b \in Literal(Above) \/ b \in Unregistered(Above)
  BY <1>1, OperandParts
<1>3. CASE IsProducer(Above)
  BY <1>1, <1>3 DEF IsProducer, Dropped, Own, IsOperand
<1>4. CASE ~IsProducer(Above)
  <2>1. Dropped = Above.late \cup Literal(Above) \cup Unregistered(Above)
    BY <1>4 DEF Dropped
  <2>2. Dropped = Own(Above)
    BY <1>2, <2>1
  <2>. QED BY <1>1, <1>4, <2>2 DEF Own, IsOperand
<1>. QED BY <1>3, <1>4

(* The strings of other variables are as they were. *)
OthersKept(x) == \A y \in Vars : y # x /\ var[y] # None => var'[y] = var[y] /\ heap'[var[y]].text = heap[var[y]].text

(* A statement that stores what was wanted and leaves the other variables
   alone keeps the values. *)
LEMMA StoredValue ==
  ASSUME at = "expression", at' = "idle", stmt.form # "compare", stmt.target \in Vars,
         \A y \in Vars : y # stmt.target => var'[y] = var[y], OthersKept(stmt.target),
         heap'[var'[stmt.target]].text = Wanted
  PROVE  ValuesStep
  BY DEF ValuesStep, OthersKept, Text

(* A declaration stores the block of a producer and clones every other
   one. *)
LEMMA DeclarationKept ==
  ASSUME ~IsFiniteSet(Blocks), StringsInvariant, generate_declaration
  PROVE  StringsInvariant' /\ ValuesStep
<1>. DEFINE x == stmt.target
            b == Above.block
<1>1. /\ at = "expression" /\ stmt.form = "declare" /\ Len(stack) = 1
      /\ at' = "idle" /\ stmt' = NoStatement /\ stack' = << >> /\ garbage' = {}
      /\ lost' = lost \cup Dropped
      /\ IF IsProducer(Above) THEN Stored(Cleared, b)
         ELSE Stored(clone_str(Cleared, b), Fresh(Cleared))
  BY DEF generate_declaration, EndsAs, Done, Evaluating
<1>12. at' \in {"idle", "aborted"} /\ stmt' = NoStatement /\ stack' = << >> /\ garbage' = {}
  BY <1>1
<1>2. x \in Vars /\ var[x] = None
  BY <1>1 DEF StringsInvariant, StatementFits
<1>3. /\ HeapIsSound(heap) /\ var \in [Vars -> Blocks \cup {None}] /\ Injective(var)
      /\ Own(Above) \subseteq Blocks /\ garbage \subseteq Blocks /\ lost \subseteq Blocks
      /\ \A c \in Blocks : heap[c].live <=> HasVar(var, c) \/ c \in Own(Above) \/ c \in garbage \/ c \in lost
      /\ \A c \in Blocks : HasVar(var, c) => c \notin Own(Above) /\ c \notin garbage /\ c \notin lost
      /\ \A c \in Blocks : /\ c \in Own(Above) => c \notin garbage /\ c \notin lost
                           /\ c \in garbage => c \notin lost
      /\ b \in Blocks /\ Above.text = heap[b].text /\ Above.text \in Seq(Chars)
      /\ b \notin garbage
  BY <1>1, OneLeft
<1>4. /\ IsProducer(Above) => b \in Own(Above) /\ \A c : c \in Dropped <=> c \in Own(Above) /\ c # b
      /\ ~IsProducer(Above) => Dropped = Own(Above)
  BY <1>1, DroppedIs
<1>5. /\ HeapIsSound(Cleared)
      /\ \A c \in Blocks : Cleared[c] = IF c \in garbage THEN [live |-> FALSE, text |-> << >>] ELSE heap[c]
  BY <1>3, FreedIsSound DEF Cleared
<1>6. None \notin Blocks
  BY StringsAssumption, Zenon
<1>7. ASSUME NEW f \in Blocks, ~HasVar(var, f), var' = Given(var, x, f)
      PROVE  /\ var' \in [Vars -> Blocks \cup {None}] /\ Injective(var')
             /\ var'[x] = f /\ \A y \in Vars : y # x => var'[y] = var[y]
             /\ \A c \in Blocks : HasVar(var', c) <=> c = f \/ HasVar(var, c)
  <2>. HIDE DEF x
  <2>1. /\ var' \in [Vars -> Blocks \cup {None}] /\ Injective(var')
        /\ var'[x] = f /\ \A y \in Vars : y # x => var'[y] = var[y]
        /\ \A c \in Blocks : HasVar(var', c) <=> c = f \/ (HasVar(var, c) /\ c # var[x])
    BY <1>2, <1>3, <1>7, Restored
  <2>. QED BY <1>2, <1>6, <2>1
<1>8. \A y \in Vars : var[y] # None => var[y] \in Blocks /\ HasVar(var, var[y])
  BY <1>3 DEF HasVar
<1>9. Wanted = Above.text
  BY <1>1, <1>3 DEF Wanted
<1>10. CASE IsProducer(Above)
  <2>1. heap' = Cleared /\ var' = Given(var, x, b)
    BY <1>1, <1>10 DEF Stored, Given
  <2>2. ~HasVar(var, b)
    BY <1>3, <1>4, <1>10
  <2>. HIDE DEF x, b
  <2>3. /\ var' \in [Vars -> Blocks \cup {None}] /\ Injective(var')
        /\ var'[x] = b /\ \A y \in Vars : y # x => var'[y] = var[y]
        /\ \A c \in Blocks : HasVar(var', c) <=> c = b \/ HasVar(var, c)
    BY <1>3, <1>7, <2>1, <2>2
  <2>4. \A c \in Blocks : heap'[c] = IF c \in garbage THEN [live |-> FALSE, text |-> << >>] ELSE heap[c]
    BY <1>5, <2>1
  <2>5. \A c \in Blocks : heap'[c].live <=> heap[c].live /\ c \notin garbage
    BY <2>4
  <2>6. \A c : c \in lost' <=> c \in lost \/ (c \in Own(Above) /\ c # b)
    BY <1>1, <1>4, <1>10
  <2>7. /\ lost' \subseteq Blocks
        /\ \A c \in Blocks : heap'[c].live <=> HasVar(var', c) \/ c \in lost'
        /\ \A c \in Blocks : HasVar(var', c) => c \notin lost'
    BY <1>3, <1>4, <1>10, <2>3, <2>5, <2>6
  <2>8. StringsInvariant'
    BY <1>12, <1>5, <2>1, <2>3, <2>7, Settled
  <2>9. OthersKept(stmt.target)
    BY <1>3, <1>8, <2>3, <2>4 DEF OthersKept, x
  <2>10. heap'[var'[stmt.target]].text = Wanted
    BY <1>3, <1>9, <2>3, <2>4 DEF x
  <2>. QED BY <1>1, <1>2, <2>3, <2>8, <2>9, <2>10, StoredValue DEF x
<1>11. CASE ~IsProducer(Above)
  <2>. DEFINE f == Fresh(Cleared)
              chars == Text(Cleared, b)
  <2>1. heap' = clone_str(Cleared, b) /\ var' = Given(var, x, f)
    BY <1>1, <1>11 DEF Stored, Given
  <2>2. chars = Above.text
    BY <1>3, <1>5 DEF Text
  <2>3. f \in Blocks /\ Cleared[f].live = FALSE
    BY <1>5, FreshBlocks
  <2>4. chars \in Seq(Chars) /\ Len(chars) <= MaxLen
    BY <1>3, <2>2 DEF HeapIsSound
  <2>. HIDE DEF chars
  <2>5. heap' = Put(Cleared, f, chars)
    BY <1>5, <2>1, <2>3, <2>4, InitPuts DEF clone_str, chars
  <2>6. HeapIsSound(heap') /\ Grown(Cleared, heap', {f}) /\ heap'[f].text = chars
    BY <1>5, <2>4, <2>5, PutGrows, ZenonT(60)
  <2>. HIDE DEF f, x, b
  <2>7. ~HasVar(var, f) /\ f \notin Own(Above) /\ f \notin lost
    BY <1>3, <1>5, <2>3
  <2>8. /\ var' \in [Vars -> Blocks \cup {None}] /\ Injective(var')
        /\ var'[x] = f /\ \A y \in Vars : y # x => var'[y] = var[y]
        /\ \A c \in Blocks : HasVar(var', c) <=> c = f \/ HasVar(var, c)
    BY <1>7, <2>1, <2>3, <2>7
  <2>9. \A c \in Blocks : heap'[c].live <=> c = f \/ (heap[c].live /\ c \notin garbage)
    BY <1>5, <2>6 DEF Grown
  <2>10. lost' = lost \cup Own(Above)
    BY <1>1, <1>4, <1>11
  <2>11. /\ lost' \subseteq Blocks
         /\ \A c \in Blocks : heap'[c].live <=> HasVar(var', c) \/ c \in lost'
         /\ \A c \in Blocks : HasVar(var', c) => c \notin lost'
    BY <1>3, <2>7, <2>8, <2>9, <2>10
  <2>12. StringsInvariant'
    BY <1>12, <2>6, <2>8, <2>11, Settled
  <2>13. ASSUME NEW y \in Vars, y # x, var[y] # None
         PROVE  var'[y] = var[y] /\ heap'[var[y]].text = heap[var[y]].text
    <3>1. var[y] \in Blocks /\ var[y] \notin garbage /\ var[y] # f
      BY <1>3, <1>8, <2>7, <2>13
    <3>. QED BY <1>5, <2>6, <2>8, <2>13, <3>1 DEF Grown
  <2>14. OthersKept(stmt.target)
    BY <2>13 DEF OthersKept, x
  <2>15. heap'[var'[stmt.target]].text = Wanted
    BY <1>9, <2>2, <2>6, <2>8 DEF x
  <2>. QED BY <1>1, <1>2, <2>8, <2>12, <2>14, <2>15, StoredValue DEF x
<1>. QED BY <1>10, <1>11

(* An assignment frees what the variable held unless it is assigned to
   itself. *)
LEMMA AssignmentKept ==
  ASSUME ~IsFiniteSet(Blocks), StringsInvariant, generate_string_assignment
  PROVE  StringsInvariant' /\ ValuesStep
<1>. DEFINE x == stmt.target
            b == Above.block
            old == var[x]
            freed == Freed(Cleared, old)
            f == Fresh(freed)
<1>1. /\ at = "expression" /\ stmt.form = "assign" /\ Len(stack) = 1
      /\ at' = "idle" /\ stmt' = NoStatement /\ stack' = << >> /\ garbage' = {}
      /\ lost' = lost \cup (Dropped \ {b})
  BY DEF generate_string_assignment, EndsAs, Done, Evaluating
<1>2. \/ Above.kind # "variable" /\ Stored(freed, b)
      \/ Above.kind = "variable" /\ b = old /\ Stored(Cleared, old)
      \/ Above.kind = "variable" /\ b # old /\ Stored(clone_str(freed, b), f)
  <2>1. CASE Above.kind # "variable"
    BY <2>1 DEF generate_string_assignment
  <2>2. CASE Above.kind = "variable" /\ b = old
    BY <2>2 DEF generate_string_assignment
  <2>3. CASE Above.kind = "variable" /\ b # old
    BY <2>3 DEF generate_string_assignment
  <2>. QED BY <2>1, <2>2, <2>3
<1>3. x \in Vars /\ var[x] # None
  BY <1>1 DEF StringsInvariant, StatementFits
<1>4. at' \in {"idle", "aborted"} /\ stmt' = NoStatement /\ stack' = << >> /\ garbage' = {}
  BY <1>1
<1>5. /\ HeapIsSound(heap) /\ var \in [Vars -> Blocks \cup {None}] /\ Injective(var)
      /\ Own(Above) \subseteq Blocks /\ garbage \subseteq Blocks /\ lost \subseteq Blocks
      /\ \A c \in Blocks : heap[c].live <=> HasVar(var, c) \/ c \in Own(Above) \/ c \in garbage \/ c \in lost
      /\ \A c \in Blocks : HasVar(var, c) => c \notin Own(Above) /\ c \notin garbage /\ c \notin lost
      /\ \A c \in Blocks : /\ c \in Own(Above) => c \notin garbage /\ c \notin lost
                           /\ c \in garbage => c \notin lost
      /\ b \in Blocks /\ Above.text = heap[b].text /\ Above.text \in Seq(Chars)
      /\ b \notin garbage
  BY <1>1, OneLeft
<1>6. /\ Above.kind # "variable" => b \in Own(Above) /\ \A c : c \in Dropped \ {b} <=> c \in Own(Above) /\ c # b
      /\ Above.kind = "variable" => Own(Above) = {} /\ Dropped = {} /\ HasVar(var, b)
  BY <1>1, DroppedIs
<1>7. old \in Blocks /\ HasVar(var, old)
  BY <1>3, <1>5 DEF HasVar
<1>8. /\ HeapIsSound(Cleared)
      /\ \A c \in Blocks : Cleared[c] = IF c \in garbage THEN [live |-> FALSE, text |-> << >>] ELSE heap[c]
  BY <1>5, FreedIsSound DEF Cleared
<1>9. /\ HeapIsSound(freed)
      /\ \A c \in Blocks : freed[c] = IF c = old THEN [live |-> FALSE, text |-> << >>] ELSE Cleared[c]
  <2>. HIDE DEF old, x
  <2>1. freed = FreedAll(Cleared, {old})
    BY <1>7, <1>8, OneFreed
  <2>2. /\ HeapIsSound(FreedAll(Cleared, {old}))
        /\ \A c \in Blocks : FreedAll(Cleared, {old})[c]
                              = IF c \in {old} THEN [live |-> FALSE, text |-> << >>] ELSE Cleared[c]
    BY <1>8, FreedIsSound
  <2>. HIDE DEF freed
  <2>. QED BY <2>1, <2>2
<1>10. \A y \in Vars : var[y] # None => var[y] \in Blocks /\ HasVar(var, var[y]) /\ (y # x => var[y] # old)
  BY <1>3, <1>5 DEF HasVar, Injective
<1>11. Wanted = Above.text
  BY <1>1, <1>5 DEF Wanted
<1>. HIDE DEF freed, f, old, b, x
<1>12. CASE Above.kind # "variable" /\ Stored(freed, b)
  <2>1. heap' = freed /\ var' = Given(var, x, b)
    BY <1>12 DEF Stored, Given, x
  <2>2. ~HasVar(var, b) /\ b # old
    BY <1>5, <1>6, <1>7, <1>12
  <2>3. /\ var' \in [Vars -> Blocks \cup {None}] /\ Injective(var')
        /\ var'[x] = b /\ \A y \in Vars : y # x => var'[y] = var[y]
        /\ \A c \in Blocks : HasVar(var', c) <=> c = b \/ (HasVar(var, c) /\ c # old)
    BY <1>3, <1>5, <2>1, <2>2, Restored DEF old
  <2>4. \A c \in Blocks : c # old /\ c \notin garbage => heap'[c] = heap[c]
    BY <1>8, <1>9, <2>1
  <2>5. \A c \in Blocks : heap'[c].live <=> heap[c].live /\ c \notin garbage /\ c # old
    BY <1>8, <1>9, <2>1
  <2>6. \A c : c \in lost' <=> c \in lost \/ (c \in Own(Above) /\ c # b)
    BY <1>1, <1>6, <1>12
  <2>7. /\ lost' \subseteq Blocks
        /\ \A c \in Blocks : heap'[c].live <=> HasVar(var', c) \/ c \in lost'
        /\ \A c \in Blocks : HasVar(var', c) => c \notin lost'
    BY <1>5, <1>6, <1>7, <1>12, <2>3, <2>5, <2>6
  <2>8. StringsInvariant'
    BY <1>4, <1>9, <2>1, <2>3, <2>7, Settled
  <2>9. OthersKept(stmt.target)
    BY <1>5, <1>10, <2>3, <2>4 DEF OthersKept, x
  <2>10. heap'[var'[stmt.target]].text = Wanted
    BY <1>5, <1>11, <2>2, <2>3, <2>4 DEF x
  <2>. QED BY <1>1, <1>3, <2>3, <2>8, <2>9, <2>10, StoredValue DEF x
<1>13. CASE Above.kind = "variable" /\ b = old /\ Stored(Cleared, old)
  <2>1. heap' = Cleared /\ var' = Given(var, x, old)
    BY <1>13 DEF Stored, Given, x
  <2>2. old = var[x]
    BY DEF old
  <2>3. /\ var' \in [Vars -> Blocks \cup {None}] /\ Injective(var')
        /\ var'[x] = old /\ \A y \in Vars : y # x => var'[y] = var[y]
        /\ \A c \in Blocks : HasVar(var', c) <=> c = old \/ (HasVar(var, c) /\ c # old)
    BY <1>3, <1>5, <1>7, <2>1, <2>2, Restored
  <2>4. \A c \in Blocks : c \notin garbage => heap'[c] = heap[c]
    BY <1>8, <2>1
  <2>5. \A c \in Blocks : heap'[c].live <=> heap[c].live /\ c \notin garbage
    BY <1>8, <2>1
  <2>6. lost' = lost /\ Own(Above) = {}
    BY <1>1, <1>6, <1>13
  <2>7. /\ lost' \subseteq Blocks
        /\ \A c \in Blocks : heap'[c].live <=> HasVar(var', c) \/ c \in lost'
        /\ \A c \in Blocks : HasVar(var', c) => c \notin lost'
    BY <1>5, <1>7, <2>3, <2>5, <2>6
  <2>8. StringsInvariant'
    BY <1>4, <1>8, <2>1, <2>3, <2>7, Settled
  <2>9. OthersKept(stmt.target)
    BY <1>5, <1>10, <2>3, <2>4 DEF OthersKept, x
  <2>10. heap'[var'[stmt.target]].text = Wanted
    BY <1>5, <1>11, <1>13, <2>3, <2>4 DEF x
  <2>. QED BY <1>1, <1>3, <2>3, <2>8, <2>9, <2>10, StoredValue DEF x
<1>14. CASE Above.kind = "variable" /\ b # old /\ Stored(clone_str(freed, b), f)
  <2>. DEFINE chars == Text(freed, b)
  <2>1. heap' = clone_str(freed, b) /\ var' = Given(var, x, f)
    BY <1>14 DEF Stored, Given, x
  <2>2. chars = Above.text
    BY <1>5, <1>8, <1>9, <1>14 DEF Text
  <2>3. f \in Blocks /\ freed[f].live = FALSE
    BY <1>9, FreshBlocks DEF f
  <2>4. chars \in Seq(Chars) /\ Len(chars) <= MaxLen
    BY <1>5, <2>2 DEF HeapIsSound
  <2>. HIDE DEF chars
  <2>5. heap' = Put(freed, f, chars)
    BY <1>9, <2>1, <2>3, <2>4, InitPuts DEF clone_str, chars, f
  <2>6. HeapIsSound(heap') /\ Grown(freed, heap', {f}) /\ heap'[f].text = chars
    BY <1>9, <2>4, <2>5, PutGrows, ZenonT(60) DEF f
  <2>7. (~HasVar(var, f) \/ f = old) /\ f \notin lost
    BY <1>5, <1>7, <1>8, <1>9, <2>3
  <2>8. /\ var' \in [Vars -> Blocks \cup {None}] /\ Injective(var')
        /\ var'[x] = f /\ \A y \in Vars : y # x => var'[y] = var[y]
        /\ \A c \in Blocks : HasVar(var', c) <=> c = f \/ (HasVar(var, c) /\ c # old)
    BY <1>3, <1>5, <2>1, <2>3, <2>7, Restored DEF old
  <2>9. \A c \in Blocks : heap'[c].live <=> c = f \/ (heap[c].live /\ c \notin garbage /\ c # old)
    BY <1>8, <1>9, <2>6 DEF Grown
  <2>10. lost' = lost /\ Own(Above) = {}
    BY <1>1, <1>6, <1>14
  <2>11. /\ lost' \subseteq Blocks
         /\ \A c \in Blocks : heap'[c].live <=> HasVar(var', c) \/ c \in lost'
         /\ \A c \in Blocks : HasVar(var', c) => c \notin lost'
    BY <1>5, <1>7, <2>7, <2>8, <2>9, <2>10
  <2>12. StringsInvariant'
    BY <1>4, <2>6, <2>8, <2>11, Settled
  <2>13. ASSUME NEW y \in Vars, y # x, var[y] # None
         PROVE  var'[y] = var[y] /\ heap'[var[y]].text = heap[var[y]].text
    <3>1. var[y] \in Blocks /\ var[y] \notin garbage /\ var[y] # old /\ HasVar(var, var[y])
      BY <1>5, <1>10, <2>13
    <3>2. var[y] # f
      BY <2>7, <3>1
    <3>3. heap'[var[y]] = heap[var[y]]
      BY <1>8, <1>9, <2>6, <3>1, <3>2 DEF Grown
    <3>. QED BY <2>8, <2>13, <3>3
  <2>14. OthersKept(stmt.target)
    BY <2>13 DEF OthersKept, x
  <2>15. heap'[var'[stmt.target]].text = Wanted
    BY <1>11, <2>2, <2>6, <2>8 DEF x
  <2>. QED BY <1>1, <1>3, <2>8, <2>12, <2>14, <2>15, StoredValue DEF x
<1>. QED BY <1>2, <1>12, <1>13, <1>14

(* An append may move the target; its source is another block, so the
   text read is the source's. *)
LEMMA AppendKept ==
  ASSUME ~IsFiniteSet(Blocks), Careless = {}, StringsInvariant, generate_append
  PROVE  StringsInvariant' /\ ValuesStep
<1>. DEFINE x == stmt.target
            b == Above.block
            old == var[x]
            chars == heap[old].text \o heap[b].text
<1>1. at = "expression" /\ stmt.form = "append" /\ Len(stack) = 1 /\ old # b
      /\ Len(heap[old].text) + Len(heap[b].text) <= MaxLen
  BY DEF generate_append, EndsAs, Evaluating, Text
<1>2. PICK moves \in BOOLEAN :
        /\ Done
        /\ Stored(FreedAll(append_str(heap, old, b, moves), garbage \cup Above.late), Moved(heap, old, moves))
        /\ lost' = lost \cup Literal(Above) \cup Unregistered(Above)
  BY <1>1 DEF generate_append, ReadsFreedSource
<1>. DEFINE kept == IF moves THEN FreedAll(heap, {old}) ELSE heap
            m == Moved(heap, old, moves)
            grown == append_str(heap, old, b, moves)
            F == garbage \cup Above.late
<1>3. x \in Vars /\ var[x] # None
  BY <1>1 DEF StringsInvariant, StatementFits
<1>4. at' = "idle" /\ at' \in {"idle", "aborted"} /\ stmt' = NoStatement /\ stack' = << >> /\ garbage' = {}
  BY <1>2 DEF Done
<1>5. /\ HeapIsSound(heap) /\ var \in [Vars -> Blocks \cup {None}] /\ Injective(var)
      /\ Own(Above) \subseteq Blocks /\ garbage \subseteq Blocks /\ lost \subseteq Blocks
      /\ \A c \in Blocks : heap[c].live <=> HasVar(var, c) \/ c \in Own(Above) \/ c \in garbage \/ c \in lost
      /\ \A c \in Blocks : HasVar(var, c) => c \notin Own(Above) /\ c \notin garbage /\ c \notin lost
      /\ \A c \in Blocks : /\ c \in Own(Above) => c \notin garbage /\ c \notin lost
                           /\ c \in garbage => c \notin lost
      /\ b \in Blocks /\ Above.text = heap[b].text /\ Above.text \in Seq(Chars)
  BY <1>1, OneLeft
<1>6. /\ \A c : c \in Own(Above) <=> c \in Above.late \/ c \in Literal(Above) \/ c \in Unregistered(Above)
      /\ \A c : c \in Above.late => c \notin Literal(Above) /\ c \notin Unregistered(Above)
  <2>1. IsOperand(Above, heap, var)
    BY <1>1, OperandsHere
  <2>. QED BY <2>1, OperandParts
<1>7. old \in Blocks /\ HasVar(var, old)
  BY <1>3, <1>5 DEF HasVar
<1>8. Fresh(heap) \in Blocks /\ heap[Fresh(heap)].live = FALSE
  BY <1>5, FreshBlocks
<1>9. m = IF moves THEN Fresh(heap) ELSE old
  BY DEF Moved
<1>10. m \in Blocks /\ (~HasVar(var, m) \/ m = old) /\ m \notin F /\ m \notin lost
  BY <1>5, <1>6, <1>7, <1>8, <1>9
<1>11. heap[old].text \in Seq(Chars) /\ chars \in Seq(Chars) /\ Len(chars) <= MaxLen
  <2>1. \A s, u \in Seq(Chars) : s \o u \in Seq(Chars) /\ Len(s \o u) = Len(s) + Len(u)
    OBVIOUS
  <2>2. heap[old].text \in Seq(Chars) /\ heap[b].text \in Seq(Chars)
    BY <1>5, <1>7 DEF HeapIsSound
  <2>. QED BY <1>1, <2>1, <2>2
<1>. HIDE DEF m, old, b, x
<1>12. HeapIsSound(kept) /\ \A c \in Blocks : kept[c] = IF moves /\ c = old THEN [live |-> FALSE, text |-> << >>] ELSE heap[c]
  <2>1. CASE moves
    <3>1. /\ HeapIsSound(FreedAll(heap, {old}))
          /\ \A c \in Blocks : FreedAll(heap, {old})[c]
                                = IF c \in {old} THEN [live |-> FALSE, text |-> << >>] ELSE heap[c]
      BY <1>5, FreedIsSound
    <3>. QED BY <2>1, <3>1
  <2>2. CASE ~moves
    BY <1>5, <2>2
  <2>. QED BY <2>1, <2>2
<1>13. grown = Put(kept, m, chars)
  <2>1. append_str(heap, old, b, moves)
          = Put(IF moves THEN FreedAll(heap, {old}) ELSE heap, Moved(heap, old, moves),
                heap[old].text \o heap[b].text)
    <3>1. moves \in BOOLEAN
      BY <1>2
    <3>. QED BY <1>5, <1>7, <1>8, <3>1, AppendPuts, ZenonT(60)
  <2>. QED BY <2>1 DEF m
<1>. HIDE DEF kept, chars
<1>14. /\ HeapIsSound(Put(kept, m, chars))
       /\ \A c \in Blocks : Put(kept, m, chars)[c] = IF c = m THEN [live |-> TRUE, text |-> chars] ELSE kept[c]
  BY <1>10, <1>11, <1>12, PutIsSound
<1>. HIDE DEF grown
<1>15. /\ HeapIsSound(FreedAll(grown, F))
       /\ \A c \in Blocks : FreedAll(grown, F)[c] = IF c \in F THEN [live |-> FALSE, text |-> << >>] ELSE grown[c]
  BY <1>13, <1>14, FreedIsSound
<1>16. heap' = FreedAll(grown, F) /\ var' = Given(var, x, m)
  BY <1>2 DEF Stored, Given, x, grown, m, b, old
<1>. HIDE DEF F
<1>17. \A c \in Blocks : heap'[c] = IF c \in F THEN [live |-> FALSE, text |-> << >>]
                                     ELSE IF c = m THEN [live |-> TRUE, text |-> chars]
                                     ELSE IF moves /\ c = old THEN [live |-> FALSE, text |-> << >>] ELSE heap[c]
  BY <1>12, <1>13, <1>14, <1>15, <1>16
<1>18. /\ var' \in [Vars -> Blocks \cup {None}] /\ Injective(var')
       /\ var'[x] = m /\ \A y \in Vars : y # x => var'[y] = var[y]
       /\ \A c \in Blocks : HasVar(var', c) <=> c = m \/ (HasVar(var, c) /\ c # old)
  BY <1>3, <1>5, <1>10, <1>16, Restored DEF old
<1>19. \A c \in Blocks : heap'[c].live <=> c \notin F /\ (c = m \/ (heap[c].live /\ c # old))
  <2>1. ~moves => m = old
    BY <1>9
  <2>. QED BY <1>17, <2>1
<1>20. \A c : /\ c \in F <=> c \in garbage \/ c \in Above.late
              /\ c \in lost' <=> c \in lost \/ c \in Literal(Above) \/ c \in Unregistered(Above)
  BY <1>2 DEF F
<1>21. \A c \in Blocks : c \in F => ~HasVar(var, c)
  BY <1>5, <1>6, <1>20
<1>22. m \notin lost'
  BY <1>5, <1>6, <1>7, <1>8, <1>9, <1>20
<1>23. /\ lost' \subseteq Blocks
       /\ \A c \in Blocks : heap'[c].live <=> HasVar(var', c) \/ c \in lost'
       /\ \A c \in Blocks : HasVar(var', c) => c \notin lost'
  BY <1>5, <1>6, <1>7, <1>10, <1>18, <1>19, <1>20, <1>22
<1>24. StringsInvariant'
  BY <1>4, <1>15, <1>16, <1>18, <1>23, Settled
<1>25. ASSUME NEW y \in Vars, y # x, var[y] # None
       PROVE  var'[y] = var[y] /\ heap'[var[y]].text = heap[var[y]].text
  <2>1. var[y] \in Blocks /\ HasVar(var, var[y]) /\ var[y] # old
    BY <1>3, <1>5, <1>25 DEF HasVar, Injective, old
  <2>2. var[y] \notin F /\ var[y] # m
    BY <1>10, <1>21, <2>1
  <2>. QED BY <1>17, <1>18, <1>25, <2>1, <2>2
<1>26. OthersKept(stmt.target)
  BY <1>25 DEF OthersKept, x
<1>27. heap'[m].text = chars
  BY <1>10, <1>17
<1>28. Wanted = chars
  BY <1>1, <1>5 DEF Wanted, Text, chars, old, x
<1>. QED BY <1>1, <1>3, <1>4, <1>18, <1>24, <1>26, <1>27, <1>28, StoredValue DEF x

(* A discarded value is freed when a producer made it. *)
LEMMA DiscardKept ==
  ASSUME ~IsFiniteSet(Blocks), StringsInvariant, generate_discard
  PROVE  StringsInvariant' /\ ValuesStep
<1>. DEFINE b == Above.block
<1>1. /\ at = "expression" /\ stmt.form = "discard" /\ Len(stack) = 1 /\ var' = var
      /\ at' = "idle" /\ stmt' = NoStatement /\ stack' = << >> /\ garbage' = {}
      /\ lost' = lost \cup Dropped
      /\ heap' = IF IsProducer(Above) THEN Freed(Cleared, b) ELSE Cleared
  BY DEF generate_discard, EndsAs, Done, Evaluating
<1>2. at' \in {"idle", "aborted"} /\ stmt' = NoStatement /\ stack' = << >> /\ garbage' = {}
  BY <1>1
<1>3. /\ HeapIsSound(heap) /\ var \in [Vars -> Blocks \cup {None}] /\ Injective(var)
      /\ Own(Above) \subseteq Blocks /\ garbage \subseteq Blocks /\ lost \subseteq Blocks
      /\ \A c \in Blocks : heap[c].live <=> HasVar(var, c) \/ c \in Own(Above) \/ c \in garbage \/ c \in lost
      /\ \A c \in Blocks : HasVar(var, c) => c \notin Own(Above) /\ c \notin garbage /\ c \notin lost
      /\ \A c \in Blocks : /\ c \in Own(Above) => c \notin garbage /\ c \notin lost
                           /\ c \in garbage => c \notin lost
      /\ b \in Blocks
  BY <1>1, OneLeft
<1>4. /\ IsProducer(Above) => b \in Own(Above) /\ \A c : c \in Dropped <=> c \in Own(Above) /\ c # b
      /\ ~IsProducer(Above) => Dropped = Own(Above)
  BY <1>1, DroppedIs
<1>5. /\ HeapIsSound(Cleared)
      /\ \A c \in Blocks : Cleared[c] = IF c \in garbage THEN [live |-> FALSE, text |-> << >>] ELSE heap[c]
  BY <1>3, FreedIsSound DEF Cleared
<1>. HIDE DEF b
<1>6. HeapIsSound(heap') /\ \A c \in Blocks :
        heap'[c] = IF c \in garbage \/ (IsProducer(Above) /\ c = b) THEN [live |-> FALSE, text |-> << >>] ELSE heap[c]
  <2>1. CASE IsProducer(Above)
    <3>1. heap' = FreedAll(Cleared, {b})
      BY <1>1, <1>3, <1>5, <2>1, OneFreed
    <3>2. /\ HeapIsSound(FreedAll(Cleared, {b}))
          /\ \A c \in Blocks : FreedAll(Cleared, {b})[c]
                                = IF c \in {b} THEN [live |-> FALSE, text |-> << >>] ELSE Cleared[c]
      BY <1>5, FreedIsSound
    <3>. QED BY <1>5, <2>1, <3>1, <3>2
  <2>2. CASE ~IsProducer(Above)
    BY <1>1, <1>5, <2>2
  <2>. QED BY <2>1, <2>2
<1>7. /\ \A c \in Blocks : heap'[c].live <=> heap[c].live /\ c \notin garbage /\ ~(IsProducer(Above) /\ c = b)
      /\ \A c \in Blocks : c \notin garbage /\ ~(IsProducer(Above) /\ c = b) => heap'[c] = heap[c]
  BY <1>6
<1>8. \A c : c \in lost' <=> c \in lost \/ (c \in Own(Above) /\ ~(IsProducer(Above) /\ c = b))
  BY <1>1, <1>4
<1>9. /\ lost' \subseteq Blocks
      /\ \A c \in Blocks : heap'[c].live <=> HasVar(var', c) \/ c \in lost'
      /\ \A c \in Blocks : HasVar(var', c) => c \notin lost'
  BY <1>1, <1>3, <1>4, <1>7, <1>8
<1>10. StringsInvariant'
  <2>1. var' \in [Vars -> Blocks \cup {None}] /\ Injective(var')
    BY <1>1, <1>3
  <2>. QED BY <1>2, <1>6, <1>9, <2>1, Settled
<1>11. stmt.target = None /\ None \notin Vars
  <2>1. None \notin Vars
    BY StringsAssumption, Zenon
  <2>. QED BY <1>1, <2>1 DEF StringsInvariant, StatementFits
<1>12. ASSUME NEW y \in Vars, var[y] # None
       PROVE  heap'[var[y]].text = heap[var[y]].text
  <2>1. var[y] \in Blocks /\ HasVar(var, var[y])
    BY <1>3, <1>12 DEF HasVar
  <2>2. var[y] \notin garbage /\ ~(IsProducer(Above) /\ var[y] = b)
    BY <1>3, <1>4, <2>1
  <2>. QED BY <1>7, <2>1, <2>2
<1>13. ValuesStep
  BY <1>1, <1>11, <1>12 DEF ValuesStep, Text
<1>. QED BY <1>10, <1>13

(* Strings are compared by their characters. *)
LEMMA CompareTells ==
  ASSUME NEW s \in Seq(Chars), NEW u \in Seq(Chars)
  PROVE  compare_str(s, u) = 0 <=> s = u
<1>. DEFINE differ == {i \in DOMAIN s : s[i] # u[i]}
            first == CHOOSE i \in differ : \A j \in differ : i <= j
<1>1. Len(s) \in Nat /\ Len(u) \in Nat
  OBVIOUS
<1>2. CASE Len(s) # Len(u)
  BY <1>1, <1>2 DEF compare_str
<1>3. CASE Len(s) = Len(u) /\ differ = {}
  <2>1. s = u
    <3>1. \A i \in 1 .. Len(s) : s[i] = u[i]
      BY <1>3
    <3>. QED BY <1>3, <3>1
  <2>. QED BY <1>3, <2>1 DEF compare_str
<1>4. CASE Len(s) = Len(u) /\ differ # {}
  <2>1. s # u
    BY <1>4
  <2>2. compare_str(s, u) = IF s[first] < u[first] THEN -1 ELSE 1
    BY <1>4 DEF compare_str
  <2>. QED BY <2>1, <2>2
<1>. QED BY <1>2, <1>3, <1>4

(* A comparison frees the garbage of both operands and its answer is that
   of their texts. *)
LEMMA ComparisonKept ==
  ASSUME StringsInvariant, NEW op \in Relations, generate_comparison(op)
  PROVE  StringsInvariant' /\ ValuesStep
<1>. DEFINE F == garbage \cup Below.late \cup Above.late \cup Literal(Below) \cup Literal(Above)
<1>1. /\ at = "expression" /\ stmt.form = "compare" /\ Len(stack) = 2 /\ var' = var
      /\ at' = "idle" /\ stmt' = NoStatement /\ stack' = << >> /\ garbage' = {}
      /\ lost' = lost \cup Unregistered(Below) \cup Unregistered(Above)
      /\ heap' = FreedAll(heap, F)
      /\ answer' = [op |-> op, holds |-> generate_string_cmp(op, heap[Below.block].text, heap[Above.block].text)]
  BY DEF generate_comparison, Done, Evaluating, Text
<1>2. at' \in {"idle", "aborted"} /\ stmt' = NoStatement /\ stack' = << >> /\ garbage' = {}
  BY <1>1
<1>3. /\ HeapIsSound(heap) /\ var \in [Vars -> Blocks \cup {None}] /\ Injective(var)
      /\ IsOperand(Above, heap, var) /\ IsOperand(Below, heap, var)
  <2>1. Len(stack) >= 1
    BY <1>1
  <2>2. IsOperand(Above, heap, var) /\ IsOperand(Below, heap, var)
    BY <1>1, <2>1, OperandsHere
  <2>. QED BY <2>2 DEF StringsInvariant, Belong, Injective
<1>4. /\ Own(Above) \subseteq Blocks /\ garbage \subseteq Blocks /\ lost \subseteq Blocks /\ Own(Below) \subseteq Blocks
      /\ \A c \in Blocks : c \in Own(Above) \/ c \in garbage \/ c \in lost => heap[c].live /\ ~HasVar(var, c)
      /\ \A c \in Blocks : /\ c \in Own(Above) => c \notin garbage /\ c \notin lost
                           /\ c \in garbage => c \notin lost
      /\ \A c \in Own(Below) : /\ heap[c].live /\ ~HasVar(var, c)
                                /\ c \notin garbage /\ c \notin lost /\ c \notin Own(Above)
      /\ \A c \in Blocks : heap[c].live <=> \/ HasVar(var, c) \/ c \in Own(Above) \/ c \in Own(Below)
                                            \/ c \in garbage \/ c \in lost
  <2>1. Len(stack) >= 1
    BY <1>1
  <2>. QED BY <1>1, <2>1, OperandsApart
<1>5. \A c : /\ c \in Own(Below) <=> c \in Below.late \/ c \in Literal(Below) \/ c \in Unregistered(Below)
             /\ c \in Below.late => c \notin Unregistered(Below)
             /\ c \in Literal(Below) => c \notin Unregistered(Below)
  BY <1>3, OperandParts
<1>6. \A c : /\ c \in Own(Above) <=> c \in Above.late \/ c \in Literal(Above) \/ c \in Unregistered(Above)
             /\ c \in Above.late => c \notin Unregistered(Above)
             /\ c \in Literal(Above) => c \notin Unregistered(Above)
  BY <1>3, OperandParts
<1>7. /\ \A c : c \in F <=> \/ c \in garbage \/ c \in Below.late \/ c \in Above.late
                           \/ c \in Literal(Below) \/ c \in Literal(Above)
      /\ \A c : c \in lost' <=> c \in lost \/ c \in Unregistered(Below) \/ c \in Unregistered(Above)
  BY <1>1
<1>. HIDE DEF F
<1>8. /\ HeapIsSound(heap')
      /\ \A c \in Blocks : heap'[c] = IF c \in F THEN [live |-> FALSE, text |-> << >>] ELSE heap[c]
  BY <1>1, <1>3, FreedIsSound
<1>9. /\ \A c \in Blocks : heap'[c].live <=> heap[c].live /\ c \notin F
      /\ \A c \in Blocks : c \notin F => heap'[c] = heap[c]
  BY <1>8
<1>10. /\ lost' \subseteq Blocks
       /\ \A c \in Blocks : heap'[c].live <=> HasVar(var', c) \/ c \in lost'
       /\ \A c \in Blocks : HasVar(var', c) => c \notin lost'
  <2>1. lost' \subseteq Blocks
    BY <1>4, <1>5, <1>6, <1>7
  <2>2. ASSUME NEW c \in Blocks
        PROVE  HasVar(var, c) => c \notin lost' /\ c \notin F
    BY <1>4, <1>5, <1>6, <1>7
  <2>3. ASSUME NEW c \in Blocks
        PROVE  heap'[c].live <=> HasVar(var, c) \/ c \in lost'
    <3>1. c \in lost' => heap[c].live /\ c \notin F
      BY <1>4, <1>5, <1>6, <1>7
    <3>2. heap[c].live /\ c \notin F => HasVar(var, c) \/ c \in lost'
      BY <1>4, <1>5, <1>6, <1>7
    <3>. QED BY <1>4, <1>9, <2>2, <3>1, <3>2
  <2>. QED BY <1>1, <2>1, <2>2, <2>3
<1>11. StringsInvariant'
  <2>1. var' \in [Vars -> Blocks \cup {None}] /\ Injective(var')
    BY <1>1, <1>3
  <2>. QED BY <1>2, <1>8, <1>10, <2>1, Settled
<1>12. stmt.target = None /\ None \notin Vars
  <2>1. None \notin Vars
    BY StringsAssumption, Zenon
  <2>. QED BY <1>1, <2>1 DEF StringsInvariant, StatementFits
<1>13. ASSUME NEW y \in Vars, var[y] # None
       PROVE  heap'[var[y]].text = heap[var[y]].text
  <2>1. var[y] \in Blocks /\ HasVar(var, var[y])
    BY <1>3, <1>13 DEF HasVar
  <2>2. var[y] \notin F
    BY <1>4, <1>5, <1>6, <1>7, <2>1
  <2>. QED BY <1>9, <2>1, <2>2
<1>14. /\ answer'.op = op /\ answer'.holds = generate_string_cmp(op, Below.text, Above.text)
       /\ Below.text \in Seq(Chars) /\ Above.text \in Seq(Chars)
  BY <1>1, <1>3 DEF IsOperand, OperandSet
<1>15. compare_str(Below.text, Above.text) = 0 <=> Below.text = Above.text
  BY <1>14, CompareTells
<1>16. /\ op = "==" => (generate_string_cmp(op, Below.text, Above.text) <=> Below.text = Above.text)
       /\ op = "!=" => (generate_string_cmp(op, Below.text, Above.text) <=> Below.text # Above.text)
  <2>1. op = "==" => generate_string_cmp(op, Below.text, Above.text) = (compare_str(Below.text, Above.text) = 0)
    BY DEF generate_string_cmp
  <2>2. op = "!=" => generate_string_cmp(op, Below.text, Above.text) = (compare_str(Below.text, Above.text) # 0)
    BY DEF generate_string_cmp
  <2>. QED BY <1>15, <2>1, <2>2
<1>17. ValuesStep
  <2>1. \A x \in Vars : var'[x] # None => heap'[var'[x]].text = heap[var[x]].text
    BY <1>1, <1>13
  <2>2. /\ answer'.op = "==" => (answer'.holds <=> Below.text = Above.text)
        /\ answer'.op = "!=" => (answer'.holds <=> Below.text # Above.text)
    BY <1>14, <1>16
  <2>. QED BY <1>12, <2>1, <2>2 DEF ValuesStep, Text
<1>. QED BY <1>11, <1>17

(* Between statements only the strings of variables change, none starts. *)
LEMMA IdleValues ==
  ASSUME at = "idle", stmt = NoStatement,
         \A x \in Vars : var'[x] # None =>
           \/ var[x] = None /\ heap'[var'[x]].text = << >>
           \/ heap'[var'[x]].text = heap[var[x]].text
           \/ Cardinality({i \in DOMAIN heap[var[x]].text : heap'[var'[x]].text[i] # heap[var[x]].text[i]}) = 1
  PROVE  ValuesStep
  BY DEF ValuesStep, Text, NoStatement

(* A statement begins with nothing evaluated. *)
LEMMA BeginKept ==
  ASSUME StringsInvariant, NEW form \in StatementForms, NEW target \in Vars \cup {None}, Begin(form, target)
  PROVE  StringsInvariant' /\ ValuesStep
<1>1. /\ at = "idle" /\ at' = "expression" /\ heap' = heap /\ var' = var /\ stack' = stack
      /\ garbage' = garbage /\ lost' = lost
      /\ stmt' = [NoStatement EXCEPT !.form = form, !.target = target]
      /\ form = "declare" => target # None /\ var[target] = None
      /\ form \in {"assign", "append"} => target # None /\ var[target] # None
      /\ form \in {"discard", "compare"} => target = None
  <2>1. /\ form = "declare" => target # None /\ var[target] = None
        /\ form \in {"assign", "append"} => target # None /\ var[target] # None
        /\ form \in {"discard", "compare"} => target = None
    BY DEF Begin, StatementForms
  <2>. QED BY <2>1 DEF Begin, Between
<1>2. stmt = NoStatement
  BY <1>1, NothingEvaluated
<1>3. stmt' \in StatementSet /\ stmt'.form = form /\ stmt'.target = target
  BY <1>1 DEF StatementSet, NoStatement
<1>4. StatementFits'
  BY <1>1, <1>3 DEF StatementFits
<1>5. StringsInvariant'
  BY <1>1, <1>4 DEF StringsInvariant
<1>6. ValuesStep
  BY <1>1, <1>2, IdleValues
<1>. QED BY <1>5, <1>6

(* A declaration without a value makes an empty string. *)
LEMMA DefaultKept ==
  ASSUME ~IsFiniteSet(Blocks), StringsInvariant, NEW x \in Vars, generate_default(x)
  PROVE  StringsInvariant' /\ ValuesStep
<1>. DEFINE f == Fresh(heap)
<1>1. /\ at = "idle" /\ at' = at /\ var[x] = None /\ heap' = create_str(heap, 0) /\ var' = Given(var, x, f)
      /\ stmt' = stmt /\ stack' = stack /\ garbage' = garbage /\ lost' = lost
  BY DEF generate_default, Between, Given
<1>2. /\ stmt = NoStatement /\ stack = << >> /\ garbage = {} /\ lost \subseteq Blocks
      /\ HeapIsSound(heap) /\ var \in [Vars -> Blocks \cup {None}] /\ Injective(var)
      /\ \A b \in Blocks : heap[b].live <=> HasVar(var, b) \/ b \in lost
      /\ \A b \in Blocks : HasVar(var, b) => b \notin lost
  BY <1>1, NothingEvaluated
<1>3. f \in Blocks /\ heap[f].live = FALSE
  BY <1>2, FreshBlocks
<1>4. heap' = Put(heap, f, << >>)
  BY <1>1, <1>2, <1>3, CreatePuts
<1>5. << >> \in Seq(Chars) /\ Len(<< >>) <= MaxLen
  <2>1. MaxLen \in Nat
    BY StringsAssumption, Zenon
  <2>. QED BY <2>1
<1>6. HeapIsSound(heap') /\ Grown(heap, heap', {f}) /\ heap'[f].text = << >>
  BY <1>2, <1>4, <1>5, PutGrows, ZenonT(60)
<1>. HIDE DEF f
<1>7. ~HasVar(var, f) /\ f \notin lost /\ None \notin Blocks
  <2>1. None \notin Blocks
    BY StringsAssumption, Zenon
  <2>. QED BY <1>2, <1>3, <2>1
<1>8. /\ var' \in [Vars -> Blocks \cup {None}] /\ Injective(var')
      /\ var'[x] = f /\ \A y \in Vars : y # x => var'[y] = var[y]
      /\ \A c \in Blocks : HasVar(var', c) <=> c = f \/ (HasVar(var, c) /\ c # var[x])
  BY <1>1, <1>2, <1>3, <1>7, Restored
<1>9. /\ lost' \subseteq Blocks
      /\ \A c \in Blocks : heap'[c].live <=> HasVar(var', c) \/ c \in lost'
      /\ \A c \in Blocks : HasVar(var', c) => c \notin lost'
  BY <1>1, <1>2, <1>6, <1>7, <1>8 DEF Grown
<1>10. at' \in {"idle", "aborted"} /\ stmt' = NoStatement /\ stack' = << >> /\ garbage' = {}
  BY <1>1, <1>2
<1>11. StringsInvariant'
  BY <1>6, <1>8, <1>9, <1>10, Settled
<1>12. ASSUME NEW y \in Vars, var'[y] # None
       PROVE  \/ var[y] = None /\ heap'[var'[y]].text = << >>
              \/ heap'[var'[y]].text = heap[var[y]].text
  <2>1. CASE y = x
    BY <1>1, <1>6, <1>8, <2>1
  <2>2. CASE y # x
    <3>1. var'[y] = var[y] /\ var[y] \in Blocks /\ HasVar(var, var[y])
      BY <1>2, <1>8, <1>12, <2>2 DEF HasVar
    <3>2. var[y] # f
      BY <1>7, <3>1
    <3>. QED BY <1>6, <3>1, <3>2 DEF Grown
  <2>. QED BY <2>1, <2>2
<1>13. ValuesStep
  BY <1>1, <1>2, <1>12, IdleValues
<1>. QED BY <1>11, <1>13

(* The end of a scope frees the block of the variable, which is gone. *)
LEMMA EndOfScopeKept ==
  ASSUME StringsInvariant, NEW x \in Vars, generate_end_of_scope(x)
  PROVE  StringsInvariant' /\ ValuesStep
<1>. DEFINE b == var[x]
<1>1. /\ at = "idle" /\ at' = at /\ b # None /\ heap' = Freed(heap, b) /\ var' = Given(var, x, None)
      /\ stmt' = stmt /\ stack' = stack /\ garbage' = garbage /\ lost' = lost
  BY DEF generate_end_of_scope, Between, Given
<1>2. /\ stmt = NoStatement /\ stack = << >> /\ garbage = {} /\ lost \subseteq Blocks
      /\ HeapIsSound(heap) /\ var \in [Vars -> Blocks \cup {None}] /\ Injective(var)
      /\ \A c \in Blocks : heap[c].live <=> HasVar(var, c) \/ c \in lost
      /\ \A c \in Blocks : HasVar(var, c) => c \notin lost
  BY <1>1, NothingEvaluated
<1>3. b \in Blocks /\ HasVar(var, b)
  BY <1>1, <1>2 DEF HasVar
<1>4. None \notin Blocks
  BY StringsAssumption, Zenon
<1>5. var' \in [Vars -> Blocks \cup {None}] /\ var'[x] = None /\ \A y \in Vars : y # x => var'[y] = var[y]
  BY <1>1, <1>2 DEF Given
<1>6. b = var[x]
  OBVIOUS
<1>. HIDE DEF b
<1>7. /\ HeapIsSound(heap')
      /\ \A c \in Blocks : heap'[c] = IF c = b THEN [live |-> FALSE, text |-> << >>] ELSE heap[c]
  <2>1. heap' = FreedAll(heap, {b})
    BY <1>1, <1>2, <1>3, OneFreed
  <2>2. /\ HeapIsSound(FreedAll(heap, {b}))
        /\ \A c \in Blocks : FreedAll(heap, {b})[c]
                              = IF c \in {b} THEN [live |-> FALSE, text |-> << >>] ELSE heap[c]
    BY <1>2, FreedIsSound
  <2>. QED BY <2>1, <2>2
<1>8. \A y \in Vars : var[y] = b => y = x
  BY <1>1, <1>2, <1>6 DEF Injective
<1>9. \A c \in Blocks : HasVar(var', c) <=> c # b /\ HasVar(var, c)
  BY <1>4, <1>5, <1>6, <1>8 DEF HasVar
<1>10. Injective(var')
  BY <1>2, <1>5 DEF Injective
<1>11. /\ lost' \subseteq Blocks
       /\ \A c \in Blocks : heap'[c].live <=> HasVar(var', c) \/ c \in lost'
       /\ \A c \in Blocks : HasVar(var', c) => c \notin lost'
  BY <1>1, <1>2, <1>3, <1>7, <1>9
<1>12. at' \in {"idle", "aborted"} /\ stmt' = NoStatement /\ stack' = << >> /\ garbage' = {}
  BY <1>1, <1>2
<1>13. StringsInvariant'
  BY <1>5, <1>7, <1>10, <1>11, <1>12, Settled
<1>14. ASSUME NEW y \in Vars, var'[y] # None
       PROVE  heap'[var'[y]].text = heap[var[y]].text
  <2>1. y # x
    BY <1>5, <1>14
  <2>2. var'[y] = var[y] /\ var[y] \in Blocks /\ var[y] # b
    BY <1>2, <1>5, <1>8, <1>14, <2>1
  <2>. QED BY <1>7, <2>2
<1>15. ValuesStep
  BY <1>1, <1>2, <1>14, IdleValues
<1>. QED BY <1>13, <1>15

(* A character that is replaced. *)
LEMMA OneCharacter ==
  ASSUME NEW s \in Seq(Chars), NEW i \in 1 .. Len(s), NEW c \in Chars,
         NEW u, u = [s EXCEPT ![i] = c]
  PROVE  /\ u \in Seq(Chars) /\ Len(u) = Len(s)
         /\ u = s \/ Cardinality({j \in DOMAIN s : u[j] # s[j]}) = 1
<1>1. u \in Seq(Chars) /\ Len(u) = Len(s) /\ u[i] = c /\ \A j \in DOMAIN s : j # i => u[j] = s[j]
  OBVIOUS
<1>2. CASE s[i] = c
  BY <1>1, <1>2
<1>3. CASE s[i] # c
  <2>1. {j \in DOMAIN s : u[j] # s[j]} = {i}
    BY <1>1, <1>3
  <2>. QED BY <1>1, <2>1, FS_Singleton
<1>. QED BY <1>2, <1>3

(* A position that is accessed is in the string. *)
LEMMA AccessesStayInside ==
  ASSUME Careless = {}, NEW len \in Nat, NEW idx \in Nat, MayGoWrong(len)
  PROVE  AccessedAt(len, idx) \in 0 .. len - 1
<1>1. Checked /\ len # 0
  BY DEF MayGoWrong
<1>. QED BY <1>1 DEF AccessedAt

(* Assigning a character writes inside the text, or the program aborts. *)
LEMMA AssignAtKept ==
  ASSUME Careless = {}, StringsInvariant,
         NEW x \in Vars, NEW idx \in 0 .. MaxLen, NEW c \in Chars, assign_str_at(x, idx, c)
  PROVE  StringsInvariant' /\ ValuesStep
<1>. DEFINE b == var[x]
            text == heap[b].text
            i == AccessedAt(Len(text), idx) + 1
<1>1. /\ at = "idle" /\ b # None /\ var' = var
      /\ stmt' = stmt /\ stack' = stack /\ garbage' = garbage /\ lost' = lost
      /\ \/ at' = "aborted" /\ heap' = heap
         \/ i - 1 \in 0 .. Len(text) - 1 /\ heap' = [heap EXCEPT ![b].text[i] = c] /\ at' = at
         \/ i - 1 \notin 0 .. Len(text) - 1 /\ MayGoWrong(Len(text))
  <2>1. /\ at = "idle" /\ b # None /\ var' = var
        /\ stmt' = stmt /\ stack' = stack /\ garbage' = garbage /\ lost' = lost
    BY DEF assign_str_at, Between
  <2>2. \/ at' = "aborted" /\ heap' = heap
        \/ AccessedAt(Len(text), idx) \in 0 .. Len(text) - 1 /\ heap' = [heap EXCEPT ![b].text[i] = c] /\ at' = at
        \/ AccessedAt(Len(text), idx) \notin 0 .. Len(text) - 1 /\ MayGoWrong(Len(text))
    BY DEF assign_str_at, Text
  <2>3. text \in Seq(Chars)
    BY <2>1 DEF StringsInvariant, HeapIsSound
  <2>4. AccessedAt(Len(text), idx) \in Int
    BY <2>3 DEF AccessedAt
  <2>5. i - 1 = AccessedAt(Len(text), idx)
    BY <2>4
  <2>. QED BY <2>1, <2>2, <2>5
<1>2. /\ stmt = NoStatement /\ stack = << >> /\ garbage = {} /\ lost \subseteq Blocks
      /\ HeapIsSound(heap) /\ var \in [Vars -> Blocks \cup {None}] /\ Injective(var)
      /\ \A k \in Blocks : heap[k].live <=> HasVar(var, k) \/ k \in lost
      /\ \A k \in Blocks : HasVar(var, k) => k \notin lost
  BY <1>1, NothingEvaluated
<1>3. b \in Blocks /\ text \in Seq(Chars) /\ Len(text) \in Nat /\ Len(text) <= MaxLen
  <2>1. b \in Blocks
    BY <1>1, <1>2
  <2>2. text \in Seq(Chars) /\ Len(text) <= MaxLen
    BY <1>2, <2>1 DEF HeapIsSound
  <2>. QED BY <2>1, <2>2
<1>4. idx \in Nat
  <2>1. MaxLen \in Nat
    BY StringsAssumption, Zenon
  <2>. QED BY <2>1
<1>5. CASE at' = "aborted" /\ heap' = heap
  <2>1. at' \in {"idle", "aborted"} /\ stmt' = NoStatement /\ stack' = << >> /\ garbage' = {}
    BY <1>1, <1>2, <1>5
  <2>2. StringsInvariant'
    BY <1>1, <1>2, <1>5, <2>1, Settled
  <2>3. ValuesStep
    BY <1>1, <1>2, <1>5, IdleValues
  <2>. QED BY <2>2, <2>3
<1>6. CASE i - 1 \in 0 .. Len(text) - 1 /\ heap' = [heap EXCEPT ![b].text[i] = c] /\ at' = at
  <2>. DEFINE u == [text EXCEPT ![i] = c]
  <2>1. i \in 1 .. Len(text)
    <3>1. AccessedAt(Len(text), idx) \in Int
      BY <1>3, <1>4 DEF AccessedAt
    <3>2. i \in Int
      BY <3>1
    <3>. HIDE DEF i
    <3>. QED BY <1>3, <1>6, <3>2
  <2>2. heap' = Retext(heap, b, u)
    BY <1>6 DEF Retext
  <2>. HIDE DEF i
  <2>3. /\ u \in Seq(Chars) /\ Len(u) = Len(text)
        /\ u = text \/ Cardinality({j \in DOMAIN text : u[j] # text[j]}) = 1
    <3>1. u = [text EXCEPT ![i] = c]
      OBVIOUS
    <3>. HIDE DEF u, text
    <3>. QED BY <1>3, <2>1, <3>1, OneCharacter
  <2>. HIDE DEF u
  <2>4. /\ heap' \in [Blocks -> [live : BOOLEAN, text : Seq(Chars)]]
        /\ heap'[b].text = u /\ heap'[b].live = heap[b].live
        /\ \A k \in Blocks : k # b => heap'[k] = heap[k]
    BY <1>2, <1>3, <2>2, <2>3 DEF Retext, HeapIsSound
  <2>5. heap[b].live
    BY <1>1, <1>2, <1>3 DEF HasVar
  <2>6. \A k \in Blocks : heap'[k].live <=> heap[k].live
    BY <2>4
  <2>7. HeapIsSound(heap')
    <3>1. LiveIn(heap') = LiveIn(heap)
      BY <2>6 DEF LiveIn
    <3>2. \A k \in Blocks : Len(heap'[k].text) <= MaxLen /\ (~heap'[k].live => heap'[k].text = << >>)
      BY <1>2, <1>3, <2>3, <2>4, <2>5 DEF HeapIsSound
    <3>. QED BY <1>2, <2>4, <3>1, <3>2 DEF HeapIsSound
  <2>8. at' \in {"idle", "aborted"} /\ stmt' = NoStatement /\ stack' = << >> /\ garbage' = {}
    BY <1>1, <1>2, <1>6
  <2>9. StringsInvariant'
    BY <1>1, <1>2, <2>6, <2>7, <2>8, Settled
  <2>10. ASSUME NEW y \in Vars, var'[y] # None
         PROVE  \/ heap'[var'[y]].text = heap[var[y]].text
                \/ Cardinality({j \in DOMAIN heap[var[y]].text : heap'[var'[y]].text[j] # heap[var[y]].text[j]}) = 1
    <3>1. var'[y] = var[y] /\ var[y] \in Blocks
      BY <1>1, <1>2, <2>10
    <3>2. CASE var[y] = b
      BY <2>3, <2>4, <3>1, <3>2
    <3>3. CASE var[y] # b
      BY <2>4, <3>1, <3>3
    <3>. QED BY <3>2, <3>3
  <2>11. ValuesStep
    BY <1>1, <1>2, <2>10, IdleValues
  <2>. QED BY <2>9, <2>11
<1>7. CASE i - 1 \notin 0 .. Len(text) - 1 /\ MayGoWrong(Len(text))
  <2>1. AccessedAt(Len(text), idx) \in 0 .. Len(text) - 1
    <3>. HIDE DEF text, i
    <3>. QED BY <1>3, <1>4, <1>7, AccessesStayInside
  <2>2. \A k \in Int : (k + 1) - 1 = k
    OBVIOUS
  <2>3. i - 1 = AccessedAt(Len(text), idx)
    BY <1>3, <2>1
  <2>. QED BY <1>7, <2>1, <2>3
<1>. QED BY <1>1, <1>5, <1>6, <1>7

(* Reading a character reads inside the text, or the program aborts. *)
LEMMA AccessAtKept ==
  ASSUME Careless = {}, StringsInvariant, NEW x \in Vars, NEW idx \in 0 .. MaxLen, access_str_at(x, idx)
  PROVE  StringsInvariant' /\ ValuesStep
<1>. DEFINE text == heap[var[x]].text
            accessed == AccessedAt(Len(text), idx)
<1>1. /\ at = "idle" /\ var[x] # None /\ var' = var /\ heap' = heap
      /\ stmt' = stmt /\ stack' = stack /\ garbage' = garbage /\ lost' = lost
      /\ \/ at' \in {"idle", "aborted"}
         \/ accessed \notin 0 .. Len(text) - 1 /\ MayGoWrong(Len(text))
  BY DEF access_str_at, Between, Text
<1>2. /\ stmt = NoStatement /\ stack = << >> /\ garbage = {} /\ lost \subseteq Blocks
      /\ HeapIsSound(heap) /\ var \in [Vars -> Blocks \cup {None}] /\ Injective(var)
      /\ \A k \in Blocks : heap[k].live <=> HasVar(var, k) \/ k \in lost
      /\ \A k \in Blocks : HasVar(var, k) => k \notin lost
  BY <1>1, NothingEvaluated
<1>3. Len(text) \in Nat /\ idx \in Nat
  <2>1. MaxLen \in Nat
    BY StringsAssumption, Zenon
  <2>2. text \in Seq(Chars)
    BY <1>1, <1>2 DEF HeapIsSound
  <2>. QED BY <2>1, <2>2
<1>4. at' \in {"idle", "aborted"}
  <2>1. MayGoWrong(Len(text)) => accessed \in 0 .. Len(text) - 1
    <3>. HIDE DEF text
    <3>. QED BY <1>3, AccessesStayInside
  <2>. QED BY <1>1, <2>1
<1>5. stmt' = NoStatement /\ stack' = << >> /\ garbage' = {}
  BY <1>1, <1>2
<1>6. StringsInvariant'
  BY <1>1, <1>2, <1>4, <1>5, Settled
<1>7. ValuesStep
  BY <1>1, <1>2, IdleValues
<1>. QED BY <1>6, <1>7

----------------------------------------
(* Every step keeps the invariant and the values. *)
LEMMA StringsStep ==
  ASSUME ~IsFiniteSet(Blocks), Careless = {}, StringsInvariant, Next
  PROVE  StringsInvariant' /\ ValuesStep
<1>1. CASE \E form \in StatementForms, target \in Vars \cup {None} : Begin(form, target)
  BY <1>1, BeginKept
<1>2. CASE \E x \in Vars : generate_variable(x)
  BY <1>2, VariableKept
<1>3. CASE \E chars \in Literals : generate_literal(chars) \/ interpolate_literal(chars)
  BY <1>3, LiteralKept
<1>4. CASE generate_string_addition
  BY <1>4, AdditionKept
<1>5. CASE generate_string_interpolation
  BY <1>5, InterpolationKept
<1>6. CASE \E from \in 0 .. MaxLen, to \in (0 .. MaxLen + 1) \cup {OpenEnd} : generate_slice(from, to)
  BY <1>6, SliceKept
<1>7. CASE generate_declaration
  BY <1>7, DeclarationKept
<1>8. CASE \E x \in Vars : generate_default(x)
  BY <1>8, DefaultKept
<1>9. CASE generate_string_assignment
  BY <1>9, AssignmentKept
<1>10. CASE generate_append
  BY <1>10, AppendKept
<1>11. CASE generate_discard
  BY <1>11, DiscardKept
<1>12. CASE \E op \in Relations : generate_comparison(op)
  BY <1>12, ComparisonKept
<1>13. CASE \E x \in Vars, idx \in 0 .. MaxLen, c \in Chars : assign_str_at(x, idx, c)
  BY <1>13, AssignAtKept
<1>14. CASE \E x \in Vars, idx \in 0 .. MaxLen : access_str_at(x, idx)
  BY <1>14, AccessAtKept
<1>15. CASE \E x \in Vars : generate_end_of_scope(x)
  BY <1>15, EndOfScopeKept
<1>. QED BY <1>1, <1>2, <1>3, <1>4, <1>5, <1>6, <1>7, <1>8, <1>9, <1>10, <1>11, <1>12, <1>13, <1>14, <1>15
          DEF Next

(* So does a stutter. *)
LEMMA StringsStutter ==
  ASSUME StringsInvariant, UNCHANGED vars
  PROVE  StringsInvariant'
<1>1. /\ heap' = heap /\ var' = var /\ at' = at /\ stmt' = stmt /\ stack' = stack
      /\ garbage' = garbage /\ lost' = lost
  BY DEF vars
<1>2. StatementFits'
  BY <1>1 DEF StringsInvariant, StatementFits
<1>. QED BY <1>1, <1>2 DEF StringsInvariant

(* The invariant says what the run checks. *)
LEMMA InvariantMeans ==
  ASSUME StringsInvariant
  PROVE  TypeOK /\ NoUndefinedBehaviour /\ EveryStringHasOneOwner
<1>1. /\ stack \in Seq(OperandSet) /\ DOMAIN stack = 1 .. Len(stack)
      /\ \A i \in DOMAIN stack : IsOperand(stack[i], heap, var)
  BY DEF StringsInvariant, AreOperands
<1>. DEFINE T == Temporaries(stack)
<1>2. Belong(heap, var, T, garbage, lost) /\ AreOperands(stack, heap, var)
  BY DEF StringsInvariant
<1>3. /\ Len(stack) = 1 => T[1] = Own(stack[1]) /\ T[2] = {}
      /\ Len(stack) = 2 => T[1] = Own(stack[1]) /\ T[2] = Own(stack[2])
  BY <1>2, TakenParts
<1>4. Len(stack) \in {0, 1, 2}
  BY OperandsHere
<1>5. ASSUME NEW i \in DOMAIN stack
      PROVE  stack[i].block \in Blocks /\ heap[stack[i].block].live
  <2>1. stack[i].block \in Blocks /\ (HasVar(var, stack[i].block) \/ stack[i].block \in Own(stack[i]))
    BY <1>1 DEF IsOperand, OperandSet, Own
  <2>. HIDE DEF T
  <2>2. i \in 1 .. Len(stack) /\ Len(stack) \in {1, 2}
    BY <1>1, <1>4
  <2>3. Own(stack[i]) = T[1] \/ Own(stack[i]) = T[2]
    BY <1>3, <2>2
  <2>. QED BY <1>2, <2>1, <2>3 DEF Belong
<1>. HIDE DEF T
<1>6. garbage \subseteq Blocks /\ lost \subseteq Blocks /\ \A b \in garbage : heap[b].live
  BY <1>2 DEF Belong
<1>7. /\ \A b \in Blocks : heap[b].text \in Seq(Chars) /\ (~heap[b].live => heap[b].text = << >>)
      /\ var \in [Vars -> Blocks \cup {None}]
      /\ at \in {"idle", "expression", "aborted"} /\ stmt.form \in StatementForms \cup {"none"}
  BY DEF StringsInvariant, HeapIsSound, StatementFits, StatementSet
<1>8. TypeOK
  BY <1>5, <1>6, <1>7 DEF TypeOK
<1>9. NoUndefinedBehaviour
  BY <1>5, <1>6, <1>7 DEF NoUndefinedBehaviour
<1>10. ASSUME at = "idle"
       PROVE  /\ \A x, y \in Vars : var[x] = var[y] /\ var[x] # None => x = y
              /\ Held \cap lost = {}
              /\ {b \in Blocks : heap[b].live} = Held \cup lost
  <2>1. /\ Injective(var) /\ lost \subseteq Blocks
        /\ \A b \in Blocks : heap[b].live <=> HasVar(var, b) \/ b \in lost
        /\ \A b \in Blocks : HasVar(var, b) => b \notin lost
    BY <1>10, NothingEvaluated
  <2>2. None \notin Blocks
    BY StringsAssumption, Zenon
  <2>3. Held \subseteq Blocks /\ \A b \in Blocks : b \in Held <=> HasVar(var, b)
    BY <1>7, <2>2 DEF Held, HasVar
  <2>. QED BY <2>1, <2>3 DEF Injective
<1>11. EveryStringHasOneOwner
  BY <1>10 DEF EveryStringHasOneOwner
<1>. QED BY <1>8, <1>9, <1>11

(* In every program of declarations, assignments, appends, discarded
   values, comparisons and accesses, with any number of variables, any
   lengths and malloc never failing, no generated string function reads a
   freed block or outside a text, and every live string belongs to one
   variable, one temporary, the garbage of the statement or the strings
   the code loses: nothing is freed twice and no two variables share a
   string. *)
THEOREM StringsStayOwned ==
  ASSUME ~IsFiniteSet(Blocks), Careless = {}
  PROVE  Spec => []StringsAreOwned
<1>1. Init => StringsInvariant
  BY StringsInit
<1>2. StringsInvariant /\ [Next]_vars => StringsInvariant'
  BY StringsStep, StringsStutter
<1>3. StringsInvariant => StringsAreOwned
  BY InvariantMeans DEF StringsAreOwned, StringsAreReadable
<1>. QED BY <1>1, <1>2, <1>3, PTL DEF Spec

(* Every step leaves the text of the variables it does not store to as it
   was, what a statement stores is what its expression stands for,
   whatever realloc moved and the temporaries were freed, and `==` and
   `!=` answer as the texts do. *)
THEOREM StringsStayValues ==
  ASSUME ~IsFiniteSet(Blocks), Careless = {}
  PROVE  Spec => StringsAreValues
<1>1. Init => StringsInvariant
  BY StringsInit
<1>2. StringsInvariant /\ [Next]_vars => StringsInvariant'
  BY StringsStep, StringsStutter
<1>3. StringsInvariant /\ [Next]_vars => [ValuesStep]_vars
  BY StringsStep
<1>. QED BY <1>1, <1>2, <1>3, PTL DEF Spec, StringsAreValues
=============================================================================
