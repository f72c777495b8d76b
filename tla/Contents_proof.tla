--------------------------- MODULE Contents_proof ---------------------------
(***************************************************************************)
(* Proofs about ImageFields, MsgObject, DataCell and MsgDesc, for any set  *)
(* of sizes below the ceiling and for any finite sets of objects, heaps,   *)
(* cells, blocks and descriptors. The first invariant says which numbers   *)
(* each family of fields can hold. The second gives every object one of    *)
(* four seats and every block one owner, and lets a heap's count run ahead *)
(* of its holders by the references the call in progress has taken and not *)
(* placed yet. The third gives every cell the block its value is in. The   *)
(* last keeps the chains of descriptors joined, in both tables, and gives  *)
(* a fresh descriptor its chain only when the loops have passed it. Each   *)
(* action of MsgObject and of DataCell is a chain of the same few steps,   *)
(* and each of those has a lemma.                                          *)
(***************************************************************************)
EXTENDS MsgObject, ImageFields, DataCell, MsgDesc, SumTheorems
-----------------------------------------------------------------------------
(***************************************************************************)
(* ImageFields.  A field holds what was accepted because each family keeps *)
(* what it is meant to hold small enough to come back through the type its *)
(* getter answers in: counts do not go below zero, tallies stay near it on *)
(* both sides, and a sum of sizes stays below the heap's ceiling.          *)
(***************************************************************************)

\* What the getter of f makes of the number x in the image.
Answer(f, x) == CASE f \in Counts \cup Tallies -> AsInt(x)
                  [] f \in BlockSize -> x % Full
                  [] OTHER -> x

\* The number x in the image stands for m.
StandsFor(f, x, m) ==
    /\ x \in 0 .. FieldRoom - 1 /\ m \in Int /\ Answer(f, x) = m
    /\ f \in Counts => m \in 0 .. MaxItems
    /\ f \in Tallies => m \in -MaxItems .. MaxItems
    /\ f \in Sizes => m \in 0 .. HeapMax - 1

FieldInv ==
    /\ mode \in Mode /\ DOMAIN image \in FieldKind
    /\ image = [f \in DOMAIN image |-> image[f]]
    /\ meant = [f \in DOMAIN image |-> meant[f]]
    /\ \A f \in DOMAIN image : StandsFor(f, image[f], meant[f])

\* The widths, one beside the other.
LEMMA Widths ==
  /\ Small \in Nat \ {0} /\ Full \in Nat \ {0} /\ Wide \in Nat \ {0} /\ Word \in Nat \ {0}
  /\ Half \in Nat \ {0} /\ MaxItems \in Nat \ {0} /\ Full = 2 * Half
  /\ MaxItems < Small /\ Small <= Half /\ Full <= Wide /\ 2 * Wide <= Word
BY FieldWidths DEF Half

LEMMA Rooms ==
  ASSUME mode \in Mode
  PROVE  /\ FieldRoom \in {Small, Full, Word} /\ HeapMax \in {Small, Full}
         /\ FieldRoom \in Nat \ {0} /\ HeapMax \in Nat \ {0} /\ HeapMax <= FieldRoom
         /\ \A f : Limit(f) \in Nat /\ Limit(f) <= FieldRoom
         /\ mode = 16 => FieldRoom = Small
         /\ mode # 16 => Full <= FieldRoom
BY Widths DEF Mode, FieldRoom, HeapMax, Limit

\* A number taken modulo what it is below is itself.
LEMMA ModSmall ==
  ASSUME NEW m \in Nat \ {0}, NEW x \in 0 .. m - 1 PROVE x % m = x
OBVIOUS

LEMMA ModNegative ==
  ASSUME NEW m \in Nat \ {0}, NEW x \in 1 .. m PROVE (0 - x) % m = m - x
OBVIOUS

LEMMA ModOver ==
  ASSUME NEW m \in Nat \ {0}, NEW x \in 0 .. m - 1 PROVE (x + m) % m = x
OBVIOUS

\* A small number survives as an int, and as a UINT read back as one.
LEMMA AsIntSmall ==
  ASSUME NEW k \in Int, -Half <= k, k < Half
  PROVE  /\ AsInt(k) = k /\ k % Full \in 0 .. Full - 1 /\ AsInt(k % Full) = k
         /\ k >= 0 => k % Full = k
         /\ k < 0 => k % Full >= Half
<1>1. CASE k >= 0
  <2>1. k \in 0 .. Full - 1
    BY <1>1, Widths
  <2>2. k % Full = k
    BY <2>1, Widths, ModSmall
  <2> QED BY <1>1, <2>1, <2>2, Widths DEF AsInt
<1>2. CASE k < 0
  <2>1. PICK j \in 1 .. Full : k = 0 - j /\ j <= Half
    <3>1. 0 - k \in 1 .. Full /\ 0 - k <= Half /\ k = 0 - (0 - k)
      BY <1>2, Widths
    <3> QED BY <3>1
  <2>2. k % Full = Full - j
    BY <2>1, Widths, ModNegative
  <2>3. Full - j \in 0 .. Full - 1 /\ Full - j >= Half
    BY <2>1, Widths
  <2>4. (Full - j) % Full = Full - j
    BY <2>3, Widths, ModSmall
  <2> QED BY <1>2, <2>1, <2>2, <2>3, <2>4, Widths DEF AsInt
<1> QED BY <1>1, <1>2

\* The families of fields do not overlap.
LEMMA FamiliesApart ==
  /\ \A f \in Tested \cup FieldHeld \cup VectSlots : f \notin Counts \cup Tallies \cup Sizes
  /\ \A f \in (Tested \ BlockSize) \cup FieldHeld \cup VectSlots : f \notin BlockSize
  /\ \A f \in Counts : f \notin Tallies \cup Sizes \cup BlockSize
  /\ \A f \in Tallies : f \notin Counts \cup Sizes \cup BlockSize
  /\ \A f \in Sizes : f \notin Counts \cup Tallies \cup BlockSize
  /\ \A f \in AttrParent \cup DescParent : f \in Tested \ BlockSize
BY DEF Tested, FieldHeld, VectSlots, Counts, Tallies, Sizes, BlockSize, RootLinks, ListLinks,
       AttrLinks, AttrParent, DescLinks, DescParent, ItemLinks, ItemExtra, ItemOwners, NameChain,
       HeapLinks, KeysAlloc, KeysFree, ItemDescn, ListItems, AttrItems, DescItems,
       AllocItems, FreeItems, AllocSize, FreeSize

\* A new field is zero and stands for zero.
LEMMA ZeroStands == ASSUME mode \in Mode, NEW f PROVE StandsFor(f, 0, 0)
<1>1. AsInt(0) = 0
  BY AsIntSmall, Widths
<1>2. 0 % Full = 0
  BY Widths, ModSmall
<1> QED BY <1>1, <1>2, Rooms, Widths DEF StandsFor, Answer

\* A link, or a slot, stands for the address it was given.
LEMMA LinkStands ==
  ASSUME mode \in Mode, NEW f \in (Tested \ BlockSize) \cup FieldHeld \cup VectSlots,
         NEW x \in Nat, x < FieldRoom
  PROVE  StandsFor(f, x, x)
BY Rooms, FamiliesApart DEF StandsFor, Answer

\* A field that nothing wrote still stands for what it stood for.
LEMMA StandsStill ==
  ASSUME mode' = mode PROVE \A g, y, n : StandsFor(g, y, n) => StandsFor(g, y, n)'
<1> SUFFICES ASSUME NEW g, NEW y, NEW n, StandsFor(g, y, n) PROVE StandsFor(g, y, n)'
  OBVIOUS
<1>1. FieldRoom' = FieldRoom /\ HeapMax' = HeapMax
  BY DEF FieldRoom, HeapMax
<1>2. Answer(g, y)' = Answer(g, y)
  BY DEF Answer, AsInt
<1> QED BY <1>1, <1>2 DEF StandsFor

\* The setter of one field leaves the others what they stand for.
LEMMA StoreKeeps ==
  ASSUME FieldInv, NEW f \in DOMAIN image, NEW x, NEW m, Store(f, x, m), StandsFor(f, x, m)
  PROVE  FieldInv'
<1>1. /\ mode' = mode /\ image' = [image EXCEPT ![f] = x] /\ meant' = [meant EXCEPT ![f] = m]
  BY DEF Store
<1>2. /\ DOMAIN image' = DOMAIN image
      /\ \A g \in DOMAIN image : image'[g] = IF g = f THEN x ELSE image[g]
      /\ \A g \in DOMAIN image : meant'[g] = IF g = f THEN m ELSE meant[g]
      /\ image' = [g \in DOMAIN image' |-> image'[g]]
      /\ meant' = [g \in DOMAIN image' |-> meant'[g]]
  BY <1>1 DEF FieldInv
<1>3. \A g, y, n : StandsFor(g, y, n) => StandsFor(g, y, n)'
  BY <1>1, StandsStill
<1>4. \A g \in DOMAIN image : StandsFor(g, image'[g], meant'[g])
  BY <1>2 DEF FieldInv
<1>5. mode' \in Mode /\ DOMAIN image' \in FieldKind
  BY <1>1, <1>2 DEF FieldInv
<1>6. ASSUME NEW g \in DOMAIN image' PROVE StandsFor(g, image[g], meant[g])'
  <2>1. PICK y, n : y = image'[g] /\ n = meant'[g]
    OBVIOUS
  <2>2. StandsFor(g, y, n)
    BY <1>2, <1>4, <2>1
  <2> QED BY ONLY <1>3, <2>1, <2>2
<1>7. (\A g \in DOMAIN image : StandsFor(g, image[g], meant[g]))'
  BY ONLY <1>6
<1>8. /\ (image = [g \in DOMAIN image |-> image[g]])'
      /\ (meant = [g \in DOMAIN image |-> meant[g]])'
  BY ONLY <1>2
<1> QED BY ONLY <1>5, <1>7, <1>8 DEF FieldInv

LEMMA ThrowKeeps == FieldInv /\ FieldThrow => FieldInv'
<1> SUFFICES ASSUME FieldInv, FieldThrow PROVE FieldInv'
  OBVIOUS
<1>1. mode' = mode /\ image' = image /\ meant' = meant
  BY DEF FieldThrow, fieldVars
<1>2. \A g, y, n : StandsFor(g, y, n) => StandsFor(g, y, n)'
  BY <1>1, StandsStill
<1> QED BY <1>1, <1>2 DEF FieldInv

LEMMA FieldInitInv == FieldInit => FieldInv
<1> SUFFICES ASSUME FieldInit PROVE FieldInv
  OBVIOUS
<1>1. PICK k \in FieldKind : image = [f \in k |-> 0]
  BY DEF FieldInit
<1>2. meant = image /\ mode \in Mode /\ DOMAIN image = k /\ \A f \in k : image[f] = 0
  BY <1>1 DEF FieldInit
<1> QED BY <1>1, <1>2, ZeroStands DEF FieldInv

LEMMA NewPartInv == ASSUME FieldInv, NEW f \in Field, NewPart(f) PROVE FieldInv'
<1>1. PICK a \in FieldValue :
        /\ a < HeapMax
        /\ image' = [g \in DOMAIN image |-> IF g = f THEN a % FieldRoom ELSE 0]
        /\ meant' = [g \in DOMAIN image |-> IF g = f THEN a ELSE 0]
        /\ mode' = mode
  BY DEF NewPart
<1>2. a \in Nat /\ a < FieldRoom /\ mode \in Mode
  BY <1>1, Rooms, FieldWidths DEF FieldInv
<1>3. a % FieldRoom = a
  BY <1>2, Rooms, ModSmall
<1>4. f \in Tested \ BlockSize
  BY FamiliesApart DEF NewPart
<1>5. StandsFor(f, a, a)
  BY <1>2, <1>4, LinkStands
<1>6. \A g, y, n : StandsFor(g, y, n) => StandsFor(g, y, n)'
  BY <1>1, StandsStill
<1>7. /\ DOMAIN image' = DOMAIN image
      /\ \A g \in DOMAIN image : /\ image'[g] = IF g = f THEN a ELSE 0
                                 /\ meant'[g] = IF g = f THEN a ELSE 0
      /\ image' = [g \in DOMAIN image' |-> image'[g]]
      /\ meant' = [g \in DOMAIN image' |-> meant'[g]]
  BY <1>1, <1>3
<1>8. \A g \in DOMAIN image : StandsFor(g, image'[g], meant'[g])
  BY <1>2, <1>5, <1>7, ZeroStands
<1> QED BY <1>1, <1>6, <1>7, <1>8 DEF FieldInv

LEMMA LinksInv ==
  ASSUME FieldInv, NEW f \in Field, SetLink(f) \/ SetHeld(f) \/ SetBlockSize(f) \/ FieldSetSlot(f)
  PROVE  FieldInv'
<1>0. mode \in Mode
  BY DEF FieldInv
<1>1. CASE SetLink(f) \/ SetHeld(f)
  <2>1. /\ f \in (Tested \ BlockSize) \cup FieldHeld /\ f \in DOMAIN image
        /\ \E v \in FieldValue : IF v < Limit(f) THEN Store(f, v, v) ELSE FieldThrow
    BY <1>1 DEF SetLink, SetHeld
  <2>2. PICK v \in FieldValue : IF v < Limit(f) THEN Store(f, v, v) ELSE FieldThrow
    BY <2>1
  <2>3. v \in Nat
    BY FieldWidths
  <2>4. CASE v < Limit(f)
    <3>1. v < FieldRoom
      BY <1>0, <2>3, <2>4, Rooms
    <3>2. StandsFor(f, v, v)
      BY <1>0, <2>1, <2>3, <3>1, LinkStands
    <3> QED BY <2>1, <2>2, <2>4, <3>2, StoreKeeps
  <2> QED BY <2>2, <2>4, ThrowKeeps
<1>2. CASE SetBlockSize(f)
  <2>1. /\ f \in BlockSize /\ f \in DOMAIN image
        /\ \E v \in {w \in FieldValue : w < Full} :
             IF v < Limit(f) THEN Store(f, v, v) ELSE FieldThrow
    BY <1>2 DEF SetBlockSize
  <2>2. PICK v \in FieldValue : v < Full /\ IF v < Limit(f) THEN Store(f, v, v) ELSE FieldThrow
    BY <2>1
  <2>3. v \in Nat /\ v % Full = v
    BY <2>2, FieldWidths, ModSmall
  <2>4. CASE v < Limit(f)
    <3>1. v < FieldRoom
      BY <1>0, <2>3, <2>4, Rooms
    <3>2. f \notin Counts \cup Tallies \cup Sizes
      BY <2>1, FamiliesApart DEF Tested
    <3>3. StandsFor(f, v, v)
      BY <1>0, <2>1, <2>3, <3>1, <3>2, Rooms DEF StandsFor, Answer
    <3> QED BY <2>1, <2>2, <2>4, <3>3, StoreKeeps
  <2> QED BY <2>2, <2>4, ThrowKeeps
<1>3. CASE FieldSetSlot(f)
  <2>1. PICK v \in FieldValue : v < HeapMax /\ Store(f, v % FieldRoom, v)
    BY <1>3 DEF FieldSetSlot
  <2>2. v \in Nat /\ v < FieldRoom
    BY <1>0, <2>1, Rooms, FieldWidths
  <2>3. v % FieldRoom = v
    BY <1>0, <2>2, Rooms, ModSmall
  <2>4. StandsFor(f, v, v) /\ f \in DOMAIN image
    BY <1>0, <1>3, <2>2, LinkStands DEF FieldSetSlot
  <2> QED BY <2>1, <2>3, <2>4, StoreKeeps
<1> QED BY <1>1, <1>2, <1>3

LEMMA AddItemsInv == ASSUME FieldInv, NEW f \in Field, FieldAddItems(f) PROVE FieldInv'
<1>1. mode \in Mode /\ f \in Counts /\ f \in DOMAIN image
  BY DEF FieldInv, FieldAddItems
<1>2. /\ meant[f] \in 0 .. MaxItems /\ Get(f) = meant[f]
      /\ f \notin Tallies \cup Sizes \cup BlockSize
  BY <1>1, FamiliesApart DEF FieldInv, StandsFor, Answer, Get
<1>3. PICK d \in {-1, 1} :
        /\ meant[f] + d <= MaxItems
        /\ LET n == AsInt(Get(f) + d) IN
           IF n >= 0 /\ (mode = 16 => n < Small) THEN Store(f, n, meant[f] + d) ELSE FieldThrow
  BY DEF FieldAddItems
<1> DEFINE k == meant[f] + d
<1>4. k \in Int /\ -Half <= k /\ k < Half /\ k <= MaxItems
  BY <1>2, <1>3, Widths
<1>5. AsInt(k) = k
  BY <1>4, AsIntSmall
<1>6. CASE k >= 0 /\ (mode = 16 => k < Small)
  <2>1. Store(f, k, k)
    BY <1>2, <1>3, <1>5, <1>6
  <2>2. k < FieldRoom
    BY <1>1, <1>4, <1>6, Rooms, Widths
  <2>3. StandsFor(f, k, k)
    BY <1>1, <1>2, <1>4, <1>5, <1>6, <2>2, Rooms DEF StandsFor, Answer
  <2> QED BY <1>1, <2>1, <2>3, StoreKeeps
<1>7. CASE ~ (k >= 0 /\ (mode = 16 => k < Small))
  <2>1. FieldThrow
    BY <1>2, <1>3, <1>5, <1>7
  <2> QED BY <2>1, ThrowKeeps
<1> QED BY <1>6, <1>7

LEMMA TallyInv == ASSUME FieldInv, NEW f \in Field, Tally(f) PROVE FieldInv'
<1>1. mode \in Mode /\ f \in Tallies /\ f \in DOMAIN image
  BY DEF FieldInv, Tally
<1>2. /\ meant[f] \in -MaxItems .. MaxItems /\ Get(f) = meant[f]
      /\ f \notin Counts \cup Sizes \cup BlockSize
  BY <1>1, FamiliesApart DEF FieldInv, StandsFor, Answer, Get
<1>3. PICK d \in {-1, 1} :
        /\ meant[f] + d \in -MaxItems .. MaxItems
        /\ LET n == AsInt(Get(f) + d) % Full IN
           IF mode = 16 => n < Small THEN Store(f, n, meant[f] + d) ELSE FieldThrow
  BY DEF Tally
<1> DEFINE k == meant[f] + d
           n == k % Full
<1>4. k \in Int /\ -Half <= k /\ k < Half /\ k \in -MaxItems .. MaxItems
  BY <1>2, <1>3, Widths
<1>5. AsInt(k) = k /\ n \in 0 .. Full - 1 /\ AsInt(n) = k
  BY <1>4, AsIntSmall
<1>6. CASE mode = 16 => n < Small
  <2>1. Store(f, n, k)
    BY <1>2, <1>3, <1>5, <1>6
  <2>2. n < FieldRoom /\ n \in Nat
    BY <1>1, <1>5, <1>6, Rooms, Widths
  <2> HIDE DEF n
  <2>3. StandsFor(f, n, k)
    BY <1>1, <1>2, <1>4, <1>5, <2>2, Rooms DEF StandsFor, Answer
  <2> QED BY <1>1, <2>1, <2>3, StoreKeeps
<1>7. CASE ~ (mode = 16 => n < Small)
  <2>1. FieldThrow
    BY <1>2, <1>3, <1>5, <1>7
  <2> QED BY <2>1, ThrowKeeps
<1> QED BY <1>6, <1>7

\* What is added to a sum comes out as the sum meant, below the heap's ceiling.
LEMMA ChargedInv ==
  ASSUME FieldInv, NEW f \in Sizes \cap DOMAIN image, NEW delta, NEW t \in 0 .. HeapMax - 1,
         Charged(f, delta, t), (image[f] + delta) % Word = t
  PROVE  FieldInv'
<1>1. mode \in Mode /\ f \notin Counts \cup Tallies \cup BlockSize
  BY FamiliesApart DEF FieldInv
<1>2. HeapMax <= FieldRoom /\ HeapMax \in Nat /\ FieldRoom \in Nat
  BY <1>1, Rooms
<1>3. t < FieldRoom
  BY <1>2
<1>4. Store(f, t, t)
  BY <1>3 DEF Charged
<1>5. StandsFor(f, t, t)
  BY <1>1, <1>2, <1>3 DEF StandsFor, Answer
<1> QED BY <1>4, <1>5, StoreKeeps

\* A block taken off is added as its complement in a VBLsize, which is what it
\* is for a block of less than half a UINT.
LEMMA ChargeInv ==
  ASSUME FieldSize \subseteq 1 .. Half - 1, FieldInv, NEW f \in Field, Charge(f) \/ Discharge(f)
  PROVE  FieldInv'
<1>1. mode \in Mode /\ f \in Sizes \cap DOMAIN image
  BY DEF FieldInv, Charge, Discharge
<1>2. meant[f] \in 0 .. HeapMax - 1 /\ image[f] = meant[f]
  BY <1>1, FamiliesApart DEF FieldInv, StandsFor, Answer
<1>3. HeapMax <= Word /\ HeapMax \in Nat
  BY <1>1, Rooms, Widths
<1>4. CASE Charge(f)
  <2>1. PICK n \in FieldSize : meant[f] + n < HeapMax /\ Charged(f, n, meant[f] + n)
    BY <1>4 DEF Charge
  <2>2. PICK t : t = meant[f] + n
    OBVIOUS
  <2>3. t \in 0 .. HeapMax - 1 /\ t \in 0 .. Word - 1 /\ image[f] + n = t
    BY <1>2, <1>3, <2>1, <2>2, FieldWidths
  <2>4. t % Word = t
    BY <2>3, ModSmall, Widths
  <2> QED BY <1>1, <2>1, <2>2, <2>3, <2>4, ChargedInv
<1>5. CASE Discharge(f)
  <2>1. PICK n \in FieldSize : n <= meant[f] /\ Charged(f, Negated(n), meant[f] - n)
    BY <1>5 DEF Discharge
  <2>2. n \in 1 .. Half - 1 /\ Negated(n) = Word - n
    BY <2>1, Widths DEF Negated
  <2>3. PICK t, delta : t = meant[f] - n /\ delta = Negated(n)
    OBVIOUS
  <2>4. t \in 0 .. HeapMax - 1 /\ t \in 0 .. Word - 1
    BY <1>2, <1>3, <2>1, <2>2, <2>3, Widths
  <2>5. (t + Word) % Word = t
    BY <2>4, ModOver, Widths
  <2>6. image[f] + delta = t + Word
    BY <1>2, <2>2, <2>3, Widths
  <2> QED BY <1>1, <2>1, <2>3, <2>4, <2>5, <2>6, ChargedInv
<1> QED BY <1>4, <1>5

\* Every getter answers what the accepted calls of its setter add up to, while
\* no block is of 2 GiB or more (P2PmsgVBLock.cpp turns the sign of those).
THEOREM FieldsReadBack ==
  ASSUME FieldSize \subseteq 1 .. Half - 1 PROVE FieldSpec => []FieldReadsBack
<1>1. FieldInv => FieldReadsBack
  BY DEF FieldInv, FieldReadsBack, FieldTypeOK, StandsFor, Answer, Get
<1>2. FieldInv /\ [FieldNext]_fieldVars => FieldInv'
  <2>1. FieldInv /\ UNCHANGED fieldVars => FieldInv'
    BY ThrowKeeps DEF FieldThrow
  <2>2. ASSUME FieldInv, FieldNext PROVE FieldInv'
    BY <2>2, NewPartInv, LinksInv, AddItemsInv, TallyInv, ChargeInv DEF FieldNext
  <2> QED BY <2>1, <2>2
<1> QED BY <1>1, <1>2, FieldInitInv, PTL DEF FieldSpec
-----------------------------------------------------------------------------
(***************************************************************************)
(* MsgObject.  An object is in one of four seats; a block on a heap is an  *)
(* item or a payload; a payload has one chain to it; and a heap's count is *)
(* the number of its holders and of the references the call in progress    *)
(* has taken and not yet placed, x and y.  Where the heap may refuse the   *)
(* block a copied payload needs, two objects can end with one payload      *)
(* (P2Pmsg.cpp:2624), so CopyRefused is FALSE here: as the run has it.     *)
(***************************************************************************)

Vacant(s, o) ==
    s.at[o] = None /\ s.heap[o] = None /\ s.content[o] = "free" /\ s.chain[o] = None
OwnValue(s, o) ==
    s.at[o] = o /\ s.content[o] = "value" /\ (s.heap[o] = None => s.chain[o] = None)
OwnItem(s, o) ==
    s.at[o] = o /\ s.content[o] = "item" /\ s.heap[o] = None /\ s.chain[o] = None
OnHeap(s, o) ==
    /\ s.at[o] \in ObjectBlock /\ s.heap[o] # None /\ s.home[s.at[o]] = s.heap[o]
    /\ s.content[s.at[o]] = "item" /\ s.content[o] = "free" /\ s.chain[o] = None
Seated(s, o) == Vacant(s, o) \/ (o \in s.live /\ (OwnValue(s, o) \/ OwnItem(s, o) \/ OnHeap(s, o)))

Kept(s, b) ==
    IF s.home[b] = None THEN s.content[b] = "free" /\ s.chain[b] = None
    ELSE /\ s.refs[s.home[b]] > 0
         /\ s.content[b] = "item" \/ (s.content[b] = "payload" /\ s.chain[b] = None)

HolderOf(s, p) == IF p \in ObjectBlock THEN s.home[p] ELSE s.heap[p]
ChainsWell(s) ==
    /\ \A p \in Place : s.chain[p] # None =>
          /\ s.content[s.chain[p]] = "payload"
          /\ HolderOf(s, p) # None /\ s.home[s.chain[p]] = HolderOf(s, p)
    /\ \A p, q \in Place : s.chain[p] = s.chain[q] => p = q \/ s.chain[p] = None
    /\ \A b \in ObjectBlock : s.content[b] = "payload" => \E p \in Place : s.chain[p] = b

HoldersOf(s, h) == {o \in s.live : s.heap[o] = h}
OneIf(yes) == IF yes THEN 1 ELSE 0
RefsCount(s, x, y) ==
    \A h \in Heap : s.refs[h] = Cardinality(HoldersOf(s, h)) + OneIf(h = x) + OneIf(h = y)

ObjectInv(s, x, y) ==
    /\ s \in Memory
    /\ \A o \in Object : Seated(s, o)
    /\ \A b \in ObjectBlock : Kept(s, b)
    /\ ChainsWell(s) /\ RefsCount(s, x, y)

\* The memory field by field: a record of these fields, each of its type.
AsRecord(t) ==
    t = [live |-> t.live, at |-> t.at, heap |-> t.heap, owner |-> t.owner,
         content |-> t.content, chain |-> t.chain, home |-> t.home, refs |-> t.refs]

TypedFields(t) ==
    /\ t.live \in SUBSET Object
    /\ t.at \in [Object -> Place \cup {None}]
    /\ t.heap \in [Object -> Heap \cup {None}]
    /\ t.owner \in [Object -> Object \cup {None}]
    /\ t.content \in [Place -> {"free", "item", "value", "payload"}]
    /\ t.chain \in [Place -> ObjectBlock \cup {None}]
    /\ t.home \in [ObjectBlock -> Heap \cup {None}]
    /\ t.refs \in [Heap -> Nat]

LEMMA Recorded == ASSUME NEW s \in Memory PROVE AsRecord(s) /\ TypedFields(s)
BY DEF Memory, AsRecord, TypedFields

LEMMA ObjectMemory == ASSUME NEW t, AsRecord(t), TypedFields(t) PROVE t \in Memory
BY DEF Memory, AsRecord, TypedFields

-----------------------------------------------------------------------------
(* Counting holders, and the block an allocation gives. *)

LEMMA Holders ==
  ASSUME NEW s \in Memory, NEW h
  PROVE  IsFiniteSet(HoldersOf(s, h)) /\ Cardinality(HoldersOf(s, h)) \in Nat
<1>1. HoldersOf(s, h) \in SUBSET Object
  BY DEF HoldersOf, Memory
<1> QED BY <1>1, FS_Subset, FS_CardinalityType, ObjectAssumption

\* When one object takes another heap, only those two counts change.
LEMMA HolderMoved ==
  ASSUME NEW s \in Memory, NEW t \in Memory, NEW o \in Object,
         \A p \in Object \ {o} : (p \in t.live <=> p \in s.live) /\ t.heap[p] = s.heap[p]
  PROVE  \A h \in Heap : Cardinality(HoldersOf(t, h)) + OneIf(o \in s.live /\ s.heap[o] = h)
                           = Cardinality(HoldersOf(s, h)) + OneIf(o \in t.live /\ t.heap[o] = h)
<1> SUFFICES ASSUME NEW h \in Heap
             PROVE  Cardinality(HoldersOf(t, h)) + OneIf(o \in s.live /\ s.heap[o] = h)
                      = Cardinality(HoldersOf(s, h)) + OneIf(o \in t.live /\ t.heap[o] = h)
  OBVIOUS
<1> DEFINE S == HoldersOf(s, h)
           T == HoldersOf(t, h)
           R == S \ {o}
<1>1. IsFiniteSet(S) /\ IsFiniteSet(T) /\ Cardinality(S) \in Nat /\ Cardinality(T) \in Nat
  BY Holders
<1>2. /\ o \in S <=> o \in s.live /\ s.heap[o] = h
      /\ o \in T <=> o \in t.live /\ t.heap[o] = h
  BY DEF HoldersOf
<1>3. T \ {o} = R
  BY DEF HoldersOf, Memory
<1>4. /\ Cardinality(R) = IF o \in S THEN Cardinality(S) - 1 ELSE Cardinality(S)
      /\ Cardinality(T \ {o}) = IF o \in T THEN Cardinality(T) - 1 ELSE Cardinality(T)
  <2> HIDE DEF S, T
  <2> QED BY <1>1, FS_RemoveElement
<1> HIDE DEF S, T, R
<1>a. Cardinality(T \ {o}) = Cardinality(R)
  BY ONLY <1>3
<1>b. /\ Cardinality(R) = IF o \in S THEN Cardinality(S) - 1 ELSE Cardinality(S)
      /\ Cardinality(R) = IF o \in T THEN Cardinality(T) - 1 ELSE Cardinality(T)
  BY ONLY <1>a, <1>4
<1>5. Cardinality(T) + OneIf(o \in S) = Cardinality(S) + OneIf(o \in T)
  <2>1. CASE o \in S /\ o \in T
    BY <1>1, <1>b, <2>1 DEF OneIf
  <2>2. CASE o \in S /\ o \notin T
    BY <1>1, <1>b, <2>2 DEF OneIf
  <2>3. CASE o \notin S /\ o \in T
    BY <1>1, <1>b, <2>3 DEF OneIf
  <2>4. CASE o \notin S /\ o \notin T
    BY <1>1, <1>b, <2>4 DEF OneIf
  <2> QED BY <2>1, <2>2, <2>3, <2>4
<1>6. OneIf(o \in S) = OneIf(o \in s.live /\ s.heap[o] = h)
  BY <1>2 DEF OneIf
<1>7. OneIf(o \in T) = OneIf(o \in t.live /\ t.heap[o] = h)
  BY <1>2 DEF OneIf
<1> QED BY <1>5, <1>6, <1>7 DEF S, T

\* The lowest spare block is one.
LEMMA FreshIsSpare ==
  ASSUME NEW s, NEW b \in Spare(s)
  PROVE  ObjectFresh(s) \in Spare(s)
<1> DEFINE R == {c \in Spare(s) : c <= b}
           id == [n \in R |-> n]
<1>1. Spare(s) \subseteq Nat
  BY ObjectAssumption DEF Spare
<1>2. R \in SUBSET (0 .. b) /\ b \in R
  BY <1>1
<1>3. IsFiniteSet(R)
  <2>1. b \in Nat
    BY <1>1
  <2>2. IsFiniteSet(0 .. b)
    BY <2>1, FS_Interval
  <2> HIDE DEF R
  <2> QED BY <1>2, <2>2, FS_Subset
<1>4. \A a \in R : id[a] = a /\ id[a] \in Int
  BY <1>1
<1>5. PICK a \in R : \A c \in R : id[a] <= id[c]
  <2> HIDE DEF R, id
  <2> QED BY <1>2, <1>3, <1>4, LeastRank
<1>6. \A c \in R : a <= c
  BY <1>4, <1>5
<1>7. a \in Spare(s) /\ \A c \in Spare(s) : a <= c
  BY <1>1, <1>6
<1> QED BY <1>7 DEF ObjectFresh

\* The bounds leave a call two blocks and a heap.
LEMMA TwoSpare ==
  ASSUME NEW s, Cardinality(Spare(s)) >= 2
  PROVE  \E b, c \in Spare(s) : b # c
<1> SUFFICES ASSUME \A b, c \in Spare(s) : b = c PROVE FALSE
  OBVIOUS
<1>1. CASE Spare(s) = {}
  BY <1>1, FS_EmptySet
<1>2. CASE Spare(s) # {}
  <2>1. PICK b : Spare(s) = {b}
    BY <1>2
  <2> QED BY <2>1, FS_Singleton
<1> QED BY <1>1, <1>2

-----------------------------------------------------------------------------
(* What the steps of a call do to the invariant. *)

LEMMA CreditsSwap == ASSUME NEW s, NEW x, NEW y, ObjectInv(s, x, y) PROVE ObjectInv(s, y, x)
<1>1. \A h \in Heap : Cardinality(HoldersOf(s, h)) \in Nat
  BY Holders DEF ObjectInv
<1> QED BY <1>1 DEF ObjectInv, RefsCount, OneIf

LEMMA AddRefInv ==
  ASSUME NEW s, NEW y, NEW h \in Heap \cup {None}, ObjectInv(s, None, y)
  PROVE  ObjectInv(AddRef(s, h), h, y)
<1>1. CASE h = None
  BY <1>1 DEF AddRef
<1>2. CASE h # None
  <2> DEFINE t == AddRef(s, h)
  <2>1. s \in Memory /\ h \in Heap
    BY <1>2 DEF ObjectInv
  <2>2. t = [s EXCEPT !.refs[h] = @ + 1]
    BY <1>2 DEF AddRef
  <2>3. /\ t \in Memory /\ t.live = s.live /\ t.at = s.at /\ t.heap = s.heap
        /\ t.content = s.content /\ t.chain = s.chain /\ t.home = s.home
        /\ \A k \in Heap : t.refs[k] = s.refs[k] + OneIf(k = h) /\ s.refs[k] \in Nat
    BY <2>1, <2>2 DEF Memory, OneIf
  <2> HIDE DEF t
  <2>4. \A k : HoldersOf(t, k) = HoldersOf(s, k)
    BY <2>3 DEF HoldersOf
  <2>5. RefsCount(t, h, y)
    <3>1. \A k \in Heap : Cardinality(HoldersOf(s, k)) \in Nat
      BY <2>1, Holders
    <3>2. \A k \in Heap : k # None
      BY ObjectAssumption
    <3> QED BY <2>3, <2>4, <3>1, <3>2 DEF ObjectInv, RefsCount, OneIf
  <2>6. ChainsWell(t)
    BY <2>3 DEF ObjectInv, ChainsWell, HolderOf
  <2>7. \A o \in Object : Seated(t, o)
    BY <2>3 DEF ObjectInv, Seated, Vacant, OwnValue, OwnItem, OnHeap
  <2>8. \A b \in ObjectBlock : Kept(t, b)
    <3> SUFFICES ASSUME NEW b \in ObjectBlock PROVE Kept(t, b)
      OBVIOUS
    <3>1. s.home[b] \in Heap \cup {None} /\ Kept(s, b)
      BY <2>1 DEF ObjectInv, Memory
    <3> QED BY <2>3, <3>1 DEF Kept, OneIf
  <2> QED BY <2>3, <2>5, <2>6, <2>7, <2>8 DEF ObjectInv, t
<1> QED BY <1>1, <1>2

\* What closing a heap does to the memory.
GoneWith(s, h) == {b \in ObjectBlock : h # None /\ s.refs[h] = 1 /\ s.home[b] = h}

Closed(s, t, h) ==
    /\ AsRecord(t)
    /\ t.live = s.live /\ t.at = s.at /\ t.heap = s.heap /\ t.owner = s.owner
    /\ t.home = [b \in ObjectBlock |-> IF b \in GoneWith(s, h) THEN None ELSE s.home[b]]
    /\ t.content = [p \in Place |-> IF p \in GoneWith(s, h) THEN "free" ELSE s.content[p]]
    /\ t.chain = [p \in Place |-> IF p \in GoneWith(s, h) THEN None ELSE s.chain[p]]
    /\ t.refs = [k \in Heap |-> IF k = h THEN s.refs[k] - 1 ELSE s.refs[k]]

LEMMA CloseFields ==
  ASSUME NEW s \in Memory, NEW h \in Heap \cup {None}
  PROVE  Closed(s, Close(s, h), h)
<1>1. CASE h = None
  <2>1. Close(s, h) = s /\ GoneWith(s, h) = {} /\ \A k \in Heap : k # h
    BY <1>1, ObjectAssumption DEF Close, GoneWith
  <2> QED BY <2>1, Recorded DEF Closed, Memory
<1>2. CASE h # None
  <2> DEFINE t == Close(s, h)
  <2>1. t = [s EXCEPT !.refs[h] = @ - 1,
                      !.home = [b \in ObjectBlock |-> IF b \in GoneWith(s, h) THEN None ELSE @[b]],
                      !.content = [p \in Place |-> IF p \in GoneWith(s, h) THEN "free" ELSE @[p]],
                      !.chain = [p \in Place |-> IF p \in GoneWith(s, h) THEN None ELSE @[p]]]
    BY <1>2 DEF Close, GoneWith
  <2>2. h \in Heap
    BY <1>2
  <2> HIDE DEF t
  <2>3. t.live = s.live /\ t.at = s.at /\ t.heap = s.heap /\ t.owner = s.owner
    BY <2>1 DEF Memory
  <2>8. AsRecord(t)
    BY <2>1 DEF Memory, AsRecord
  <2>4. t.refs = [s.refs EXCEPT ![h] = @ - 1]
    BY <2>1 DEF Memory
  <2>5. t.home = [b \in ObjectBlock |-> IF b \in GoneWith(s, h) THEN None ELSE s.home[b]]
    BY <2>1 DEF Memory
  <2>6. /\ t.content = [p \in Place |-> IF p \in GoneWith(s, h) THEN "free" ELSE s.content[p]]
        /\ t.chain = [p \in Place |-> IF p \in GoneWith(s, h) THEN None ELSE s.chain[p]]
    BY <2>1 DEF Memory
  <2>7. t.refs = [k \in Heap |-> IF k = h THEN s.refs[k] - 1 ELSE s.refs[k]]
    BY <2>2, <2>4 DEF Memory
  <2> QED BY <2>3, <2>5, <2>6, <2>7, <2>8 DEF Closed, t
<1> QED BY <1>1, <1>2

\* The last holder of a heap leaves no one who names a block of it.
LEMMA CloseInv ==
  ASSUME NEW s, NEW y, NEW h \in Heap \cup {None}, ObjectInv(s, h, y)
  PROVE  ObjectInv(Close(s, h), None, y)
<1>1. CASE h = None
  BY <1>1 DEF Close
<1>2. CASE h # None
  <2> DEFINE t == Close(s, h)
             gone == {b \in ObjectBlock : s.refs[h] = 1 /\ s.home[b] = h}
  <2>1. s \in Memory /\ h \in Heap /\ \A k \in Heap : k # None
    BY <1>2, ObjectAssumption DEF ObjectInv
  <2>2. Closed(s, t, h) /\ gone = GoneWith(s, h)
    BY <1>2, <2>1, CloseFields DEF GoneWith
  <2>3. /\ \A k \in Heap : Cardinality(HoldersOf(s, k)) \in Nat /\ s.refs[k] \in Nat
        /\ s.refs[h] >= 1
        /\ s.refs[h] = 1 => HoldersOf(s, h) = {}
    <3>1. /\ Cardinality(HoldersOf(s, h)) \in Nat /\ IsFiniteSet(HoldersOf(s, h))
          /\ s.refs[h] = Cardinality(HoldersOf(s, h)) + 1 + OneIf(h = y)
      BY <2>1, Holders DEF ObjectInv, RefsCount, OneIf
    <3>2. s.refs[h] = 1 => Cardinality(HoldersOf(s, h)) = 0
      BY <3>1 DEF OneIf
    <3>3. s.refs[h] = 1 => HoldersOf(s, h) = {}
      BY <3>1, <3>2, FS_EmptySet
    <3>4. s.refs[h] >= 1
      BY <3>1 DEF OneIf
    <3>5. \A k \in Heap : Cardinality(HoldersOf(s, k)) \in Nat /\ s.refs[k] \in Nat
      BY <2>1, Holders DEF Memory
    <3> QED BY <3>3, <3>4, <3>5
  <2>4. /\ t \in Memory /\ t.live = s.live /\ t.at = s.at /\ t.heap = s.heap
        /\ \A k \in Heap : t.refs[k] = s.refs[k] - OneIf(k = h)
        /\ \A b \in ObjectBlock : t.home[b] = IF b \in gone THEN None ELSE s.home[b]
        /\ \A p \in Place : /\ t.content[p] = IF p \in gone THEN "free" ELSE s.content[p]
                            /\ t.chain[p] = IF p \in gone THEN None ELSE s.chain[p]
    <3>1. TypedFields(s) /\ s.refs[h] - 1 \in Nat
      BY <2>1, <2>3, Recorded
    <3>2. gone \subseteq ObjectBlock /\ ObjectBlock \subseteq Place
      BY DEF Place
    <3> HIDE DEF gone, t
    <3>3. TypedFields(t)
      BY <2>2, <3>1 DEF Closed, TypedFields
    <3>4. t \in Memory
      BY <2>2, <3>3, ObjectMemory DEF Closed
    <3>5. \A k \in Heap : t.refs[k] = s.refs[k] - OneIf(k = h)
      BY <2>2, <2>3 DEF Closed, OneIf
    <3> QED BY <2>2, <3>2, <3>4, <3>5 DEF Closed
  <2>5. /\ \A b \in gone : b \in ObjectBlock /\ s.home[b] = h /\ s.refs[h] = 1
        /\ \A b \in ObjectBlock \ gone : s.home[b] = h => s.refs[h] # 1
        /\ gone \cap Object = {}
    BY ObjectAssumption
  <2> HIDE DEF t, gone
  <2>6. \A k : HoldersOf(t, k) = HoldersOf(s, k)
    BY <2>4 DEF HoldersOf
  <2>7. RefsCount(t, None, y)
    BY <2>1, <2>3, <2>4, <2>6 DEF ObjectInv, RefsCount, OneIf
  <2>8. \A o \in Object : Seated(t, o)
    <3> SUFFICES ASSUME NEW o \in Object PROVE Seated(t, o)
      OBVIOUS
    <3>1. Seated(s, o) /\ o \in Place /\ o \notin gone
      BY <2>5 DEF ObjectInv, Place
    <3>2. t.content[o] = s.content[o] /\ t.chain[o] = s.chain[o]
      BY <2>4, <3>1
    <3>3. ASSUME o \in s.live, s.at[o] \in gone, s.home[s.at[o]] = s.heap[o] PROVE FALSE
      BY <2>3, <2>5, <3>3 DEF HoldersOf
    <3>4. ObjectBlock \subseteq Place
      BY DEF Place
    <3> QED BY <2>4, <3>1, <3>2, <3>3, <3>4 DEF Seated, Vacant, OwnValue, OwnItem, OnHeap
  <2>9. \A b \in ObjectBlock : Kept(t, b)
    <3> SUFFICES ASSUME NEW b \in ObjectBlock PROVE Kept(t, b)
      OBVIOUS
    <3>1. Kept(s, b) /\ b \in Place /\ s.home[b] \in Heap \cup {None}
      BY <2>1 DEF ObjectInv, Place, Memory
    <3>2. CASE b \in gone
      BY <2>4, <3>1, <3>2 DEF Kept
    <3>3. CASE b \notin gone
      <4>1. s.home[b] # None => t.refs[s.home[b]] > 0
        BY <2>1, <2>3, <2>4, <2>5, <3>1, <3>3 DEF Kept, OneIf
      <4> QED BY <2>4, <3>1, <3>3, <4>1 DEF Kept
    <3> QED BY <3>2, <3>3
  <2>10. ChainsWell(t)
    <3>1. ASSUME NEW p \in Place, t.chain[p] # None
          PROVE  /\ p \notin gone /\ t.chain[p] = s.chain[p] /\ t.chain[p] \in ObjectBlock \ gone
                 /\ HolderOf(t, p) = HolderOf(s, p)
      <4>1. p \notin gone /\ t.chain[p] = s.chain[p] /\ s.chain[p] \in ObjectBlock
        BY <2>1, <2>4, <3>1 DEF Memory
      <4>2. HolderOf(s, p) # None /\ s.home[s.chain[p]] = HolderOf(s, p)
        BY <3>1, <4>1 DEF ObjectInv, ChainsWell
      <4>3. HolderOf(t, p) = HolderOf(s, p)
        BY <2>4, <4>1 DEF HolderOf
      <4>4. ASSUME s.chain[p] \in gone PROVE FALSE
        <5>1. HolderOf(s, p) = h /\ s.refs[h] = 1
          BY <2>5, <4>2, <4>4
        <5>2. p \notin ObjectBlock
          BY <2>5, <4>1, <5>1 DEF HolderOf
        <5>3. p \in Object /\ s.heap[p] = h
          BY <5>1, <5>2 DEF HolderOf, Place
        <5>4. p \in s.live
          BY <2>1, <5>3 DEF ObjectInv, Seated, Vacant
        <5> QED BY <2>3, <5>1, <5>3, <5>4 DEF HoldersOf
      <4> QED BY <4>1, <4>3, <4>4
    <3>2. \A p \in Place : t.chain[p] # None =>
             /\ t.content[t.chain[p]] = "payload"
             /\ HolderOf(t, p) # None /\ t.home[t.chain[p]] = HolderOf(t, p)
      <4> SUFFICES ASSUME NEW p \in Place, t.chain[p] # None
                   PROVE  /\ t.content[t.chain[p]] = "payload"
                          /\ HolderOf(t, p) # None /\ t.home[t.chain[p]] = HolderOf(t, p)
        OBVIOUS
      <4>1. PICK b \in ObjectBlock \ gone : b = s.chain[p] /\ t.chain[p] = b
        BY <3>1
      <4>2. b # None /\ s.content[b] = "payload" /\ HolderOf(s, p) # None /\ s.home[b] = HolderOf(s, p)
        BY <4>1, ObjectAssumption DEF ObjectInv, ChainsWell
      <4>3. t.content[b] = s.content[b] /\ t.home[b] = s.home[b]
        BY <2>4, <4>1 DEF Place
      <4> QED BY <3>1, <4>1, <4>2, <4>3
    <3>3. \A p, q \in Place : t.chain[p] = t.chain[q] => p = q \/ t.chain[p] = None
      BY <3>1 DEF ObjectInv, ChainsWell
    <3>4. ASSUME NEW b \in ObjectBlock, t.content[b] = "payload"
          PROVE  \E p \in Place : t.chain[p] = b
      <4>1. b \notin gone /\ s.content[b] = "payload"
        BY <2>4, <3>4 DEF Place
      <4>2. PICK p \in Place : s.chain[p] = b
        BY <4>1 DEF ObjectInv, ChainsWell
      <4>3. b # None /\ s.home[b] = HolderOf(s, p)
        BY <4>2, ObjectAssumption DEF ObjectInv, ChainsWell
      <4>4. p \notin gone
        <5> SUFFICES ASSUME p \in gone PROVE FALSE
          OBVIOUS
        <5>1. s.home[b] = h /\ s.refs[h] = 1
          BY <2>5, <4>3 DEF HolderOf
        <5> QED BY <2>5, <4>1, <5>1
      <4> QED BY <2>4, <4>2, <4>4
    <3> QED BY <3>2, <3>3, <3>4 DEF ChainsWell
  <2> QED BY <2>4, <2>7, <2>8, <2>9, <2>10 DEF ObjectInv, t
<1> QED BY <1>1, <1>2

\* What a call changes when it gives a payload back, or takes one.
SameNames(s, t) ==
    t.live = s.live /\ t.at = s.at /\ t.heap = s.heap /\ t.owner = s.owner /\ t.refs = s.refs

LEMMA PayloadDropped ==
  ASSUME NEW s, NEW x, NEW y, ObjectInv(s, x, y), NEW p \in Place, NEW b, b = s.chain[p], b # None,
         NEW t, t = ObjectFree([s EXCEPT !.chain[p] = None], b)
  PROVE  /\ ObjectInv(t, x, y) /\ SameNames(s, t) /\ b \in ObjectBlock
         /\ s.content[b] = "payload" /\ t.chain[p] = None
         /\ \A c \in ObjectBlock \ {b} : t.home[c] = s.home[c]
         /\ Spare(s) \subseteq Spare(t)
         /\ \A q \in Place \ {b} : t.content[q] = s.content[q]
         /\ \A q \in Place \ {p} : t.chain[q] = s.chain[q]
<1>1. s \in Memory /\ b \in ObjectBlock /\ ObjectBlock \subseteq Place /\ Object \subseteq Place
  BY DEF ObjectInv, Memory, Place
<1>2. /\ s.content[b] = "payload" /\ s.chain[b] = None /\ b # p
      /\ s.home[b] # None /\ s.home[b] = HolderOf(s, p)
  <2>1. s.content[b] = "payload" /\ HolderOf(s, p) # None /\ s.home[b] = HolderOf(s, p)
    BY DEF ObjectInv, ChainsWell
  <2>2. Kept(s, b)
    BY <1>1 DEF ObjectInv
  <2> QED BY <2>1, <2>2 DEF Kept
<1>3. PICK m : m = [s EXCEPT !.chain = [s.chain EXCEPT ![p] = None]] /\ t = ObjectFree(m, b)
  BY <1>1, Recorded DEF AsRecord
<1>4. /\ AsRecord(t) /\ SameNames(s, t)
      /\ t.chain = [[s.chain EXCEPT ![p] = None] EXCEPT ![b] = None]
      /\ t.home = [s.home EXCEPT ![b] = None]
      /\ t.content = [s.content EXCEPT ![b] = "free"]
  <2>1. /\ AsRecord(m) /\ SameNames(s, m) /\ m.chain = [s.chain EXCEPT ![p] = None]
        /\ m.home = s.home /\ m.content = s.content
    BY <1>1, <1>3, Recorded DEF AsRecord, SameNames
  <2>2. t = [m EXCEPT !.home = [m.home EXCEPT ![b] = None],
                      !.content = [m.content EXCEPT ![b] = "free"],
                      !.chain = [m.chain EXCEPT ![b] = None]]
    BY <1>3, <2>1 DEF ObjectFree, AsRecord
  <2>3. /\ AsRecord(t) /\ SameNames(m, t) /\ t.chain = [m.chain EXCEPT ![b] = None]
        /\ t.home = [m.home EXCEPT ![b] = None] /\ t.content = [m.content EXCEPT ![b] = "free"]
    BY <2>1, <2>2 DEF AsRecord, SameNames
  <2> QED BY <2>1, <2>3 DEF SameNames
<1>5. t \in Memory
  <2>1. TypedFields(s) /\ p \in Place
    BY <1>1, Recorded
  <2>2. TypedFields(t)
    BY ONLY <1>1, <1>4, <2>1 DEF SameNames, TypedFields
  <2> QED BY <1>4, <2>2, ObjectMemory
<1>6. /\ \A c \in ObjectBlock : t.home[c] = IF c = b THEN None ELSE s.home[c]
      /\ \A q \in Place : t.content[q] = IF q = b THEN "free" ELSE s.content[q]
      /\ \A q \in Place : t.chain[q] = IF q = p THEN None ELSE s.chain[q]
  BY <1>1, <1>2, <1>4 DEF Memory
<1>7. b \notin Object /\ \A o \in Object : b # o
  BY <1>1, ObjectAssumption
<1>13. Spare(s) \subseteq Spare(t)
  BY <1>6 DEF Spare
<1>8. \A h : HoldersOf(t, h) = HoldersOf(s, h)
  BY <1>4 DEF HoldersOf, SameNames
<1>9. RefsCount(t, x, y)
  BY <1>4, <1>8 DEF ObjectInv, RefsCount, SameNames
<1>10. \A o \in Object : Seated(t, o)
  <2> SUFFICES ASSUME NEW o \in Object PROVE Seated(t, o)
    OBVIOUS
  <2>1. Seated(s, o) /\ t.content[o] = s.content[o] /\ t.chain[o] \in {s.chain[o], None}
    BY <1>1, <1>6, <1>7 DEF ObjectInv
  <2>2. s.at[o] \in ObjectBlock /\ s.content[s.at[o]] = "item" =>
          t.content[s.at[o]] = "item" /\ t.home[s.at[o]] = s.home[s.at[o]]
    BY <1>1, <1>2, <1>6
  <2> QED BY <1>4, <2>1, <2>2 DEF Seated, Vacant, OwnValue, OwnItem, OnHeap, SameNames
<1>11. \A c \in ObjectBlock : Kept(t, c)
  <2> SUFFICES ASSUME NEW c \in ObjectBlock PROVE Kept(t, c)
    OBVIOUS
  <2>1. Kept(s, c) /\ c \in Place
    BY <1>1 DEF ObjectInv
  <2> QED BY <1>2, <1>4, <1>6, <2>1 DEF Kept, SameNames
<1>12. ChainsWell(t)
  <2>1. ASSUME NEW q \in Place, t.chain[q] # None
        PROVE  /\ q # p /\ t.chain[q] = s.chain[q] /\ s.chain[q] # b /\ s.chain[q] \in ObjectBlock
               /\ q # b
    <3>1. q # p /\ t.chain[q] = s.chain[q]
      BY <1>6, <2>1
    <3>2. s.chain[q] # b
      BY <2>1, <3>1 DEF ObjectInv, ChainsWell
    <3>3. q # b
      BY <1>2, <2>1, <3>1
    <3>4. s.chain[q] \in ObjectBlock
      BY <1>1, <2>1, <3>1 DEF Memory
    <3> QED BY <3>1, <3>2, <3>3, <3>4
  <2>2. ASSUME NEW q \in Place, t.chain[q] # None
        PROVE  /\ t.content[t.chain[q]] = "payload"
               /\ HolderOf(t, q) # None /\ t.home[t.chain[q]] = HolderOf(t, q)
    <3>1. PICK c \in ObjectBlock : c = s.chain[q] /\ c # b /\ t.chain[q] = c /\ q # b
      BY <2>1, <2>2
    <3>2. s.content[c] = "payload" /\ HolderOf(s, q) # None /\ s.home[c] = HolderOf(s, q)
      BY <2>2, <3>1 DEF ObjectInv, ChainsWell
    <3>3. t.content[c] = "payload" /\ t.home[c] = s.home[c]
      BY <1>1, <1>6, <3>1, <3>2
    <3>4. HolderOf(t, q) = HolderOf(s, q)
      BY <1>4, <1>6, <3>1 DEF HolderOf, SameNames
    <3> QED BY <3>1, <3>2, <3>3, <3>4
  <2>3. \A q, r \in Place : t.chain[q] = t.chain[r] => q = r \/ t.chain[q] = None
    BY <2>1 DEF ObjectInv, ChainsWell
  <2>4. ASSUME NEW c \in ObjectBlock, t.content[c] = "payload" PROVE \E q \in Place : t.chain[q] = c
    <3>1. c # b /\ s.content[c] = "payload"
      BY <1>1, <1>6, <2>4
    <3>2. PICK q \in Place : s.chain[q] = c
      BY <3>1 DEF ObjectInv, ChainsWell
    <3> QED BY <1>6, <3>1, <3>2
  <2> QED BY <2>2, <2>3, <2>4 DEF ChainsWell
<1> QED BY <1>1, <1>2, <1>4, <1>5, <1>6, <1>9, <1>10, <1>11, <1>12, <1>13 DEF ObjectInv

\* Giving a value's payload back leaves every name and every item where it is.
Released(s, t, o) ==
    /\ SameNames(s, t) /\ t.chain[o] = None
    /\ \A p \in Object : t.content[p] = s.content[p]
    /\ \A p \in Object \ {o} : t.chain[p] = s.chain[p]
    /\ \A b \in ObjectBlock : s.content[b] = "item" => t.content[b] = "item" /\ t.home[b] = s.home[b]
    /\ Spare(s) \subseteq Spare(t)

LEMMA ReleaseInv ==
  ASSUME NEW s, NEW x, NEW y, ObjectInv(s, x, y), NEW o \in Object
  PROVE  ObjectInv(ReleaseInlineChain(s, o), x, y) /\ Released(s, ReleaseInlineChain(s, o), o)
<1> DEFINE t == ReleaseInlineChain(s, o)
           b == s.chain[o]
<1>1. Seated(s, o) /\ o \in Place
  BY DEF ObjectInv, Place
<1>2. CASE b = None
  <2>1. t = s
    BY <1>2 DEF ReleaseInlineChain
  <2> QED BY <1>2, <2>1 DEF Released, SameNames
<1>3. CASE b # None
  <2>1. t = ObjectFree([s EXCEPT !.chain[o] = None], b)
    BY <1>1, <1>3 DEF ReleaseInlineChain, Inline, Seated, Vacant, OwnValue, OwnItem, OnHeap
  <2> HIDE DEF t, b
  <2>2. /\ ObjectInv(t, x, y) /\ SameNames(s, t) /\ b \in ObjectBlock
        /\ s.content[b] = "payload" /\ t.chain[o] = None
        /\ \A c \in ObjectBlock \ {b} : t.home[c] = s.home[c]
        /\ Spare(s) \subseteq Spare(t)
        /\ \A q \in Place \ {b} : t.content[q] = s.content[q]
        /\ \A q \in Place \ {o} : t.chain[q] = s.chain[q]
    <3>1. b = s.chain[o]
      BY DEF b
    <3> QED BY <1>1, <1>3, <2>1, <3>1, PayloadDropped
  <2>3. Object \cup ObjectBlock = Place /\ b \notin Object
    BY <2>2, ObjectAssumption DEF Place
  <2> QED BY <2>2, <2>3 DEF Released, t
<1> QED BY <1>2, <1>3

SeatChanged(s, t, o) ==
    /\ t \in Memory /\ t.chain = s.chain /\ t.home = s.home /\ t.refs = s.refs
    /\ \A p \in Place \ {o} : t.content[p] = s.content[p]
    /\ \A p \in Object \ {o} :
          (p \in t.live <=> p \in s.live) /\ t.at[p] = s.at[p] /\ t.heap[p] = s.heap[p]

\* An object takes another seat, with no payload in its array: the blocks stay,
\* and the references in the call's hand make up for the heaps it changes.
LEMMA SeatTaken ==
  ASSUME NEW s, NEW x, NEW y, ObjectInv(s, x, y), NEW o \in Object, s.chain[o] = None,
         NEW t, SeatChanged(s, t, o), Seated(t, o), NEW x2, NEW y2,
         \A h \in Heap : OneIf(o \in s.live /\ s.heap[o] = h) + OneIf(h = x) + OneIf(h = y)
                           = OneIf(o \in t.live /\ t.heap[o] = h) + OneIf(h = x2) + OneIf(h = y2)
  PROVE  ObjectInv(t, x2, y2)
<1>   /\ t \in Memory /\ t.chain = s.chain /\ t.home = s.home /\ t.refs = s.refs
      /\ \A p \in Place \ {o} : t.content[p] = s.content[p]
      /\ \A p \in Object \ {o} :
            (p \in t.live <=> p \in s.live) /\ t.at[p] = s.at[p] /\ t.heap[p] = s.heap[p]
  BY DEF SeatChanged
<1>1. s \in Memory /\ ObjectBlock \subseteq Place /\ Object \subseteq Place
  BY DEF ObjectInv, Place
<1>2. \A b \in ObjectBlock : b # o /\ t.content[b] = s.content[b]
  BY <1>1, ObjectAssumption
<1>3. RefsCount(t, x2, y2)
  <2> SUFFICES ASSUME NEW h \in Heap
               PROVE  t.refs[h] = Cardinality(HoldersOf(t, h)) + OneIf(h = x2) + OneIf(h = y2)
    BY DEF RefsCount
  <2>1. Cardinality(HoldersOf(t, h)) + OneIf(o \in s.live /\ s.heap[o] = h)
          = Cardinality(HoldersOf(s, h)) + OneIf(o \in t.live /\ t.heap[o] = h)
    BY <1>1, HolderMoved
  <2>2. Cardinality(HoldersOf(t, h)) \in Nat /\ Cardinality(HoldersOf(s, h)) \in Nat
    BY <1>1, Holders
  <2>3. s.refs[h] = Cardinality(HoldersOf(s, h)) + OneIf(h = x) + OneIf(h = y)
    BY DEF ObjectInv, RefsCount
  <2> DEFINE a == OneIf(o \in s.live /\ s.heap[o] = h)
             b == OneIf(o \in t.live /\ t.heap[o] = h)
             c == OneIf(h = x)
             d == OneIf(h = y)
             e == OneIf(h = x2)
             f == OneIf(h = y2)
             m == Cardinality(HoldersOf(t, h))
             n == Cardinality(HoldersOf(s, h))
  <2>4. a \in Nat /\ b \in Nat /\ c \in Nat /\ d \in Nat /\ e \in Nat /\ f \in Nat
    BY DEF OneIf
  <2>5. a + c + d = b + e + f
    OBVIOUS
  <2>6. t.refs[h] = n + c + d /\ m + a = n + b /\ m \in Nat /\ n \in Nat
    BY <2>1, <2>2, <2>3
  <2> HIDE DEF a, b, c, d, e, f, m, n
  <2>7. t.refs[h] = m + e + f
    BY ONLY <2>4, <2>5, <2>6
  <2> QED BY <2>7 DEF m, e, f
<1>4. \A p \in Object : Seated(t, p)
  <2> SUFFICES ASSUME NEW p \in Object, p # o PROVE Seated(t, p)
    OBVIOUS
  <2>1. Seated(s, p) /\ p \in Place
    BY <1>1 DEF ObjectInv
  <2> QED BY <1>2, <2>1 DEF Seated, Vacant, OwnValue, OwnItem, OnHeap
<1>5. \A b \in ObjectBlock : Kept(t, b)
  BY <1>2 DEF ObjectInv, Kept
<1>6. ChainsWell(t)
  <2>1. ASSUME NEW p \in Place, t.chain[p] # None
        PROVE  /\ t.content[t.chain[p]] = "payload"
               /\ HolderOf(t, p) # None /\ t.home[t.chain[p]] = HolderOf(t, p)
    <3>1. PICK c \in ObjectBlock : c = s.chain[p] /\ t.chain[p] = c
      BY <1>1, <2>1 DEF Memory
    <3>2. s.content[c] = "payload" /\ HolderOf(s, p) # None /\ s.home[c] = HolderOf(s, p)
      BY <2>1, <3>1 DEF ObjectInv, ChainsWell
    <3>3. p # o
      BY <2>1
    <3>4. HolderOf(t, p) = HolderOf(s, p)
      BY <3>3 DEF HolderOf, Place
    <3> QED BY <1>2, <3>1, <3>2, <3>4
  <2>2. \A p, q \in Place : t.chain[p] = t.chain[q] => p = q \/ t.chain[p] = None
    BY DEF ObjectInv, ChainsWell
  <2>3. \A b \in ObjectBlock : t.content[b] = "payload" => \E p \in Place : t.chain[p] = b
    BY <1>2 DEF ObjectInv, ChainsWell
  <2> QED BY <2>1, <2>2, <2>3 DEF ChainsWell
<1> QED BY <1>3, <1>4, <1>5, <1>6 DEF ObjectInv

\* What ObjectAlloc does, field by field.
Allocated(s, t, h, b, what) ==
    /\ AsRecord(t) /\ t.live = s.live /\ t.at = s.at /\ t.heap = s.heap
    /\ t.owner = s.owner /\ t.refs = s.refs
    /\ t.home = [s.home EXCEPT ![b] = h]
    /\ t.content = [s.content EXCEPT ![b] = what]
    /\ t.chain = [s.chain EXCEPT ![b] = None]

LEMMA AllocFields ==
  ASSUME NEW s, AsRecord(s), NEW h, NEW b, NEW what
  PROVE  Allocated(s, ObjectAlloc(s, h, b, what), h, b, what)
<1> DEFINE t == ObjectAlloc(s, h, b, what)
<1>1. AsRecord(s)
  OBVIOUS
<1>2. t = [s EXCEPT !.home = [s.home EXCEPT ![b] = h],
                    !.content = [s.content EXCEPT ![b] = what],
                    !.chain = [s.chain EXCEPT ![b] = None]]
  BY <1>1 DEF ObjectAlloc, AsRecord
<1> HIDE DEF t
<1> QED BY <1>1, <1>2 DEF AsRecord, t, Allocated

\* A block on an open heap becomes an item that nobody names yet.
LEMMA ItemMade ==
  ASSUME NEW s, NEW x, NEW y, ObjectInv(s, x, y), NEW b \in Spare(s),
         NEW h \in Heap, s.refs[h] > 0, NEW t, t = ObjectAlloc(s, h, b, "item")
  PROVE  /\ ObjectInv(t, x, y) /\ SameNames(s, t) /\ t.chain = s.chain
         /\ t.home = [s.home EXCEPT ![b] = h] /\ t.content = [s.content EXCEPT ![b] = "item"]
<1>1. /\ s \in Memory /\ b \in ObjectBlock /\ ObjectBlock \subseteq Place /\ Object \subseteq Place
      /\ s.home[b] = None /\ h # None
  BY ObjectAssumption DEF ObjectInv, Place, Spare
<1>2. s.content[b] = "free" /\ s.chain[b] = None
  BY <1>1 DEF ObjectInv, Kept
<1>3. Allocated(s, t, h, b, "item") /\ SameNames(s, t)
  BY <1>1, Recorded, AllocFields DEF Allocated, SameNames
<1>4. t.chain = s.chain
  BY <1>1, <1>2, <1>3 DEF Allocated, Memory
<1>5. t \in Memory
  <2>1. TypedFields(s)
    BY <1>1, Recorded
  <2>2. TypedFields(t)
    BY <1>1, <1>3, <2>1 DEF Allocated, TypedFields
  <2> QED BY <1>3, <2>2, ObjectMemory DEF Allocated
<1>6. /\ \A c \in ObjectBlock : t.home[c] = IF c = b THEN h ELSE s.home[c]
      /\ \A q \in Place : t.content[q] = IF q = b THEN "item" ELSE s.content[q]
  BY <1>1, <1>3 DEF Allocated, Memory
<1>7. \A o \in Object : b # o
  BY <1>1, ObjectAssumption
<1>8. \A k : HoldersOf(t, k) = HoldersOf(s, k)
  BY <1>3 DEF HoldersOf, SameNames
<1>9. RefsCount(t, x, y)
  BY <1>3, <1>8 DEF ObjectInv, RefsCount, SameNames
<1>10. \A o \in Object : Seated(t, o)
  <2> SUFFICES ASSUME NEW o \in Object PROVE Seated(t, o)
    OBVIOUS
  <2>1. Seated(s, o) /\ t.content[o] = s.content[o]
    BY <1>1, <1>6, <1>7 DEF ObjectInv
  <2>2. s.at[o] \in ObjectBlock /\ s.content[s.at[o]] = "item" =>
          t.content[s.at[o]] = "item" /\ t.home[s.at[o]] = s.home[s.at[o]]
    BY <1>1, <1>2, <1>6
  <2> QED BY <1>3, <1>4, <2>1, <2>2 DEF Seated, Vacant, OwnValue, OwnItem, OnHeap, SameNames
<1>11. \A c \in ObjectBlock : Kept(t, c)
  <2> SUFFICES ASSUME NEW c \in ObjectBlock PROVE Kept(t, c)
    OBVIOUS
  <2>1. Kept(s, c) /\ c \in Place
    BY <1>1 DEF ObjectInv
  <2> QED BY <1>1, <1>2, <1>3, <1>4, <1>6, <2>1 DEF Kept, SameNames
<1>12. ChainsWell(t)
  <2>1. ASSUME NEW q \in Place, s.chain[q] # None
        PROVE  /\ t.content[s.chain[q]] = "payload"
               /\ HolderOf(t, q) # None /\ t.home[s.chain[q]] = HolderOf(t, q)
    <3>1. PICK c \in ObjectBlock : c = s.chain[q]
      BY <1>1, <2>1 DEF Memory
    <3>2. s.content[c] = "payload" /\ HolderOf(s, q) # None /\ s.home[c] = HolderOf(s, q)
      BY <2>1, <3>1 DEF ObjectInv, ChainsWell
    <3>3. c # b /\ q # b
      BY <1>2, <2>1, <3>1, <3>2
    <3>4. t.content[c] = "payload" /\ t.home[c] = s.home[c]
      BY <1>1, <1>6, <3>2, <3>3
    <3>5. HolderOf(t, q) = HolderOf(s, q)
      BY <1>3, <1>6, <3>3 DEF HolderOf, SameNames
    <3> QED BY <3>1, <3>2, <3>4, <3>5
  <2>2. \A c \in ObjectBlock : t.content[c] = "payload" => s.content[c] = "payload"
    BY <1>1, <1>6
  <2> QED BY <1>4, <2>1, <2>2 DEF ObjectInv, ChainsWell
<1> QED BY <1>3, <1>4, <1>5, <1>9, <1>10, <1>11, <1>12 DEF Allocated, ObjectInv

PayloadWanted(s, b, p) ==
    /\ b \in Spare(s) /\ p \in Place /\ s.chain[p] = None /\ HolderOf(s, p) # None
    /\ s.content[p] \in {"value", "item"} /\ (p \in Object => OwnValue(s, p))

PayloadAt(s, t, b, p) ==
    /\ t \in Memory /\ SameNames(s, t)
    /\ t.home = [s.home EXCEPT ![b] = HolderOf(s, p)]
    /\ t.content = [s.content EXCEPT ![b] = "payload"]
    /\ \A q \in Place : t.chain[q] = IF q = p THEN b ELSE s.chain[q]

\* A value or an item that has no payload gets one, on the heap it is on.
LEMMA PayloadMade ==
  ASSUME NEW s, NEW x, NEW y, ObjectInv(s, x, y), NEW b, NEW p, PayloadWanted(s, b, p),
         NEW t, PayloadAt(s, t, b, p)
  PROVE  ObjectInv(t, x, y)
<1> DEFINE h == HolderOf(s, p)
<1>   /\ b \in Spare(s) /\ p \in Place /\ s.chain[p] = None /\ h = HolderOf(s, p) /\ h # None
      /\ s.content[p] \in {"value", "item"} /\ (p \in Object => OwnValue(s, p))
      /\ t \in Memory /\ SameNames(s, t)
      /\ t.home = [s.home EXCEPT ![b] = h] /\ t.content = [s.content EXCEPT ![b] = "payload"]
      /\ \A q \in Place : t.chain[q] = IF q = p THEN b ELSE s.chain[q]
  BY DEF PayloadWanted, PayloadAt
<1> HIDE DEF h
<1>1. /\ s \in Memory /\ b \in ObjectBlock /\ ObjectBlock \subseteq Place /\ Object \subseteq Place
      /\ s.home[b] = None /\ b # None
  BY ObjectAssumption DEF ObjectInv, Place, Spare
<1>2. s.content[b] = "free" /\ s.chain[b] = None /\ b # p
  BY <1>1 DEF ObjectInv, Kept
<1>3. h \in Heap
  BY <1>1 DEF HolderOf, Memory, Place
<1>4. s.refs[h] > 0
  <2>1. CASE p \in ObjectBlock
    BY <1>1, <2>1 DEF ObjectInv, Kept, HolderOf
  <2>2. CASE p \notin ObjectBlock
    <3>1. p \in Object /\ s.heap[p] = h
      BY <2>2 DEF Place, HolderOf
    <3>2. p \in HoldersOf(s, h)
      BY <3>1, <1>3, ObjectAssumption DEF ObjectInv, Seated, Vacant, HoldersOf
    <3>3. Cardinality(HoldersOf(s, h)) # 0 /\ Cardinality(HoldersOf(s, h)) \in Nat
      BY <1>1, <3>2, Holders, FS_EmptySet
    <3> QED BY <1>1, <1>3, <3>3 DEF ObjectInv, RefsCount, OneIf
  <2> QED BY <2>1, <2>2
<1>6. /\ \A c \in ObjectBlock : t.home[c] = IF c = b THEN h ELSE s.home[c]
      /\ \A q \in Place : t.content[q] = IF q = b THEN "payload" ELSE s.content[q]
  BY <1>1 DEF Memory
<1>7. \A o \in Object : b # o
  BY <1>1, ObjectAssumption
<1>8. \A k : HoldersOf(t, k) = HoldersOf(s, k)
  BY DEF HoldersOf, SameNames
<1>9. RefsCount(t, x, y)
  BY <1>8 DEF ObjectInv, RefsCount, SameNames
<1>10. \A o \in Object : Seated(t, o)
  <2> SUFFICES ASSUME NEW o \in Object PROVE Seated(t, o)
    OBVIOUS
  <2>1. Seated(s, o) /\ t.content[o] = s.content[o] /\ o \in Place
    BY <1>1, <1>6, <1>7 DEF ObjectInv
  <2>2. s.at[o] \in ObjectBlock /\ s.content[s.at[o]] = "item" =>
          t.content[s.at[o]] = "item" /\ t.home[s.at[o]] = s.home[s.at[o]]
    BY <1>1, <1>2, <1>6
  <2>3. CASE o = p
    <3>1. OwnValue(s, o) /\ s.heap[o] = h /\ o \in s.live
      BY <1>7, <2>1, <2>3, ObjectAssumption DEF HolderOf, Seated, Vacant, OwnValue
    <3> QED BY <2>1, <3>1 DEF Seated, OwnValue, SameNames
  <2>4. CASE o # p
    BY <2>1, <2>2, <2>4 DEF Seated, Vacant, OwnValue, OwnItem, OnHeap, SameNames
  <2> QED BY <2>3, <2>4
<1>11. \A c \in ObjectBlock : Kept(t, c)
  <2> SUFFICES ASSUME NEW c \in ObjectBlock PROVE Kept(t, c)
    OBVIOUS
  <2>1. Kept(s, c) /\ c \in Place
    BY <1>1 DEF ObjectInv
  <2>2. CASE c = b
    BY <1>1, <1>2, <1>3, <1>4, <1>6, <2>1, <2>2 DEF Kept, SameNames
  <2>3. CASE c # b /\ c = p
    <3>1. s.home[c] = h /\ s.content[c] = "item"
      BY <2>1, <2>3 DEF HolderOf, Kept
    <3> QED BY <1>4, <1>6, <2>1, <2>3, <3>1 DEF Kept, SameNames
  <2>4. CASE c # b /\ c # p
    BY <1>6, <2>1, <2>4 DEF Kept, SameNames
  <2> QED BY <2>2, <2>3, <2>4
<1>12. ChainsWell(t)
  <2>0. \A q \in Place : q # b => HolderOf(t, q) = HolderOf(s, q)
    BY <1>6 DEF HolderOf, SameNames
  <2>1. ASSUME NEW q \in Place, t.chain[q] # None
        PROVE  /\ t.content[t.chain[q]] = "payload"
               /\ HolderOf(t, q) # None /\ t.home[t.chain[q]] = HolderOf(t, q)
    <3>1. CASE q = p
      BY <1>1, <1>2, <1>6, <2>0, <3>1
    <3>2. CASE q # p
      <4>1. PICK c \in ObjectBlock : c = s.chain[q] /\ t.chain[q] = c
        BY <1>1, <2>1, <3>2 DEF Memory
      <4>2. s.content[c] = "payload" /\ HolderOf(s, q) # None /\ s.home[c] = HolderOf(s, q)
        BY <2>1, <4>1 DEF ObjectInv, ChainsWell
      <4>3. c # b /\ q # b
        BY <1>2, <2>1, <4>1, <4>2
      <4>4. t.content[c] = "payload" /\ t.home[c] = s.home[c]
        BY <1>1, <1>6, <4>2, <4>3
      <4> QED BY <2>0, <4>1, <4>2, <4>3, <4>4
    <3> QED BY <3>1, <3>2
  <2>2. ASSUME NEW q \in Place PROVE s.chain[q] # b
    <3> SUFFICES ASSUME s.chain[q] = b PROVE FALSE
      OBVIOUS
    <3>1. s.content[b] = "payload"
      BY <1>1 DEF ObjectInv, ChainsWell
    <3> QED BY <1>2, <3>1
  <2>3. \A q, r \in Place : t.chain[q] = t.chain[r] => q = r \/ t.chain[q] = None
    BY <2>2 DEF ObjectInv, ChainsWell
  <2>4. ASSUME NEW c \in ObjectBlock, t.content[c] = "payload" PROVE \E q \in Place : t.chain[q] = c
    <3>1. CASE c = b
      BY <3>1
    <3>2. CASE c # b
      <4>1. s.content[c] = "payload"
        BY <1>1, <1>6, <2>4, <3>2
      <4>2. PICK q \in Place : s.chain[q] = c
        BY <4>1 DEF ObjectInv, ChainsWell
      <4>3. c # None
        BY ObjectAssumption
      <4> QED BY <4>2, <4>3
    <3> QED BY <3>1, <3>2
  <2> QED BY <2>1, <2>3, <2>4 DEF ChainsWell
<1> QED BY <1>9, <1>10, <1>11, <1>12 DEF ObjectInv

\* An object's seat, written as one step: its array's own payload is gone.
Reseat(s, o, a, h, c) ==
    [s EXCEPT !.heap[o] = h, !.at[o] = a, !.content[o] = c, !.chain[o] = None]

\* What a change of one object's seat leaves alone.
OnlySeat(s, t, o) ==
    /\ t.live = s.live /\ t.chain = s.chain /\ t.home = s.home /\ t.refs = s.refs
    /\ t.owner = s.owner
    /\ \A p \in Place \ {o} : t.content[p] = s.content[p]
    /\ \A p \in Object \ {o} : t.at[p] = s.at[p] /\ t.heap[p] = s.heap[p]

LEMMA Reseated ==
  ASSUME NEW s \in Memory, NEW o \in Object, s.chain[o] = None,
         NEW a \in Place \cup {None}, NEW h \in Heap \cup {None},
         NEW c \in {"free", "item", "value", "payload"}
  PROVE  /\ Reseat(s, o, a, h, c) \in Memory /\ OnlySeat(s, Reseat(s, o, a, h, c), o)
         /\ Reseat(s, o, a, h, c).at[o] = a /\ Reseat(s, o, a, h, c).heap[o] = h
         /\ Reseat(s, o, a, h, c).content[o] = c
<1> DEFINE t == Reseat(s, o, a, h, c)
<1>0. AsRecord(s)
  BY Recorded
<1>8. t = [s EXCEPT !.heap = [s.heap EXCEPT ![o] = h], !.at = [s.at EXCEPT ![o] = a],
                    !.content = [s.content EXCEPT ![o] = c], !.chain = [s.chain EXCEPT ![o] = None]]
  BY <1>0 DEF Reseat, AsRecord
<1>1. /\ t.live = s.live /\ t.owner = s.owner /\ t.home = s.home /\ t.refs = s.refs
      /\ t.at = [s.at EXCEPT ![o] = a] /\ t.heap = [s.heap EXCEPT ![o] = h]
      /\ t.content = [s.content EXCEPT ![o] = c] /\ t.chain = [s.chain EXCEPT ![o] = None]
  BY <1>0, <1>8 DEF AsRecord
<1>7. AsRecord(t)
  BY <1>0, <1>8 DEF AsRecord
<1> HIDE DEF t
<1>2. TypedFields(s) /\ Object \subseteq Place
  BY Recorded DEF Place
<1>4. t.chain = s.chain
  BY ONLY <1>1, <1>2, o \in Object, s.chain[o] = None DEF TypedFields
<1>5. t \in Memory
  <2>1. TypedFields(t)
    BY <1>1, <1>2 DEF TypedFields
  <2> QED BY <1>7, <2>1, ObjectMemory
<1>6. OnlySeat(s, t, o) /\ t.at[o] = a /\ t.heap[o] = h /\ t.content[o] = c
  BY <1>1, <1>2, <1>4 DEF OnlySeat, TypedFields
<1> QED BY <1>5, <1>6 DEF t

\* The seat is taken, and the references in hand make up for it.
LEMMA Moved ==
  ASSUME NEW s, NEW x, NEW y, ObjectInv(s, x, y), NEW o \in Object, s.chain[o] = None,
         NEW t \in Memory, OnlySeat(s, t, o), Seated(t, o), NEW x2, NEW y2,
         \A h \in Heap : OneIf(o \in s.live /\ s.heap[o] = h) + OneIf(h = x) + OneIf(h = y)
                           = OneIf(o \in t.live /\ t.heap[o] = h) + OneIf(h = x2) + OneIf(h = y2)
  PROVE  ObjectInv(t, x2, y2)
<1>1. SeatChanged(s, t, o)
  BY DEF OnlySeat, SeatChanged
<1> QED BY <1>1, SeatTaken

\* A heap that an object holds is open.
LEMMA HeldOpen ==
  ASSUME NEW s, NEW x, NEW y, ObjectInv(s, x, y), NEW o \in Object, s.heap[o] # None
  PROVE  s.heap[o] \in Heap /\ s.refs[s.heap[o]] > 0
<1>1. PICK h \in Heap : h = s.heap[o]
  BY DEF ObjectInv, Memory
<1>2. o \in HoldersOf(s, h)
  BY <1>1, ObjectAssumption DEF ObjectInv, Seated, Vacant, HoldersOf
<1>3. Cardinality(HoldersOf(s, h)) # 0 /\ Cardinality(HoldersOf(s, h)) \in Nat
  BY <1>2, Holders, FS_EmptySet DEF ObjectInv
<1>4. s.refs[h] = Cardinality(HoldersOf(s, h)) + OneIf(h = x) + OneIf(h = y)
  BY DEF ObjectInv, RefsCount
<1> QED BY <1>1, <1>3, <1>4 DEF OneIf

\* An object that is emptied gives its reference back; others keep all they had.
Undisturbed(s, t, o) ==
    /\ t.live = s.live
    /\ \A p \in Object \ {o} :
          /\ t.at[p] = s.at[p] /\ t.heap[p] = s.heap[p]
          /\ t.content[p] = s.content[p] /\ t.chain[p] = s.chain[p]
    /\ Spare(s) \subseteq Spare(t) /\ Unborn(s) \subseteq Unborn(t)

LEMMA NullifiedInv ==
  ASSUME NEW s, NEW x, ObjectInv(s, x, None), NEW o \in Object
  PROVE  /\ ObjectInv(Nullified(s, o), x, None) /\ Vacant(Nullified(s, o), o)
         /\ Undisturbed(s, Nullified(s, o), o)
<1> DEFINE u == ReleaseInlineChain(s, o)
           h == s.heap[o]
           e == Reseat(u, o, None, None, "free")
           k == Close(u, h)
           t == Close(e, h)
           n == Nullified(s, o)
<1>1. /\ ObjectInv(u, x, None) /\ Released(s, u, o) /\ s \in Memory /\ u \in Memory
      /\ h \in Heap \cup {None} /\ u.heap[o] = h /\ u.chain[o] = None
  <2>1. ObjectInv(u, x, None) /\ Released(s, u, o)
    BY ReleaseInv
  <2> QED BY <2>1 DEF ObjectInv, Released, SameNames, Memory
<1> HIDE DEF u, h
<1>2. /\ e \in Memory /\ OnlySeat(u, e, o) /\ e.at[o] = None /\ e.heap[o] = None
      /\ e.content[o] = "free"
  BY <1>1, Reseated
<1>a. /\ e.at = [u.at EXCEPT ![o] = None] /\ e.heap = [u.heap EXCEPT ![o] = None]
      /\ e.content = [u.content EXCEPT ![o] = "free"]
  BY <1>1 DEF Reseat, Memory
<1> HIDE DEF e
<1>3. Vacant(e, o) /\ Seated(e, o)
  BY <1>1, <1>2 DEF Vacant, Seated, OnlySeat
<1>4. ObjectInv(e, x, h)
  <2>1. o \in u.live \/ h = None
    BY <1>1 DEF ObjectInv, Seated, Vacant
  <2>2. \A g \in Heap : OneIf(o \in u.live /\ u.heap[o] = g) + OneIf(g = x) + OneIf(g = None)
                         = OneIf(o \in e.live /\ e.heap[o] = g) + OneIf(g = x) + OneIf(g = h)
    <3> SUFFICES ASSUME NEW g \in Heap
                 PROVE  OneIf(o \in u.live /\ u.heap[o] = g) + OneIf(g = x) + OneIf(g = None)
                         = OneIf(o \in e.live /\ e.heap[o] = g) + OneIf(g = x) + OneIf(g = h)
      OBVIOUS
    <3>1. g # None
      BY ObjectAssumption
    <3> QED BY <1>1, <1>2, <2>1, <3>1 DEF OneIf
  <2> QED BY <1>1, <1>2, <1>3, <2>2, Moved
<1>5. ObjectInv(t, x, None)
  <2>1. ObjectInv(e, h, x)
    BY <1>4, CreditsSwap
  <2>2. ObjectInv(t, None, x)
    BY <1>1, <2>1, CloseInv
  <2> QED BY <2>2, CreditsSwap
<1>6. Closed(u, k, h) /\ Closed(e, t, h)
  BY <1>1, <1>2, CloseFields
<1>7. n = ObjectEmptied(k, o)
  BY DEF Nullified, u, h
<1>b. GoneWith(e, h) = GoneWith(u, h) /\ GoneWith(u, h) \cap Object = {}
  BY <1>2, ObjectAssumption DEF GoneWith, OnlySeat
<1> HIDE DEF k, t, n
<1>8. n = t
  <2>1. t \in Memory
    BY <1>5 DEF ObjectInv
  <2>2. /\ n.live = k.live /\ n.owner = k.owner /\ n.home = k.home /\ n.refs = k.refs
        /\ n.at = [k.at EXCEPT ![o] = None] /\ n.heap = [k.heap EXCEPT ![o] = None]
        /\ n.content = [k.content EXCEPT ![o] = "free"] /\ n.chain = [k.chain EXCEPT ![o] = None]
        /\ n = [live |-> n.live, at |-> n.at, heap |-> n.heap, owner |-> n.owner,
                content |-> n.content, chain |-> n.chain, home |-> n.home, refs |-> n.refs]
    <3>1. AsRecord(k)
      BY <1>6 DEF Closed
    <3> QED BY <1>7, <3>1 DEF ObjectEmptied, AsRecord
  <2>3. AsRecord(t) /\ t.live = n.live /\ t.owner = n.owner /\ t.home = n.home /\ t.refs = n.refs
    BY <1>2, <1>6, <1>b, <2>2 DEF Closed, OnlySeat
  <2>4. t.at = n.at /\ t.heap = n.heap
    BY <1>6, <1>a, <2>2 DEF Closed
  <2>7. PICK G : G = GoneWith(u, h) /\ o \notin G
    BY <1>b
  <2>8. u.content \in [Place -> {"free", "item", "value", "payload"}] /\ o \in Place
    BY <1>1 DEF Memory, Place
  <2>5. t.content = n.content
    <3>1. /\ k.content = [p \in Place |-> IF p \in G THEN "free" ELSE u.content[p]]
          /\ t.content = [p \in Place |-> IF p \in G THEN "free" ELSE e.content[p]]
      BY <1>6, <1>b, <2>7 DEF Closed
    <3>2. n.content = [p \in Place |-> IF p = o THEN "free" ELSE k.content[p]]
      BY <2>2, <2>8, <3>1
    <3>3. \A p \in Place : t.content[p] = n.content[p]
      BY <1>a, <2>7, <2>8, <3>1, <3>2
    <3> QED BY <3>1, <3>2, <3>3
  <2>6. t.chain = n.chain
    <3>1. /\ k.chain = [p \in Place |-> IF p \in G THEN None ELSE u.chain[p]]
          /\ t.chain = [p \in Place |-> IF p \in G THEN None ELSE e.chain[p]]
      BY <1>6, <1>b, <2>7 DEF Closed
    <3>2. n.chain = [p \in Place |-> IF p = o THEN None ELSE k.chain[p]]
      BY <2>2, <2>8, <3>1
    <3>3. \A p \in Place : t.chain[p] = n.chain[p]
      BY <1>1, <1>2, <2>7, <2>8, <3>1, <3>2 DEF OnlySeat
    <3> QED BY <3>1, <3>2, <3>3
  <2> QED BY ONLY <2>2, <2>3, <2>4, <2>5, <2>6 DEF AsRecord
<1>9. Undisturbed(s, t, o)
  <2>1. \A p \in Object \ {o} : /\ t.at[p] = s.at[p] /\ t.heap[p] = s.heap[p]
                               /\ t.content[p] = s.content[p] /\ t.chain[p] = s.chain[p]
    <3> SUFFICES ASSUME NEW p \in Object \ {o}
                 PROVE  /\ t.at[p] = s.at[p] /\ t.heap[p] = s.heap[p]
                        /\ t.content[p] = s.content[p] /\ t.chain[p] = s.chain[p]
      OBVIOUS
    <3>1. p \in Place /\ p \notin GoneWith(e, h)
      BY <1>b DEF Place
    <3>2. t.content[p] = e.content[p] /\ t.chain[p] = e.chain[p] /\ t.at[p] = e.at[p] /\ t.heap[p] = e.heap[p]
      BY <1>6, <3>1 DEF Closed
    <3> QED BY <1>1, <1>2, <3>1, <3>2 DEF OnlySeat, Released, SameNames
  <2>2. Spare(s) \subseteq Spare(t)
    BY <1>1, <1>2, <1>6 DEF Spare, Closed, OnlySeat, Released
  <2>3. Unborn(s) \subseteq Unborn(t)
    <3> SUFFICES ASSUME NEW g \in Heap, s.refs[g] = 0 PROVE t.refs[g] = 0
      <4>1. \A g \in Heap : s.refs[g] = 0 => t.refs[g] = 0
        OBVIOUS
      <4> QED BY <4>1 DEF Unborn
    <3>1. g # h
      <4>1. s.heap[o] = h
        BY DEF h
      <4> QED BY <1>1, <4>1, HeldOpen, ObjectAssumption
    <3> QED BY <1>1, <1>2, <1>6, <3>1 DEF Closed, OnlySeat, Released, SameNames
  <2>4. t.live = s.live
    BY <1>1, <1>2, <1>6 DEF Closed, OnlySeat, Released, SameNames
  <2> QED BY <2>1, <2>2, <2>3, <2>4 DEF Undisturbed
<1>10. Vacant(t, o)
  <2>1. o \in Place
    BY DEF Place
  <2> QED BY <1>3, <1>6, <2>1 DEF Vacant, Closed
<1> QED BY <1>5, <1>8, <1>9, <1>10 DEF n

LEMMA SameRecord ==
  ASSUME NEW s, NEW t, AsRecord(s), AsRecord(t),
         s.live = t.live, s.at = t.at, s.heap = t.heap, s.owner = t.owner,
         s.content = t.content, s.chain = t.chain, s.home = t.home, s.refs = t.refs
  PROVE  s = t
BY DEF AsRecord

Referenced(s, t, h) ==
    /\ AsRecord(t) /\ t.live = s.live /\ t.at = s.at /\ t.heap = s.heap /\ t.owner = s.owner
    /\ t.content = s.content /\ t.chain = s.chain /\ t.home = s.home
    /\ t.refs = [k \in Heap |-> s.refs[k] + OneIf(k = h)]

LEMMA AddRefFields ==
  ASSUME NEW s, AsRecord(s), s.refs \in [Heap -> Nat], NEW h \in Heap \cup {None}
  PROVE  Referenced(s, AddRef(s, h), h)
<1>0. AsRecord(s) /\ s.refs \in [Heap -> Nat]
  OBVIOUS
<1>1. CASE h = None
  <2>1. AddRef(s, h) = s /\ \A k \in Heap : k # h
    BY <1>1, ObjectAssumption DEF AddRef
  <2>2. s.refs = [k \in Heap |-> s.refs[k] + OneIf(k = h)]
    BY <1>0, <2>1 DEF OneIf
  <2> QED BY <1>0, <2>1, <2>2 DEF Referenced
<1>2. CASE h # None
  <2> DEFINE t == AddRef(s, h)
  <2>1. t = [s EXCEPT !.refs = [s.refs EXCEPT ![h] = @ + 1]]
    BY <1>0, <1>2 DEF AddRef, AsRecord
  <2> HIDE DEF t
  <2>2. /\ AsRecord(t) /\ t.live = s.live /\ t.at = s.at /\ t.heap = s.heap /\ t.owner = s.owner
        /\ t.content = s.content /\ t.chain = s.chain /\ t.home = s.home
        /\ t.refs = [s.refs EXCEPT ![h] = @ + 1]
    BY <1>0, <2>1 DEF AsRecord
  <2>3. t.refs = [k \in Heap |-> s.refs[k] + OneIf(k = h)]
    BY <1>0, <2>2 DEF OneIf
  <2> QED BY <2>2, <2>3 DEF t, Referenced
<1> QED BY <1>1, <1>2

\* A second name for an item on a heap.
LEMMA NamedInv ==
  ASSUME NEW s, ObjectInv(s, None, None), NEW o \in s.live, NEW h \in Heap,
         NEW b \in ObjectBlock, s.home[b] = h, s.content[b] = "item"
  PROVE  ObjectInv(Named(s, o, h, b), None, None)
<1> DEFINE u == ReleaseInlineChain(s, o)
           c == AddRef(u, h)
           d == Reseat(c, o, b, h, "free")
           k == s.heap[o]
<1>0. o \in Object /\ k \in Heap \cup {None} /\ s \in Memory /\ h # None
  BY ObjectAssumption DEF ObjectInv, Memory
<1>1. ObjectInv(u, None, None) /\ Released(s, u, o)
  BY <1>0, ReleaseInv
<1> HIDE DEF u
<1>2. ObjectInv(c, h, None)
  BY <1>1, AddRefInv
<1>3. u \in Memory /\ c \in Memory
  BY <1>1, <1>2 DEF ObjectInv
<1>4. /\ c.live = s.live /\ c.at = s.at /\ c.heap = s.heap /\ c.chain = u.chain
      /\ c.home = u.home /\ c.content = u.content /\ c.chain[o] = None
  <2>1. /\ c.live = u.live /\ c.at = u.at /\ c.heap = u.heap /\ c.chain = u.chain
        /\ c.home = u.home /\ c.content = u.content
    <3>1. AsRecord(u) /\ u.refs \in [Heap -> Nat]
      BY <1>3, Recorded DEF Memory
    <3>2. Referenced(u, c, h)
      BY <3>1, AddRefFields
    <3> QED BY <3>2 DEF Referenced
  <2> HIDE DEF c
  <2> QED BY <1>1, <2>1 DEF Released, SameNames
<1> HIDE DEF c
<1>5. b \in Place \cup {None}
  BY DEF Place
<1>6. /\ d \in Memory /\ OnlySeat(c, d, o) /\ d.at[o] = b /\ d.heap[o] = h /\ d.content[o] = "free"
  BY <1>0, <1>3, <1>4, <1>5, Reseated
<1>7. Named(s, o, h, b) = Close(d, k)
  BY DEF Named, Reseat, c, u, d, k
<1> HIDE DEF d, k
<1>8. Seated(d, o)
  <2>1. b # o /\ b \in Place
    BY <1>0, ObjectAssumption DEF Place
  <2> QED BY <1>0, <1>1, <1>4, <1>6, <2>1 DEF Seated, OnHeap, OnlySeat, Released
<1>9. ObjectInv(d, k, None)
  <2>1. \A g \in Heap : OneIf(o \in c.live /\ c.heap[o] = g) + OneIf(g = h) + OneIf(g = None)
                         = OneIf(o \in d.live /\ d.heap[o] = g) + OneIf(g = k) + OneIf(g = None)
    <3> SUFFICES ASSUME NEW g \in Heap
                 PROVE  OneIf(o \in c.live /\ c.heap[o] = g) + OneIf(g = h) + OneIf(g = None)
                         = OneIf(o \in d.live /\ d.heap[o] = g) + OneIf(g = k) + OneIf(g = None)
      OBVIOUS
    <3>1. c.heap[o] = k /\ o \in c.live /\ o \in d.live /\ d.heap[o] = h
      BY <1>4, <1>6 DEF k, OnlySeat
    <3> QED BY <3>1 DEF OneIf
  <2> QED BY <1>0, <1>2, <1>4, <1>6, <1>8, <2>1, Moved
<1> QED BY <1>0, <1>7, <1>9, CloseInv

LEMMA AttachedInv ==
  ASSUME NEW s, ObjectInv(s, None, None), NEW o \in s.live, NEW h \in Heap,
         NEW b \in ObjectBlock, s.home[b] = h, s.content[b] = "item"
  PROVE  ObjectInv(Attached(s, o, h, b), None, None)
<1>1. CASE s.heap[o] # h
  BY <1>1, NamedInv DEF Attached
<1>2. CASE s.heap[o] = h
  <2> DEFINE u == ReleaseInlineChain(s, o)
             d == Reseat(u, o, b, h, "free")
             t == Attached(s, o, h, b)
  <2>0. o \in Object /\ s \in Memory /\ h # None /\ b \in Place \cup {None}
    BY ObjectAssumption DEF ObjectInv, Memory, Place
  <2>1. ObjectInv(u, None, None) /\ Released(s, u, o)
    BY <2>0, ReleaseInv
  <2>2. t = [u EXCEPT !.at[o] = b, !.content[o] = "free", !.chain[o] = None]
    BY <1>2 DEF Attached
  <2> HIDE DEF u, t
  <2>3. u \in Memory /\ AsRecord(u) /\ u.heap = s.heap /\ u.live = s.live /\ u.chain[o] = None
    BY <2>1, Recorded DEF ObjectInv, Released, SameNames
  <2>4. d \in Memory /\ OnlySeat(u, d, o) /\ d.at[o] = b /\ d.heap[o] = h /\ d.content[o] = "free"
    BY <2>0, <2>3, Reseated
  <2>5. t = d
    <3>1. [u.heap EXCEPT ![o] = h] = u.heap
      BY <1>2, <2>0, <2>3 DEF Memory
    <3>2. t = [u EXCEPT !.at = [u.at EXCEPT ![o] = b], !.content = [u.content EXCEPT ![o] = "free"],
                        !.chain = [u.chain EXCEPT ![o] = None]]
      BY <2>2, <2>3 DEF AsRecord
    <3>3. d = [u EXCEPT !.heap = [u.heap EXCEPT ![o] = h], !.at = [u.at EXCEPT ![o] = b],
                        !.content = [u.content EXCEPT ![o] = "free"],
                        !.chain = [u.chain EXCEPT ![o] = None]]
      BY <2>3 DEF AsRecord, Reseat
    <3> HIDE DEF d
    <3> QED BY <2>3, <3>1, <3>2, <3>3 DEF AsRecord
  <2> HIDE DEF d
  <2>6. Seated(d, o)
    <3>1. b # o /\ b \in Place
      BY <2>0, ObjectAssumption DEF Place
    <3> QED BY <2>0, <2>1, <2>3, <2>4, <3>1 DEF Seated, OnHeap, OnlySeat, Released
  <2>7. ObjectInv(d, None, None)
    <3>1. /\ o \in u.live /\ o \in d.live /\ u.heap[o] = h
          /\ \A g \in Heap : OneIf(o \in u.live /\ u.heap[o] = g) = OneIf(o \in d.live /\ d.heap[o] = g)
      BY <1>2, <2>3, <2>4 DEF OnlySeat
    <3>2. \A g \in Heap : OneIf(o \in u.live /\ u.heap[o] = g) + OneIf(g = None) + OneIf(g = None)
                         = OneIf(o \in d.live /\ d.heap[o] = g) + OneIf(g = None) + OneIf(g = None)
      BY <3>1
    <3> QED BY <2>0, <2>1, <2>3, <2>4, <2>6, <3>2, Moved
  <2> QED BY <2>5, <2>7 DEF t
<1> QED BY <1>1, <1>2

\* An object comes to life empty: a dead place is vacant.
Delivered(s, t, o) ==
    /\ AsRecord(t) /\ t.live = s.live \cup {o} /\ t.owner = [s.owner EXCEPT ![o] = None]
    /\ t.at = s.at /\ t.heap = s.heap /\ t.content = s.content
    /\ t.chain = s.chain /\ t.home = s.home /\ t.refs = s.refs

LEMMA BornFields == ASSUME NEW s, AsRecord(s), NEW o PROVE Delivered(s, Born(s, o), o)
<1> DEFINE t == Born(s, o)
<1>1. t = [s EXCEPT !.live = @ \cup {o}, !.owner = [s.owner EXCEPT ![o] = None]]
  BY DEF Born, AsRecord
<1> HIDE DEF t
<1> QED BY <1>1 DEF AsRecord, Delivered, t

LEMMA BornInv ==
  ASSUME NEW s, NEW x, NEW y, ObjectInv(s, x, y), NEW o \in Object \ s.live
  PROVE  ObjectInv(Born(s, o), x, y) /\ Vacant(s, o) /\ Vacant(Born(s, o), o)
<1> DEFINE t == Born(s, o)
<1>1. s \in Memory /\ AsRecord(s) /\ Vacant(s, o)
  BY Recorded DEF ObjectInv, Seated
<1>3. Delivered(s, t, o)
  BY <1>1, BornFields
<1> HIDE DEF t
<1>4. t \in Memory
  <2>1. TypedFields(s)
    BY <1>1, Recorded
  <2>2. t.live \in SUBSET Object /\ t.owner \in [Object -> Object \cup {None}]
    BY <1>3, <2>1 DEF Delivered, TypedFields
  <2> QED BY ONLY <1>3, <2>1, <2>2, ObjectMemory DEF TypedFields, Delivered
<1>5. Vacant(t, o)
  BY <1>1, <1>3 DEF Vacant, Delivered
<1>6. ObjectInv(t, x, y)
  <2>1. \A h \in Heap : OneIf(o \in s.live /\ s.heap[o] = h) = OneIf(o \in t.live /\ t.heap[o] = h)
    BY <1>1, <1>5, ObjectAssumption DEF OneIf, Vacant
  <2>2. \A h \in Heap : OneIf(o \in s.live /\ s.heap[o] = h) + OneIf(h = x) + OneIf(h = y)
                         = OneIf(o \in t.live /\ t.heap[o] = h) + OneIf(h = x) + OneIf(h = y)
    BY <2>1 DEF TypedFields
  <2>3. Seated(t, o) /\ s.chain[o] = None
    BY <1>1, <1>5 DEF Seated, Vacant
  <2>4. SeatChanged(s, t, o)
    BY <1>3, <1>4 DEF Delivered, SeatChanged
  <2> QED BY <2>2, <2>3, <2>4, SeatTaken
<1> QED BY <1>1, <1>5, <1>6 DEF t

\* What the bounds leave a call: a heap nobody has made yet, and two blocks.
Room(s) == Unborn(s) # {} /\ \E b, c \in Spare(s) : b # c

\* The item is on a heap of its own now, and no longer in the array.
Rehomed(s, t, o) ==
    /\ ObjectInv(t, None, None) /\ t.live = s.live /\ OnHeap(t, o)
    /\ t.chain[t.at[o]] = None
    /\ \A p \in Object \ {o} :
          /\ t.at[p] = s.at[p] /\ t.heap[p] = s.heap[p]
          /\ t.content[p] = s.content[p] /\ t.chain[p] = s.chain[p]
    /\ Spare(t) # {}

LEMMA ItemRehomed ==
  ASSUME NEW s, ObjectInv(s, None, None), NEW o \in s.live, OwnItem(s, o), Room(s)
  PROVE  Rehomed(s, RehomeInlineItem(s, o), o)
<1>0. o \in Object /\ s \in Memory /\ AsRecord(s) /\ o \in Place
  BY Recorded DEF ObjectInv, Memory, Place
<1> DEFINE h == CHOOSE g \in Unborn(s) : TRUE
           b == ObjectFresh(s)
           a == AddRef(s, h)
           i == ObjectAlloc(a, h, b, "item")
           t == Reseat(i, o, b, h, "free")
           c == CreateSYS(s, o)
           r == RehomeInlineItem(s, o)
<1>1. h \in Heap /\ s.refs[h] = 0 /\ h # None
  <2>1. h \in Unborn(s)
    BY DEF Room
  <2> HIDE DEF h
  <2> QED BY <2>1, ObjectAssumption DEF Unborn
<1>2. b \in Spare(s) /\ b \in ObjectBlock /\ b # o /\ b \in Place
  <2>1. b \in Spare(s)
    BY FreshIsSpare DEF Room
  <2> HIDE DEF b
  <2> QED BY <1>0, <2>1, ObjectAssumption DEF Spare, Place
<1>3. c = [s EXCEPT !.heap[o] = h, !.refs[h] = 1]
  BY DEF CreateSYS
<1>4. r = [ObjectAlloc(c, c.heap[o], b, "item") EXCEPT !.at[o] = b, !.content[o] = "free"]
  <2>1. s.at[o] = o /\ s.content[o] = "item" /\ s.heap[o] = None
    BY DEF OwnItem
  <2> QED BY <2>1 DEF RehomeInlineItem, Inline
<1>5. s.chain[b] = None /\ s.chain[o] = None /\ s.heap[o] = None
  BY <1>2 DEF ObjectInv, Kept, OwnItem, Spare
<1> HIDE DEF h, b, a, i, t, c, r
<1>6. ObjectInv(a, h, None) /\ Referenced(s, a, h) /\ a \in Memory
  <2>1. ObjectInv(a, h, None)
    BY <1>1, AddRefInv DEF a
  <2>2. Referenced(s, a, h)
    <3>1. s.refs \in [Heap -> Nat]
      BY <1>0 DEF Memory
    <3> QED BY <1>0, <1>1, <3>1, AddRefFields DEF a
  <2> QED BY <2>1, <2>2 DEF ObjectInv
<1>7. b \in Spare(a) /\ a.refs[h] > 0
  BY <1>1, <1>2, <1>6 DEF Referenced, Spare, OneIf
<1>8. /\ ObjectInv(i, h, None) /\ SameNames(a, i) /\ i.chain = a.chain
      /\ i.home = [a.home EXCEPT ![b] = h] /\ i.content = [a.content EXCEPT ![b] = "item"]
  BY <1>1, <1>6, <1>7, ItemMade DEF i
<1>9. i \in Memory /\ i.chain[o] = None
  BY <1>5, <1>6, <1>8 DEF ObjectInv, Referenced
<1>10. /\ t \in Memory /\ OnlySeat(i, t, o) /\ t.at[o] = b /\ t.heap[o] = h /\ t.content[o] = "free"
  <2>1. b \in Place \cup {None} /\ h \in Heap \cup {None}
    BY <1>1, <1>2
  <2>2. PICK u : u = Reseat(i, o, b, h, "free")
    OBVIOUS
  <2>3. /\ u \in Memory /\ OnlySeat(i, u, o) /\ u.at[o] = b /\ u.heap[o] = h /\ u.content[o] = "free"
    BY ONLY <1>0, <1>9, <2>1, <2>2, Reseated
  <2> QED BY <2>2, <2>3 DEF t
<1>11. OnHeap(t, o) /\ t.chain[b] = None /\ t.live = s.live
  <2>1. t.home[b] = h /\ t.content[b] = "item"
    BY <1>2, <1>6, <1>8, <1>9, <1>10 DEF OnlySeat, Memory
  <2>2. t.chain = s.chain /\ t.live = s.live
    BY <1>6, <1>8, <1>10 DEF OnlySeat, Referenced, SameNames
  <2> QED BY <1>1, <1>2, <1>5, <1>10, <2>1, <2>2 DEF OnHeap
<1>12. ObjectInv(t, None, None)
  <2>1. Seated(t, o)
    BY <1>11 DEF Seated
  <2>2. i.heap[o] = None /\ o \in t.live
    BY <1>5, <1>6, <1>8, <1>11 DEF Referenced, SameNames
  <2>3. \A g \in Heap : OneIf(o \in i.live /\ i.heap[o] = g) + OneIf(g = h) + OneIf(g = None)
                         = OneIf(o \in t.live /\ t.heap[o] = g) + OneIf(g = None) + OneIf(g = None)
    BY <1>10, <2>2, ObjectAssumption DEF OneIf
  <2> QED BY <1>0, <1>8, <1>9, <1>10, <2>1, <2>3, Moved
<1>13. r = t
  <2>1. /\ AsRecord(c) /\ c.live = s.live /\ c.at = s.at /\ c.owner = s.owner
        /\ c.content = s.content /\ c.chain = s.chain /\ c.home = s.home
        /\ c.heap = [s.heap EXCEPT ![o] = h] /\ c.refs = [s.refs EXCEPT ![h] = 1]
    <3>1. c = [s EXCEPT !.heap = [s.heap EXCEPT ![o] = h], !.refs = [s.refs EXCEPT ![h] = 1]]
      BY <1>0, <1>3 DEF AsRecord
    <3> QED BY <1>0, <3>1 DEF AsRecord
  <2>2. c.heap[o] = h
    BY <1>0, <2>1 DEF Memory
  <2> DEFINE m == ObjectAlloc(c, h, b, "item")
  <2>3. Allocated(c, m, h, b, "item")
    BY <2>1, AllocFields
  <2>4. r = [m EXCEPT !.at[o] = b, !.content[o] = "free"]
    BY <1>4, <2>2
  <2> HIDE DEF m
  <2>5. /\ AsRecord(r) /\ r.live = m.live /\ r.owner = m.owner /\ r.heap = m.heap
        /\ r.home = m.home /\ r.refs = m.refs /\ r.chain = m.chain
        /\ r.at = [m.at EXCEPT ![o] = b] /\ r.content = [m.content EXCEPT ![o] = "free"]
    <3>1. AsRecord(m)
      BY <2>3 DEF Allocated
    <3>2. r = [m EXCEPT !.at = [m.at EXCEPT ![o] = b], !.content = [m.content EXCEPT ![o] = "free"]]
      BY <2>4, <3>1 DEF AsRecord
    <3> QED BY <3>1, <3>2 DEF AsRecord
  <2>6. /\ t.at = [i.at EXCEPT ![o] = b] /\ t.heap = [i.heap EXCEPT ![o] = h]
        /\ t.content = [i.content EXCEPT ![o] = "free"]
    <3>1. AsRecord(i)
      BY <1>9, Recorded
    <3> QED BY <3>1 DEF t, Reseat, AsRecord
  <2>7. AsRecord(t)
    BY <1>10, Recorded
  <2>8. /\ r.live = t.live /\ r.owner = t.owner /\ r.heap = t.heap /\ r.home = t.home
        /\ r.at = t.at /\ r.content = t.content
    BY <1>6, <1>8, <1>10, <2>1, <2>3, <2>5, <2>6 DEF Allocated, Referenced, SameNames, OnlySeat
  <2>9. r.chain = t.chain
    <3>1. r.chain = [s.chain EXCEPT ![b] = None] /\ t.chain = s.chain
      BY <1>6, <1>8, <1>10, <2>1, <2>3, <2>5 DEF Allocated, Referenced, SameNames, OnlySeat
    <3>2. s.chain \in [Place -> ObjectBlock \cup {None}]
      BY <1>0 DEF Memory
    <3> QED BY <1>2, <1>5, <3>1, <3>2
  <2>10. r.refs = t.refs
    <3>1. r.refs = [s.refs EXCEPT ![h] = 1] /\ t.refs = [k \in Heap |-> s.refs[k] + OneIf(k = h)]
      BY <1>6, <1>8, <1>10, <2>1, <2>3, <2>5 DEF Allocated, Referenced, SameNames, OnlySeat
    <3>2. s.refs \in [Heap -> Nat]
      BY <1>0 DEF Memory
    <3> QED BY <1>1, <3>1, <3>2 DEF OneIf
  <2> QED BY <2>5, <2>7, <2>8, <2>9, <2>10, SameRecord
<1>14. Spare(t) # {}
  <2>1. PICK d \in Spare(s) : d # b
    BY DEF Room
  <2>2. t.home[d] = None
    BY <1>0, <1>6, <1>8, <1>10, <2>1 DEF OnlySeat, SameNames, Referenced, Spare, Memory
  <2> QED BY <2>1, <2>2 DEF Spare
<1>15. \A p \in Object \ {o} :
          /\ t.at[p] = s.at[p] /\ t.heap[p] = s.heap[p]
          /\ t.content[p] = s.content[p] /\ t.chain[p] = s.chain[p]
  <2> SUFFICES ASSUME NEW p \in Object \ {o}
               PROVE  /\ t.at[p] = s.at[p] /\ t.heap[p] = s.heap[p]
                      /\ t.content[p] = s.content[p] /\ t.chain[p] = s.chain[p]
    OBVIOUS
  <2>1. p \in Place \ {o} /\ p # b
    BY <1>2, ObjectAssumption DEF Place
  <2>2. t.content[p] = a.content[p] /\ t.chain[p] = a.chain[p]
    BY <1>6, <1>8, <1>10, <2>1 DEF OnlySeat, Memory
  <2>3. t.at[p] = a.at[p] /\ t.heap[p] = a.heap[p]
    BY <1>8, <1>10 DEF OnlySeat, SameNames
  <2> QED BY <1>6, <2>2, <2>3 DEF Referenced
<1> QED BY <1>10, <1>11, <1>12, <1>13, <1>14, <1>15 DEF r, Rehomed

\* What a source is before it is shared: a value in its array, or on a heap.
Shareable(s, t, o) ==
    /\ ObjectInv(t, None, None) /\ t.live = s.live /\ Spare(t) # {}
    /\ OwnValue(t, o) \/ OnHeap(t, o)
    /\ \A p \in Object \ {o} :
          /\ t.at[p] = s.at[p] /\ t.heap[p] = s.heap[p]
          /\ t.content[p] = s.content[p] /\ t.chain[p] = s.chain[p]

LEMMA RehomeInv ==
  ASSUME NEW s, ObjectInv(s, None, None), NEW o \in s.live, ~ Void(s, o), Room(s)
  PROVE  Shareable(s, RehomeInlineItem(s, o), o)
<1>1. OwnValue(s, o) \/ OwnItem(s, o) \/ OnHeap(s, o)
  BY DEF ObjectInv, Memory, Seated, Vacant, Void
<1>2. CASE OwnItem(s, o)
  BY <1>2, ItemRehomed DEF Rehomed, Shareable
<1>3. CASE ~ OwnItem(s, o)
  <2>1. RehomeInlineItem(s, o) = s
    <3>1. ~ Inline(s, o) \/ s.content[o] # "item"
      <4>1. o \in Object
        BY DEF ObjectInv, Memory
      <4> QED BY <1>1, <1>3, <4>1, ObjectAssumption DEF Inline, OwnValue, OnHeap
    <3> QED BY <3>1 DEF RehomeInlineItem
  <2> QED BY <1>1, <1>3, <2>1 DEF Shareable, Room
<1> QED BY <1>2, <1>3

\* A payload allocated and chained in one step.
LEMMA PayloadAlloc ==
  ASSUME NEW s, NEW x, NEW y, ObjectInv(s, x, y), NEW b, NEW p, PayloadWanted(s, b, p),
         NEW h, h = HolderOf(s, p)
  PROVE  ObjectInv([ObjectAlloc(s, h, b, "payload") EXCEPT !.chain[p] = b], x, y)
<1> DEFINE m == ObjectAlloc(s, h, b, "payload")
           t == [m EXCEPT !.chain[p] = b]
<1>   b \in Spare(s) /\ p \in Place /\ s.chain[p] = None /\ h # None
  BY DEF PayloadWanted
<1>1. s \in Memory /\ AsRecord(s) /\ b \in ObjectBlock /\ b \in Place /\ h \in Heap
  <2>1. s \in Memory /\ b \in ObjectBlock /\ b \in Place
    BY DEF ObjectInv, Spare, Place
  <2>2. HolderOf(s, p) \in Heap \cup {None}
    BY <2>1 DEF HolderOf, Place, Memory
  <2> QED BY <2>1, <2>2, Recorded
<1>2. Allocated(s, m, h, b, "payload")
  BY <1>1, AllocFields
<1> HIDE DEF m
<1>3. t = [m EXCEPT !.chain = [m.chain EXCEPT ![p] = b]]
  BY <1>2 DEF Allocated, AsRecord
<1> HIDE DEF t
<1>4. /\ AsRecord(t) /\ SameNames(s, t) /\ t.home = [s.home EXCEPT ![b] = h]
      /\ t.content = [s.content EXCEPT ![b] = "payload"]
      /\ t.chain = [[s.chain EXCEPT ![b] = None] EXCEPT ![p] = b]
  BY <1>2, <1>3 DEF Allocated, AsRecord, SameNames
<1>5. t \in Memory
  <2>1. TypedFields(s)
    BY <1>1, Recorded
  <2>2. /\ t.content \in [Place -> {"free", "item", "value", "payload"}]
        /\ t.chain \in [Place -> ObjectBlock \cup {None}]
        /\ t.home \in [ObjectBlock -> Heap \cup {None}]
    BY <1>1, <1>4, <2>1 DEF TypedFields
  <2> QED BY ONLY <1>4, <2>1, <2>2, ObjectMemory DEF TypedFields, SameNames
<1>6. \A q \in Place : t.chain[q] = IF q = p THEN b ELSE s.chain[q]
  <2>1. s.chain[b] = None /\ s.chain \in [Place -> ObjectBlock \cup {None}]
    BY <1>1 DEF ObjectInv, Kept, Spare, Memory
  <2> QED BY <1>1, <1>4, <2>1
<1>7. ObjectInv(t, x, y)
  <2>1. PayloadAt(s, t, b, p)
    BY <1>4, <1>5, <1>6 DEF PayloadAt
  <2> QED BY <2>1, PayloadMade
<1> QED BY <1>7 DEF t, m

\* The copy of a value: the memcpy, then a payload of its own.
CopyMade(s, t, o, r) ==
    /\ AsRecord(t) /\ t.live = s.live /\ t.owner = s.owner /\ t.home = s.home /\ t.refs = s.refs
    /\ t.at = [s.at EXCEPT ![o] = o] /\ t.heap = [s.heap EXCEPT ![o] = s.heap[r]]
    /\ t.content = [s.content EXCEPT ![o] = s.content[r]]
    /\ t.chain = [s.chain EXCEPT ![o] = s.chain[r]]

LEMMA CopiedFields ==
  ASSUME NEW s, AsRecord(s), NEW o, NEW r PROVE CopyMade(s, ValueCopied(s, o, r), o, r)
<1> DEFINE t == ValueCopied(s, o, r)
<1>1. t = [s EXCEPT !.heap = [s.heap EXCEPT ![o] = s.heap[r]], !.at = [s.at EXCEPT ![o] = o],
                    !.content = [s.content EXCEPT ![o] = s.content[r]],
                    !.chain = [s.chain EXCEPT ![o] = s.chain[r]]]
  BY DEF ValueCopied, AsRecord
<1> HIDE DEF t
<1> QED BY <1>1 DEF AsRecord, CopyMade, t

LEMMA ValueShared ==
  ASSUME NEW s, NEW h, ObjectInv(s, h, None), NEW o \in s.live, NEW r \in s.live, r # o,
         Vacant(s, o), OwnValue(s, r), s.heap[r] = h, Spare(s) # {}
  PROVE  ObjectInv(PrivatiseInlineChain(ValueCopied(s, o, r), o), None, None)
<1> DEFINE k == s.chain[r]
           w == Reseat(s, o, o, h, "value")
           v == ValueCopied(s, o, r)
           t == PrivatiseInlineChain(v, o)
<1>1. /\ s \in Memory /\ AsRecord(s) /\ o \in Object /\ r \in Object /\ o \in Place /\ r \in Place
      /\ h \in Heap \cup {None} /\ s.chain[o] = None /\ s.heap[o] = None /\ s.content[r] = "value"
  BY Recorded DEF ObjectInv, Memory, Place, Vacant, OwnValue
<1>2. /\ w \in Memory /\ OnlySeat(s, w, o) /\ w.at[o] = o /\ w.heap[o] = h
      /\ w.content[o] = "value"
  <2>1. o \in Place \cup {None}
    BY <1>1
  <2> QED BY <1>1, <2>1, Reseated
<1>3. ObjectInv(w, None, None)
  <2> HIDE DEF w
  <2>1. Seated(w, o)
    BY <1>1, <1>2 DEF Seated, OwnValue, OnlySeat
  <2>2. o \in w.live
    BY <1>2 DEF OnlySeat
  <2>3. \A g \in Heap : OneIf(o \in s.live /\ s.heap[o] = g) + OneIf(g = h) + OneIf(g = None)
                         = OneIf(o \in w.live /\ w.heap[o] = g) + OneIf(g = None) + OneIf(g = None)
    BY <1>1, <1>2, <2>2, ObjectAssumption DEF OneIf
  <2> QED BY <1>1, <1>2, <2>1, <2>3, Moved
<1>4. CASE k = None
  <2>1. v = w
    BY <1>1, <1>4 DEF ValueCopied, Reseat
  <2>2. w.chain[o] = None
    BY <1>1, <1>2 DEF OnlySeat
  <2>3. t = w
    BY <2>1, <2>2 DEF PrivatiseInlineChain
  <2> QED BY <1>3, <2>3
<1>5. CASE k # None
  <2>1. CopyMade(s, v, o, r)
    BY <1>1, CopiedFields
  <2>2. k \in ObjectBlock /\ s.content[k] = "payload" /\ s.home[k] = h /\ h # None /\ k # o
    <3>1. k \in ObjectBlock /\ s.content[k] = "payload"
          /\ HolderOf(s, r) # None /\ s.home[k] = HolderOf(s, r)
      BY <1>1, <1>5 DEF ObjectInv, ChainsWell, Memory
    <3>2. HolderOf(s, r) = h
      BY <1>1, ObjectAssumption DEF HolderOf
    <3> QED BY <1>1, <3>1, <3>2, ObjectAssumption
  <2> DEFINE b == ObjectFresh(v)
  <2>3. v.heap[o] = h /\ v.at[o] = o /\ v.chain[o] = k /\ v.home[k] = h /\ v.content[k] = "payload"
    BY <1>1, <2>1, <2>2 DEF CopyMade, Memory, Place
  <2>4. t = [ObjectAlloc(v, h, b, "payload") EXCEPT !.chain[o] = b]
    BY <1>5, <2>2, <2>3 DEF PrivatiseInlineChain, CopyHeapVBLock, Inline
  <2>5. b \in Spare(w) /\ b \in Spare(s)
    <3>1. Spare(v) = Spare(s) /\ Spare(w) = Spare(s)
      BY <1>2, <2>1 DEF Spare, CopyMade, OnlySeat
    <3> QED BY <3>1, FreshIsSpare
  <2> DEFINE m == [ObjectAlloc(w, h, b, "payload") EXCEPT !.chain[o] = b]
  <2>6. ObjectInv(m, None, None)
    <3>1. HolderOf(w, o) = h
      BY <1>1, <1>2, ObjectAssumption DEF HolderOf
    <3>2. w.chain[o] = None /\ OwnValue(w, o)
      BY <1>1, <1>2, <2>2 DEF OnlySeat, OwnValue
    <3> HIDE DEF w, b
    <3>3. PayloadWanted(w, b, o)
      BY <1>1, <1>2, <2>2, <2>5, <3>1, <3>2 DEF PayloadWanted
    <3> QED BY <1>3, <3>1, <3>3, PayloadAlloc
  <2>7. t = m
    <3> DEFINE f == ObjectAlloc(v, h, b, "payload")
               g == ObjectAlloc(w, h, b, "payload")
    <3>1. /\ w.at = [s.at EXCEPT ![o] = o] /\ w.heap = [s.heap EXCEPT ![o] = h]
          /\ w.content = [s.content EXCEPT ![o] = "value"]
      BY <1>1 DEF Reseat, AsRecord
    <3>2. Allocated(v, f, h, b, "payload") /\ Allocated(w, g, h, b, "payload")
      <4>1. AsRecord(w) /\ AsRecord(v)
        BY <1>2, <2>1, Recorded DEF CopyMade
      <4> HIDE DEF v, w, b
      <4> QED BY <4>1, AllocFields
    <3>3. v.live = w.live /\ v.at = w.at /\ v.heap = w.heap /\ v.owner = w.owner
          /\ v.content = w.content /\ v.home = w.home /\ v.refs = w.refs
      BY <1>1, <1>2, <2>1, <3>1 DEF CopyMade, OnlySeat
    <3>4. v.chain = [s.chain EXCEPT ![o] = k] /\ w.chain = s.chain
      BY <1>2, <2>1 DEF CopyMade, OnlySeat
    <3> HIDE DEF v, w, b, f, g
    <3>5. t = [f EXCEPT !.chain = [f.chain EXCEPT ![o] = b]]
      BY <2>4, <3>2 DEF f, Allocated, AsRecord
    <3>6. m = [g EXCEPT !.chain = [g.chain EXCEPT ![o] = b]]
      BY <3>2 DEF g, Allocated, AsRecord
    <3> HIDE DEF t, m
    <3>7. /\ AsRecord(t) /\ t.live = f.live /\ t.at = f.at /\ t.heap = f.heap
          /\ t.owner = f.owner /\ t.content = f.content /\ t.home = f.home /\ t.refs = f.refs
          /\ t.chain = [f.chain EXCEPT ![o] = b]
      BY <3>2, <3>5 DEF Allocated, AsRecord
    <3>8. /\ AsRecord(m) /\ m.live = g.live /\ m.at = g.at /\ m.heap = g.heap
          /\ m.owner = g.owner /\ m.content = g.content /\ m.home = g.home /\ m.refs = g.refs
          /\ m.chain = [g.chain EXCEPT ![o] = b]
      BY <3>2, <3>6 DEF Allocated, AsRecord
    <3>9. t.chain = m.chain
      <4>1. s.chain \in [Place -> ObjectBlock \cup {None}] /\ b \in Place
        BY <1>1, <2>5 DEF Memory, Place, Spare
      <4>2. /\ t.chain = [[[s.chain EXCEPT ![o] = k] EXCEPT ![b] = None] EXCEPT ![o] = b]
            /\ m.chain = [[s.chain EXCEPT ![b] = None] EXCEPT ![o] = b]
        BY <3>2, <3>4, <3>7, <3>8 DEF Allocated
      <4> QED BY <1>1, <4>1, <4>2
    <3> QED BY <3>2, <3>3, <3>7, <3>8, <3>9, SameRecord DEF Allocated
  <2> QED BY <2>6, <2>7
<1> QED BY <1>4, <1>5

\* A grown value asks for a heap, and a grown item leaves its array first.
LEMMA AllocInv ==
  ASSUME NEW s, ObjectInv(s, None, None), NEW o \in s.live, s.at[o] # None,
         s.chain[s.at[o]] = None, Room(s)
  PROVE  LET t == AllocVBLock(s, o)
         IN  /\ ObjectInv(t, None, None) /\ Spare(t) # {} /\ t.heap[o] # None
             /\ OwnValue(t, o) \/ OnHeap(t, o)
             /\ t.chain[t.at[o]] = None
<1> DEFINE t == AllocVBLock(s, o)
           h == CHOOSE g \in Unborn(s) : TRUE
           c == CreateSYS(s, o)
<1>1. o \in Object /\ o \in Place /\ s \in Memory /\ AsRecord(s) /\ s.refs \in [Heap -> Nat]
  BY Recorded DEF ObjectInv, Memory, Place
<1>2. OwnValue(s, o) \/ OwnItem(s, o) \/ OnHeap(s, o)
  BY DEF ObjectInv, Memory, Seated, Vacant
<1>3. h \in Heap /\ s.refs[h] = 0 /\ h # None
  <2>1. h \in Unborn(s)
    BY DEF Room
  <2> HIDE DEF h
  <2> QED BY <2>1, ObjectAssumption DEF Unborn
<1>4. c = [s EXCEPT !.heap[o] = h, !.refs[h] = 1]
  BY DEF CreateSYS
<1> HIDE DEF h, c
<1>5. /\ AsRecord(c) /\ c.live = s.live /\ c.at = s.at /\ c.owner = s.owner
      /\ c.content = s.content /\ c.chain = s.chain /\ c.home = s.home
      /\ c.heap = [s.heap EXCEPT ![o] = h] /\ c.refs = [s.refs EXCEPT ![h] = 1]
  <2>1. c = [s EXCEPT !.heap = [s.heap EXCEPT ![o] = h], !.refs = [s.refs EXCEPT ![h] = 1]]
    BY <1>1, <1>4 DEF AsRecord
  <2> QED BY <1>1, <2>1 DEF AsRecord
<1>6. c.heap[o] = h
  BY <1>1, <1>5 DEF Memory
<1>7. CASE s.heap[o] # None
  <2>1. t = s
    BY <1>7 DEF AllocVBLock
  <2>2. OwnValue(s, o) \/ OnHeap(s, o)
    BY <1>2, <1>7 DEF OwnItem
  <2> QED BY <1>7, <2>1, <2>2 DEF Room
<1>8. CASE s.heap[o] = None /\ OwnItem(s, o)
  <2>1. t = RehomeInlineItem(s, o)
    <3>1. ObjectFresh(c) = ObjectFresh(s)
      <4>1. Spare(c) = Spare(s)
        BY <1>5 DEF Spare
      <4> QED BY <4>1 DEF ObjectFresh
    <3>2. t = RehomeInlineItem(c, o)
      BY <1>8 DEF AllocVBLock, c
    <3>3. c.at[o] = o /\ c.content[o] = "item" /\ c.heap[o] # None
      BY <1>3, <1>5, <1>6, <1>8 DEF OwnItem
    <3>4. s.at[o] = o /\ s.content[o] = "item"
      BY <1>8 DEF OwnItem
    <3>5. RehomeInlineItem(c, o) = [ObjectAlloc(c, c.heap[o], ObjectFresh(s), "item") EXCEPT
                                     !.at[o] = ObjectFresh(s), !.content[o] = "free"]
      BY <3>1, <3>3 DEF RehomeInlineItem, Inline
    <3>6. RehomeInlineItem(s, o) = [ObjectAlloc(c, c.heap[o], ObjectFresh(s), "item") EXCEPT
                                     !.at[o] = ObjectFresh(s), !.content[o] = "free"]
      BY <1>8, <3>4 DEF RehomeInlineItem, Inline, c
    <3> QED BY <3>2, <3>5, <3>6
  <2> HIDE DEF t
  <2>2. Rehomed(s, t, o)
    BY <1>8, <2>1, ItemRehomed
  <2> QED BY <2>2 DEF Rehomed, OnHeap, t
<1>9. CASE s.heap[o] = None /\ ~ OwnItem(s, o)
  <2>1. OwnValue(s, o)
    BY <1>2, <1>9 DEF OnHeap
  <2>2. t = c
    <3>1. c.content[o] # "item"
      BY <1>5, <2>1 DEF OwnValue
    <3> QED BY <1>9, <3>1 DEF AllocVBLock, RehomeInlineItem, c
  <2>3. s.chain[o] = None
    BY <1>9, <2>1 DEF OwnValue
  <2> DEFINE a == AddRef(s, h)
  <2>4. ObjectInv(a, h, None) /\ Referenced(s, a, h)
    <3>1. ObjectInv(s, None, None) /\ h \in Heap \cup {None}
      BY <1>3
    <3> QED BY <1>1, <3>1, AddRefInv, AddRefFields
  <2> HIDE DEF a
  <2>5. c \in Memory
    <3>1. TypedFields(s)
      BY <1>1, Recorded
    <3>2. c.heap \in [Object -> Heap \cup {None}] /\ c.refs \in [Heap -> Nat]
      BY <1>3, <1>5, <3>1 DEF TypedFields
    <3> QED BY ONLY <1>5, <3>1, <3>2, ObjectMemory DEF TypedFields
  <2>6. c.refs = a.refs
    BY <1>1, <1>3, <1>5, <2>4 DEF Referenced, OneIf
  <2>7. OnlySeat(a, c, o)
    BY <1>1, <1>5, <2>4, <2>6 DEF OnlySeat, Referenced, Memory
  <2>8. OwnValue(c, o) /\ Seated(c, o) /\ c.heap[o] # None /\ c.chain[c.at[o]] = None
    BY <1>3, <1>5, <1>6, <2>1, <2>3 DEF OwnValue, Seated
  <2>9. ObjectInv(c, None, None)
    <3>1. a.heap[o] = None /\ a.chain[o] = None /\ o \in c.live
      BY <1>5, <1>9, <2>3, <2>4 DEF Referenced
    <3>2. \A g \in Heap : OneIf(o \in a.live /\ a.heap[o] = g) + OneIf(g = h) + OneIf(g = None)
                           = OneIf(o \in c.live /\ c.heap[o] = g) + OneIf(g = None) + OneIf(g = None)
      BY <1>6, <3>1, ObjectAssumption DEF OneIf
    <3> QED BY <1>1, <2>4, <2>5, <2>7, <2>8, <3>1, <3>2, Moved
  <2>10. Spare(c) # {}
    BY <1>5 DEF Room, Spare
  <2> QED BY <2>2, <2>8, <2>9, <2>10
<1> QED BY <1>7, <1>8, <1>9

\* Room is left by a step that only frees.
LEMMA RoomKept ==
  ASSUME NEW s, NEW t, Room(s), Spare(s) \subseteq Spare(t), Unborn(s) \subseteq Unborn(t)
  PROVE  Room(t)
BY DEF Room

LEMMA GrowInv ==
  ASSUME NEW o, NEW ok, ObjectInv(objectMem, None, None), Room(objectMem), Grow(o, ok)
  PROVE  ObjectInv(objectMem', None, None)
<1> DEFINE p == objectMem.at[o]
           old == objectMem.chain[p]
           f == IF old = None THEN objectMem
                ELSE ObjectFree([objectMem EXCEPT !.chain[p] = None], old)
           s == AllocVBLock(f, o)
           b == ObjectFresh(s)
<1>1. /\ o \in objectMem.live /\ p # None
      /\ objectMem' = IF ok THEN [ObjectAlloc(s, s.heap[o], b, "payload") EXCEPT !.chain[s.at[o]] = b]
                      ELSE s
  BY DEF Grow
<1>2. p \in Place
  BY <1>1 DEF ObjectInv, Memory
<1>3. /\ ObjectInv(f, None, None) /\ f.live = objectMem.live /\ f.at = objectMem.at
      /\ f.chain[p] = None /\ Room(f)
  <2>1. CASE old = None
    BY <2>1
  <2>2. CASE old # None
    <3> HIDE DEF p
    <3>1. PICK m : m = objectMem /\ ObjectInv(m, None, None)
      OBVIOUS
    <3>2. PICK c : c = m.chain[p] /\ c # None
      BY <2>2, <3>1
    <3>3. PICK t : t = ObjectFree([m EXCEPT !.chain[p] = None], c) /\ t = f
      BY <2>2, <3>1, <3>2
    <3> HIDE DEF old, f
    <3>4. ObjectInv(t, None, None) /\ SameNames(m, t) /\ t.chain[p] = None /\ Spare(m) \subseteq Spare(t)
      BY <1>2, <3>1, <3>2, <3>3, PayloadDropped
    <3>5. Room(t)
      <4>1. Unborn(m) = Unborn(t)
        BY <3>4 DEF Unborn, SameNames
      <4> QED BY <3>1, <3>4, <4>1, RoomKept
    <3> QED BY <3>1, <3>3, <3>4, <3>5 DEF SameNames
  <2> QED BY <2>1, <2>2
<1> HIDE DEF f
<1>4. /\ ObjectInv(s, None, None) /\ Spare(s) # {} /\ s.heap[o] # None
      /\ OwnValue(s, o) \/ OnHeap(s, o)
      /\ s.chain[s.at[o]] = None
  <2>1. o \in f.live /\ f.at[o] # None /\ f.chain[f.at[o]] = None
    BY <1>1, <1>3
  <2> QED BY <1>3, <2>1, AllocInv
<1> HIDE DEF s
<1>5. CASE ok
  <2>1. o \in Object
    BY <1>1 DEF ObjectInv, Memory
  <2>2. PICK q \in Place : q = s.at[o]
    BY <1>4, <2>1 DEF OwnValue, OnHeap, Place
  <2>3. HolderOf(s, q) = s.heap[o]
    BY <1>4, <2>1, <2>2, ObjectAssumption DEF OwnValue, OnHeap, HolderOf
  <2>4. b \in Spare(s)
    BY <1>4, FreshIsSpare
  <2>5. s.content[q] \in {"value", "item"} /\ (q \in Object => OwnValue(s, q))
    BY <1>4, <2>1, <2>2, ObjectAssumption DEF OwnValue, OnHeap
  <2> HIDE DEF b
  <2>6. PayloadWanted(s, b, q)
    BY <1>4, <2>2, <2>3, <2>4, <2>5 DEF PayloadWanted
  <2>7. ObjectInv([ObjectAlloc(s, s.heap[o], b, "payload") EXCEPT !.chain[q] = b], None, None)
    BY <1>4, <2>3, <2>6, PayloadAlloc
  <2> QED BY <1>1, <1>5, <2>2, <2>7
<1>6. CASE ~ ok
  BY <1>1, <1>4, <1>6
<1> QED BY <1>5, <1>6

\* A vacant object becomes a name for an item, with the reference taken for it.
LEMMA NewName ==
  ASSUME NEW s, NEW h \in Heap, ObjectInv(s, h, None), NEW o \in s.live, Vacant(s, o),
         NEW b \in ObjectBlock, s.home[b] = h, s.content[b] = "item",
         NEW t, AsRecord(t), t.live = s.live, t.owner \in [Object -> Object \cup {None}],
         t.at = [s.at EXCEPT ![o] = b], t.heap = [s.heap EXCEPT ![o] = h],
         t.content = s.content, t.chain = s.chain, t.home = s.home, t.refs = s.refs
  PROVE  ObjectInv(t, None, None)
<1>1. s \in Memory /\ o \in Object /\ h # None /\ b # None /\ b \in Place
  BY ObjectAssumption DEF ObjectInv, Memory, Place
<1>2. t \in Memory
  <2>1. TypedFields(s)
    BY <1>1, Recorded
  <2>2. t.at \in [Object -> Place \cup {None}] /\ t.heap \in [Object -> Heap \cup {None}]
    BY <1>1, <2>1 DEF TypedFields
  <2>3. AsRecord(t) /\ t.owner \in [Object -> Object \cup {None}]
    OBVIOUS
  <2>4. t.live = s.live /\ t.content = s.content /\ t.chain = s.chain /\ t.home = s.home /\ t.refs = s.refs
    OBVIOUS
  <2> QED BY ONLY <2>1, <2>2, <2>3, <2>4, ObjectMemory DEF TypedFields
<1>3. t.at[o] = b /\ t.heap[o] = h
  BY <1>1 DEF Memory
<1>4. \A p \in Object \ {o} : (p \in t.live <=> p \in s.live) /\ t.at[p] = s.at[p] /\ t.heap[p] = s.heap[p]
  BY <1>1 DEF Memory
<1>5. Seated(t, o) /\ s.chain[o] = None
  BY <1>1, <1>3 DEF Seated, OnHeap, Vacant
<1>6. \A g \in Heap : OneIf(o \in s.live /\ s.heap[o] = g) + OneIf(g = h) + OneIf(g = None)
                       = OneIf(o \in t.live /\ t.heap[o] = g) + OneIf(g = None) + OneIf(g = None)
  BY <1>3, ObjectAssumption DEF OneIf, Vacant
<1>7. SeatChanged(s, t, o)
  BY <1>2, <1>4 DEF SeatChanged
<1>8. ObjectInv(s, h, None)
  OBVIOUS
<1> QED BY ONLY <1>1, <1>5, <1>6, <1>7, <1>8, SeatTaken

\* A void object gets an array of its own.
LEMMA Standalone ==
  ASSUME NEW s, ObjectInv(s, None, None), NEW o \in s.live, Void(s, o), NEW what \in {"value", "item"}
  PROVE  ObjectInv([s EXCEPT !.at[o] = o, !.content[o] = what], None, None)
<1> DEFINE t == [s EXCEPT !.at[o] = o, !.content[o] = what]
<1>1. s \in Memory /\ AsRecord(s) /\ o \in Object /\ o \in Place /\ o # None
  BY Recorded, ObjectAssumption DEF ObjectInv, Memory, Place
<1>2. Vacant(s, o)
  BY <1>1 DEF ObjectInv, Seated, Void, OwnValue, OwnItem, OnHeap
<1>3. t = [s EXCEPT !.at = [s.at EXCEPT ![o] = o], !.content = [s.content EXCEPT ![o] = what]]
  BY <1>1 DEF AsRecord
<1> HIDE DEF t
<1>4. /\ AsRecord(t) /\ t.live = s.live /\ t.heap = s.heap /\ t.owner = s.owner
      /\ t.at = [s.at EXCEPT ![o] = o] /\ t.content = [s.content EXCEPT ![o] = what]
      /\ t.chain = s.chain /\ t.home = s.home /\ t.refs = s.refs
  BY <1>1, <1>3 DEF AsRecord
<1>5. t \in Memory
  <2>1. TypedFields(s)
    BY <1>1, Recorded
  <2>2. /\ t.at \in [Object -> Place \cup {None}]
        /\ t.content \in [Place -> {"free", "item", "value", "payload"}]
    BY <1>1, <1>4, <2>1 DEF TypedFields
  <2> QED BY ONLY <1>4, <2>1, <2>2, ObjectMemory DEF TypedFields
<1>6. /\ t.at[o] = o /\ t.content[o] = what
      /\ \A p \in Place \ {o} : t.content[p] = s.content[p]
      /\ \A p \in Object \ {o} : (p \in t.live <=> p \in s.live) /\ t.at[p] = s.at[p] /\ t.heap[p] = s.heap[p]
  BY <1>1, <1>4 DEF Memory
<1>7. Seated(t, o) /\ s.chain[o] = None
  BY <1>1, <1>2, <1>4, <1>6 DEF Seated, OwnValue, OwnItem, Vacant
<1>8. \A g \in Heap : OneIf(o \in s.live /\ s.heap[o] = g) + OneIf(g = None) + OneIf(g = None)
                       = OneIf(o \in t.live /\ t.heap[o] = g) + OneIf(g = None) + OneIf(g = None)
  BY <1>4
<1>9. ObjectInv(t, None, None)
  <2>1. SeatChanged(s, t, o)
    BY <1>4, <1>5, <1>6 DEF SeatChanged
  <2> QED BY <1>1, <1>7, <1>8, <2>1, SeatTaken
<1> QED BY <1>9 DEF t

\* Connect, from any sound state with room.
LEMMA ConnectedInv ==
  ASSUME NEW s, ObjectInv(s, None, None), NEW o \in s.live, NEW r \in s.live, Room(s)
  PROVE  ObjectInv(Connected(s, o, r, TRUE), None, None)
<1> DEFINE q == RehomeInlineItem(s, r)
           h == q.heap[r]
           a == AddRef(q, h)
           n == Nullified(a, o)
<1>0. o \in Object /\ r \in Object
  BY DEF ObjectInv, Memory
<1>1. CASE o = r
  BY <1>1 DEF Connected
<1>2. CASE o # r /\ Void(s, r)
  <2>1. ObjectInv(Nullified(s, o), None, None)
    BY <1>0, NullifiedInv
  <2> QED BY <1>2, <2>1 DEF Connected
<1>3. CASE o # r /\ ~ Void(s, r)
  <2>1. Shareable(s, q, r)
    BY <1>3, RehomeInv
  <2>2. ObjectInv(q, None, None) /\ q \in Memory /\ q.live = s.live /\ h \in Heap \cup {None}
    BY <1>0, <2>1 DEF Shareable, ObjectInv, Memory
  <2>3. Connected(s, o, r, TRUE) = IF Inline(q, r) THEN PrivatiseInlineChain(ValueCopied(n, o, r), o)
                                   ELSE Named(q, o, h, q.at[r])
    BY <1>3 DEF Connected
  <2>4. CASE Inline(q, r)
    <3>1. OwnValue(q, r)
      BY <1>0, <2>1, <2>4, ObjectAssumption DEF Shareable, Inline, OnHeap
    <3> HIDE DEF h
    <3>2. ObjectInv(a, h, None) /\ Referenced(q, a, h)
      <4>1. AsRecord(q) /\ q.refs \in [Heap -> Nat]
        BY <2>2, Recorded DEF Memory
      <4> HIDE DEF q
      <4> QED BY <2>2, <4>1, AddRefInv, AddRefFields
    <3> HIDE DEF a
    <3>3. ObjectInv(n, h, None) /\ Vacant(n, o) /\ Undisturbed(a, n, o)
      BY <1>0, <3>2, NullifiedInv
    <3> HIDE DEF n
    <3>4. /\ n.live = s.live /\ n.at[r] = q.at[r] /\ n.heap[r] = h /\ n.content[r] = q.content[r]
          /\ n.chain[r] = q.chain[r] /\ Spare(n) # {}
      <4>1. /\ n.live = a.live /\ n.at[r] = a.at[r] /\ n.heap[r] = a.heap[r]
            /\ n.content[r] = a.content[r] /\ n.chain[r] = a.chain[r] /\ Spare(a) \subseteq Spare(n)
        BY <1>0, <1>3, <3>3 DEF Undisturbed
      <4>2. Spare(a) = Spare(q) /\ Spare(q) # {}
        BY <2>1, <3>2 DEF Referenced, Spare, Shareable
      <4> HIDE DEF q
      <4> QED BY <2>2, <3>2, <4>1, <4>2 DEF Referenced, h
    <3>5. OwnValue(n, r)
      BY <3>1, <3>4 DEF OwnValue, h
    <3>6. ObjectInv(PrivatiseInlineChain(ValueCopied(n, o, r), o), None, None)
      BY <1>3, <3>3, <3>4, <3>5, ValueShared
    <3> QED BY <2>3, <2>4, <3>6 DEF n, a, h
  <2>5. CASE ~ Inline(q, r)
    <3>1. OnHeap(q, r)
      BY <2>1, <2>5 DEF Shareable, Inline, OwnValue
    <3>2. /\ q.at[r] \in ObjectBlock /\ h \in Heap /\ q.home[q.at[r]] = h
          /\ q.content[q.at[r]] = "item" /\ o \in q.live
      BY <2>2, <3>1 DEF OnHeap
    <3> HIDE DEF q, h
    <3>3. ObjectInv(Named(q, o, h, q.at[r]), None, None)
      BY <2>2, <3>2, NamedInv
    <3> QED BY <2>3, <2>5, <3>3 DEF h
  <2> QED BY <2>4, <2>5
<1> QED BY <1>1, <1>2, <1>3

LEMMA DestroyedInv ==
  ASSUME NEW s, ObjectInv(s, None, None), NEW o \in s.live
  PROVE  ObjectInv(Destroyed(s, o), None, None)
<1> DEFINE n == Nullified(s, o)
           t == Destroyed(s, o)
<1>0. o \in Object
  BY DEF ObjectInv, Memory
<1>1. ObjectInv(n, None, None) /\ Vacant(n, o)
  BY <1>0, NullifiedInv
<1>2. t = [n EXCEPT !.live = @ \ {o}, !.owner[o] = None]
  BY DEF Destroyed
<1> HIDE DEF n, t
<1>3. n \in Memory /\ AsRecord(n)
  BY <1>1, Recorded DEF ObjectInv
<1>4. /\ AsRecord(t) /\ t.live = n.live \ {o} /\ t.owner = [n.owner EXCEPT ![o] = None]
      /\ t.at = n.at /\ t.heap = n.heap /\ t.content = n.content
      /\ t.chain = n.chain /\ t.home = n.home /\ t.refs = n.refs
  <2>1. t = [n EXCEPT !.live = @ \ {o}, !.owner = [n.owner EXCEPT ![o] = None]]
    BY <1>2, <1>3 DEF AsRecord
  <2> QED BY <1>3, <2>1 DEF AsRecord
<1>5. t \in Memory
  <2>1. TypedFields(n)
    BY <1>3, Recorded
  <2>2. t.live \in SUBSET Object /\ t.owner \in [Object -> Object \cup {None}]
    BY <1>4, <2>1 DEF TypedFields
  <2> QED BY ONLY <1>4, <2>1, <2>2, ObjectMemory DEF TypedFields
<1>6. Seated(t, o) /\ SeatChanged(n, t, o) /\ n.chain[o] = None
  BY <1>1, <1>4, <1>5 DEF Seated, Vacant, SeatChanged
<1>7. \A g \in Heap : OneIf(o \in n.live /\ n.heap[o] = g) + OneIf(g = None) + OneIf(g = None)
                       = OneIf(o \in t.live /\ t.heap[o] = g) + OneIf(g = None) + OneIf(g = None)
  BY <1>1, <1>4, ObjectAssumption DEF OneIf, Vacant
<1>8. ObjectInv(t, None, None)
  BY <1>0, <1>1, <1>6, <1>7, SeatTaken
<1> QED BY <1>8 DEF t

\* The reference a new object takes: counted, and the object alive and vacant.
LEMMA Expected ==
  ASSUME NEW s, ObjectInv(s, None, None), NEW o \in Object \ s.live, NEW h \in Heap \cup {None}
  PROVE  /\ ObjectInv(Born(AddRef(s, h), o), h, None) /\ Vacant(Born(AddRef(s, h), o), o)
         /\ Delivered(AddRef(s, h), Born(AddRef(s, h), o), o) /\ Referenced(s, AddRef(s, h), h)
<1> DEFINE a == AddRef(s, h)
<1>1. AsRecord(s) /\ s.refs \in [Heap -> Nat]
  BY Recorded DEF ObjectInv, Memory
<1>2. ObjectInv(a, h, None) /\ Referenced(s, a, h)
  BY <1>1, AddRefInv, AddRefFields
<1> HIDE DEF a
<1>3. o \in Object \ a.live /\ AsRecord(a)
  BY <1>2 DEF Referenced
<1>4. ObjectInv(Born(a, o), h, None) /\ Vacant(Born(a, o), o) /\ Delivered(a, Born(a, o), o)
  BY <1>2, <1>3, BornInv, BornFields
<1> QED BY <1>2, <1>4 DEF a

LEMMA CopyInv ==
  ASSUME NEW o, NEW r, ObjectInv(objectMem, None, None), Room(objectMem),
         CopyConstruct(o, r, TRUE)
  PROVE  ObjectInv(objectMem', None, None)
<1> DEFINE q == RehomeInlineItem(objectMem, r)
           h == q.heap[r]
           v == AddRef(ValueCopied(q, o, r), h)
           d == Born(AddRef(q, h), o)
<1>1. /\ o \in Object \ objectMem.live /\ r \in objectMem.live
      /\ objectMem' = IF Void(q, r) THEN Born(q, o)
                      ELSE IF ~ Inline(q, r)
                           THEN [d EXCEPT !.at[o] = q.at[r], !.heap[o] = q.heap[r]]
                      ELSE PrivatiseInlineChain(Born(v, o), o)
  BY DEF CopyConstruct, Dead
<1>2. r \in Object /\ o \in Object /\ o # r
  BY <1>1 DEF ObjectInv, Memory
<1>3. CASE Void(objectMem, r)
  <2>1. q = objectMem
    BY <1>2, <1>3, ObjectAssumption DEF RehomeInlineItem, Inline, Void
  <2>2. ObjectInv(Born(objectMem, o), None, None)
    BY <1>1, BornInv
  <2> QED BY <1>1, <1>3, <2>1, <2>2
<1>4. CASE ~ Void(objectMem, r)
  <2>1. Shareable(objectMem, q, r)
    BY <1>1, <1>4, RehomeInv
  <2>2. /\ ObjectInv(q, None, None) /\ q \in Memory /\ AsRecord(q) /\ q.live = objectMem.live
        /\ h \in Heap \cup {None} /\ Spare(q) # {} /\ (OwnValue(q, r) \/ OnHeap(q, r))
    BY <1>2, <2>1, Recorded DEF Shareable, ObjectInv, Memory
  <2>3. ~ Void(q, r)
    BY <1>2, <2>2, ObjectAssumption DEF OwnValue, OnHeap, Void
  <2> HIDE DEF q
  <2>4. /\ ObjectInv(d, h, None) /\ Vacant(d, o)
        /\ Delivered(AddRef(q, h), d, o) /\ Referenced(q, AddRef(q, h), h)
    BY <1>1, <2>2, Expected
  <2> HIDE DEF h, d
  <2>5. /\ AsRecord(d) /\ d.live = q.live \cup {o} /\ d.owner = [q.owner EXCEPT ![o] = None]
        /\ d.at = q.at /\ d.heap = q.heap /\ d.content = q.content
        /\ d.chain = q.chain /\ d.home = q.home
        /\ d.refs = [k \in Heap |-> q.refs[k] + OneIf(k = h)]
    BY <2>4 DEF Delivered, Referenced
  <2>6. CASE ~ Inline(q, r)
    <3>1. /\ q.at[r] \in ObjectBlock /\ h \in Heap /\ q.home[q.at[r]] = h
          /\ q.content[q.at[r]] = "item"
      BY <1>2, <2>2, <2>6 DEF OnHeap, OwnValue, Inline, h
    <3> DEFINE t == [d EXCEPT !.at[o] = q.at[r], !.heap[o] = q.heap[r]]
    <3>2. /\ AsRecord(t) /\ t.live = d.live /\ t.owner = d.owner
          /\ t.at = [d.at EXCEPT ![o] = q.at[r]] /\ t.heap = [d.heap EXCEPT ![o] = h]
          /\ t.content = d.content /\ t.chain = d.chain /\ t.home = d.home /\ t.refs = d.refs
      <4>1. t = [d EXCEPT !.at = [d.at EXCEPT ![o] = q.at[r]], !.heap = [d.heap EXCEPT ![o] = h]]
        BY <2>5 DEF AsRecord, h
      <4> HIDE DEF t
      <4> QED BY <2>5, <4>1 DEF AsRecord
    <3> HIDE DEF t
    <3>3. t.owner \in [Object -> Object \cup {None}] /\ o \in d.live
      BY <2>4, <2>5, <3>2 DEF ObjectInv, Memory
    <3>4. PICK b \in ObjectBlock : b = q.at[r] /\ d.home[b] = h /\ d.content[b] = "item"
      BY <2>5, <3>1
    <3>5. t.at = [d.at EXCEPT ![o] = b]
      BY <3>2, <3>4
    <3>6. PICK u : u = t
      OBVIOUS
    <3>7. ObjectInv(u, None, None)
      BY ONLY <2>4, <3>1, <3>2, <3>3, <3>4, <3>5, <3>6, NewName
    <3>8. ObjectInv(t, None, None)
      BY <3>6, <3>7
    <3> QED BY <1>1, <2>3, <2>6, <3>8 DEF t, d, h
  <2>7. CASE Inline(q, r)
    <3>1. OwnValue(q, r)
      BY <1>2, <2>2, <2>7, ObjectAssumption DEF Inline, OnHeap
    <3>2. Born(v, o) = ValueCopied(d, o, r)
      <4> DEFINE c == ValueCopied(q, o, r)
                 w == ValueCopied(d, o, r)
                 n == Born(v, o)
      <4>1. CopyMade(q, c, o, r) /\ CopyMade(d, w, o, r)
        BY <2>2, <2>5, CopiedFields
      <4>2. Referenced(c, v, h)
        <5>1. AsRecord(c) /\ c.refs \in [Heap -> Nat]
          BY <2>2, <4>1 DEF CopyMade, Memory
        <5>2. PICK u : u = c
          OBVIOUS
        <5>3. Referenced(u, AddRef(u, h), h)
          BY ONLY <2>2, <5>1, <5>2, AddRefFields
        <5> QED BY <5>2, <5>3
      <4> HIDE DEF c, w, v
      <4>3. Delivered(v, n, o)
        BY <4>2, BornFields DEF Referenced
      <4> HIDE DEF n
      <4>4. n = w
        <5>1. /\ AsRecord(n) /\ n.live = q.live \cup {o} /\ n.owner = [q.owner EXCEPT ![o] = None]
              /\ n.at = c.at /\ n.heap = c.heap /\ n.content = c.content /\ n.chain = c.chain
              /\ n.home = q.home /\ n.refs = d.refs
          BY <2>5, <4>1, <4>2, <4>3 DEF CopyMade, Referenced, Delivered
        <5>2. /\ AsRecord(w) /\ w.live = q.live \cup {o} /\ w.owner = [q.owner EXCEPT ![o] = None]
              /\ w.at = c.at /\ w.heap = c.heap /\ w.content = c.content /\ w.chain = c.chain
              /\ w.home = q.home /\ w.refs = d.refs
          BY <2>5, <4>1 DEF CopyMade
        <5> QED BY ONLY <5>1, <5>2, SameRecord
      <4> QED BY <4>4 DEF n, w
    <3>3. OwnValue(d, r) /\ d.heap[r] = h /\ o \in d.live /\ r \in d.live /\ Spare(d) # {}
      BY <1>1, <2>2, <2>5, <3>1 DEF OwnValue, h, Spare
    <3>4. ObjectInv(PrivatiseInlineChain(ValueCopied(d, o, r), o), None, None)
      BY <1>2, <2>4, <3>3, ValueShared
    <3> QED BY <1>1, <2>3, <2>7, <3>2, <3>4
  <2> QED BY <2>6, <2>7
<1> QED BY <1>3, <1>4

LEMMA PartInv ==
  ASSUME NEW o, NEW p, ObjectInv(objectMem, None, None), MakePart(o, p)
  PROVE  ObjectInv(objectMem', None, None)
<1> DEFINE s == objectMem
           h == s.heap[o]
           c == AddRef(Born(s, p), h)
           t == [c EXCEPT !.owner[p] = o, !.heap[p] = s.heap[o], !.at[p] = s.at[o]]
<1>1. /\ o \in s.live /\ p \in Object \ s.live /\ s.at[o] \in ObjectBlock /\ objectMem' = t
  BY DEF MakePart, Dead
<1>2. o \in Object /\ o # p /\ s \in Memory
  BY <1>1 DEF ObjectInv, Memory
<1>3. OnHeap(s, o) /\ h \in Heap
  BY <1>1, <1>2, ObjectAssumption DEF ObjectInv, Seated, Vacant, OwnValue, OwnItem, OnHeap, Memory
<1>4. ObjectInv(c, h, None) /\ Referenced(Born(s, p), c, h) /\ Delivered(s, Born(s, p), p) /\ Vacant(c, p)
  <2> DEFINE n == Born(s, p)
  <2>1. ObjectInv(n, None, None) /\ Vacant(n, p) /\ Delivered(s, n, p)
    BY <1>1, <1>2, BornInv, BornFields, Recorded
  <2> HIDE DEF n, h
  <2>2. AsRecord(n) /\ n.refs \in [Heap -> Nat]
    BY <2>1, Recorded DEF ObjectInv, Memory
  <2>3. ObjectInv(c, h, None) /\ Referenced(n, c, h)
    BY <1>3, <2>1, <2>2, AddRefInv, AddRefFields DEF n
  <2>4. Vacant(c, p)
    BY <2>1, <2>3 DEF Vacant, Referenced
  <2> QED BY <2>1, <2>3, <2>4 DEF n
<1> HIDE DEF c
<1>5. /\ AsRecord(c) /\ c.live = s.live \cup {p} /\ c.owner = [s.owner EXCEPT ![p] = None]
      /\ c.at = s.at /\ c.heap = s.heap /\ c.content = s.content /\ c.chain = s.chain /\ c.home = s.home
  BY <1>4 DEF Delivered, Referenced
<1>6. /\ AsRecord(t) /\ t.live = c.live /\ t.owner = [c.owner EXCEPT ![p] = o]
      /\ t.at = [c.at EXCEPT ![p] = s.at[o]] /\ t.heap = [c.heap EXCEPT ![p] = h]
      /\ t.content = c.content /\ t.chain = c.chain /\ t.home = c.home /\ t.refs = c.refs
  <2>1. t = [c EXCEPT !.owner = [c.owner EXCEPT ![p] = o], !.heap = [c.heap EXCEPT ![p] = h],
                      !.at = [c.at EXCEPT ![p] = s.at[o]]]
    BY <1>5 DEF AsRecord
  <2> HIDE DEF t
  <2> QED BY <1>5, <2>1 DEF AsRecord
<1> HIDE DEF t, h
<1>7. t.owner \in [Object -> Object \cup {None}] /\ p \in c.live
  <2>1. c.owner \in [Object -> Object \cup {None}]
    BY <1>4 DEF ObjectInv, Memory
  <2> QED BY <1>2, <1>5, <1>6, <2>1
<1>8. c.home[s.at[o]] = h /\ c.content[s.at[o]] = "item"
  BY <1>3, <1>5 DEF OnHeap, h
<1>9. ObjectInv(t, None, None)
  <2>1. PICK b \in ObjectBlock : b = s.at[o] /\ c.home[b] = h /\ c.content[b] = "item"
    BY <1>1, <1>8
  <2> HIDE DEF s
  <2>2. t.at = [c.at EXCEPT ![p] = b]
    BY <1>6, <2>1
  <2>3. PICK u : u = t
    OBVIOUS
  <2>4. ObjectInv(u, None, None)
    BY ONLY <1>3, <1>4, <1>6, <1>7, <2>1, <2>2, <2>3, NewName
  <2> QED BY <2>3, <2>4
<1> QED BY <1>1, <1>9

-----------------------------------------------------------------------------
(* Every call keeps the invariant. *)

LEMMA ObjectStep ==
  ASSUME CopyRefused = FALSE, ObjectInv(objectMem, None, None), ObjectNext
  PROVE  ObjectInv(objectMem', None, None)
<1>1. Room(objectMem)
  BY TwoSpare DEF ObjectNext, ObjectRoom, Room
<1>2. PICK o \in Object :
         \/ Construct(o) \/ ConnectVBLock(o) \/ RenderThisSafe(o)
         \/ Nullify(o) \/ Destroy(o)
         \/ \E ok \in BOOLEAN : Grow(o, ok)
         \/ \E r \in Object :
              \/ MakePart(o, r)
              \/ \E b \in ObjectBlock : Connectx(o, r, b) \/ GetObject(o, r, b)
              \/ \E ok \in BOOLEAN : CopyConstruct(o, r, ok) \/ Connect(o, r, ok) \/ ObjectAssign(o, r, ok)
  BY DEF ObjectNext
<1>3. \A r, ok : ok \in Answers(objectMem, r) => ok = TRUE
  BY DEF Answers
<1>4. objectMem \in Memory
  BY DEF ObjectInv
<1>5. CASE Construct(o)
  BY <1>5, BornInv DEF Construct, Dead
<1>6. CASE ConnectVBLock(o) \/ RenderThisSafe(o)
  <2>1. PICK what \in {"value", "item"} :
           objectMem' = [objectMem EXCEPT !.at[o] = o, !.content[o] = what]
    BY <1>6 DEF ConnectVBLock, RenderThisSafe
  <2> QED BY <1>6, <2>1, Standalone DEF ConnectVBLock, RenderThisSafe
<1>7. CASE Nullify(o)
  BY <1>7, NullifiedInv DEF Nullify
<1>8. CASE Destroy(o)
  BY <1>8, DestroyedInv DEF Destroy
<1>9. CASE \E ok \in BOOLEAN : Grow(o, ok)
  BY <1>1, <1>9, GrowInv
<1>10. ASSUME NEW r \in Object, MakePart(o, r) PROVE ObjectInv(objectMem', None, None)
  BY <1>10, PartInv
<1>11. ASSUME NEW r \in Object, NEW b \in ObjectBlock, Connectx(o, r, b) \/ GetObject(o, r, b)
       PROVE  ObjectInv(objectMem', None, None)
  <2> DEFINE h == objectMem.heap[r]
  <2>1. h \in Heap /\ objectMem.home[b] = h /\ objectMem.content[b] = "item"
    BY <1>4, <1>11 DEF Connectx, GetObject, ObjectItems, Memory
  <2> HIDE DEF h
  <2>2. CASE Connectx(o, r, b)
    BY <2>1, <2>2, AttachedInv DEF Connectx, h
  <2>3. CASE GetObject(o, r, b)
    <3>1. o \in Object \ objectMem.live /\ objectMem' = Attached(Born(objectMem, o), o, h, b)
      BY <2>3 DEF GetObject, Dead, h
    <3>2. PICK s : s = Born(objectMem, o)
      OBVIOUS
    <3>3. ObjectInv(s, None, None) /\ Delivered(objectMem, s, o)
      BY <1>4, <3>1, <3>2, BornInv, BornFields, Recorded
    <3>4. o \in s.live /\ s.home[b] = h /\ s.content[b] = "item"
      BY <2>1, <3>3 DEF Delivered
    <3> QED BY <2>1, <3>1, <3>2, <3>3, <3>4, AttachedInv
  <2> QED BY <1>11, <2>2, <2>3
<1>12. ASSUME NEW r \in Object, NEW ok \in BOOLEAN, CopyConstruct(o, r, ok)
       PROVE  ObjectInv(objectMem', None, None)
  <2>1. CopyConstruct(o, r, TRUE)
    BY <1>3, <1>12 DEF CopyConstruct
  <2> QED BY <1>1, <2>1, CopyInv
<1>13. ASSUME NEW r \in Object, NEW ok \in BOOLEAN, Connect(o, r, ok)
       PROVE  ObjectInv(objectMem', None, None)
  <2>1. /\ o \in objectMem.live /\ r \in objectMem.live
        /\ objectMem' = Connected(objectMem, o, r, TRUE)
    BY <1>3, <1>13 DEF Connect
  <2> QED BY <1>1, <2>1, ConnectedInv
<1>14. ASSUME NEW r \in Object, NEW ok \in BOOLEAN, ObjectAssign(o, r, ok)
       PROVE  ObjectInv(objectMem', None, None)
  <2>1. CASE o = r
    BY <1>14, <2>1 DEF ObjectAssign
  <2>2. CASE o # r
    <3>1. PICK s : s = Nullified(objectMem, o)
      OBVIOUS
    <3>2. /\ o \in objectMem.live /\ r \in objectMem.live
          /\ objectMem' = Connected(s, o, r, TRUE)
      BY <1>3, <1>14, <2>2, <3>1 DEF ObjectAssign
    <3>3. ObjectInv(s, None, None) /\ Undisturbed(objectMem, s, o)
      BY <3>1, NullifiedInv
    <3>4. o \in s.live /\ r \in s.live /\ Room(s)
      BY <1>1, <3>2, <3>3, RoomKept DEF Undisturbed
    <3> QED BY <3>2, <3>3, <3>4, ConnectedInv
  <2> QED BY <2>1, <2>2
<1> QED BY <1>2, <1>5, <1>6, <1>7, <1>8, <1>9, <1>10, <1>11, <1>12, <1>13, <1>14

LEMMA ObjectStart == ASSUME ObjectInit PROVE ObjectInv(objectMem, None, None)
<1> DEFINE s == objectMem
<1>1. /\ s.live = {} /\ s.at = [o \in Object |-> None] /\ s.heap = [o \in Object |-> None]
      /\ s.owner = [o \in Object |-> None] /\ s.content = [p \in Place |-> "free"]
      /\ s.chain = [p \in Place |-> None] /\ s.home = [b \in ObjectBlock |-> None]
      /\ s.refs = [h \in Heap |-> 0] /\ AsRecord(s)
  BY DEF ObjectInit, AsRecord
<1> HIDE DEF s
<1>2. s \in Memory
  <2>1. TypedFields(s)
    BY <1>1 DEF TypedFields
  <2> QED BY <1>1, <2>1, ObjectMemory
<1>3. \A o \in Object : Seated(s, o)
  BY <1>1 DEF Seated, Vacant, Place
<1>4. \A b \in ObjectBlock : Kept(s, b)
  BY <1>1 DEF Kept, Place
<1>5. ChainsWell(s)
  <2>1. \A p \in Place : s.chain[p] = None
    BY <1>1
  <2>2. \A b \in ObjectBlock : s.content[b] = "free"
    BY <1>1 DEF Place
  <2> QED BY <2>1, <2>2 DEF ChainsWell
<1>6. RefsCount(s, None, None)
  <2>1. \A h : HoldersOf(s, h) = {}
    BY <1>1 DEF HoldersOf
  <2>2. \A h \in Heap : s.refs[h] = 0 /\ h # None
    BY <1>1, ObjectAssumption
  <2> QED BY <2>1, <2>2, FS_EmptySet DEF RefsCount, OneIf
<1> QED BY <1>2, <1>3, <1>4, <1>5, <1>6 DEF ObjectInv, s

-----------------------------------------------------------------------------
(* What the invariant says to a caller. *)

LEMMA CountedHolds == ASSUME ObjectInv(objectMem, None, None) PROVE Counted
<1> SUFFICES ASSUME NEW h \in Heap
             PROVE  objectMem.refs[h] = Cardinality(HoldersOf(objectMem, h))
  BY DEF Counted, HoldersOf
<1>1. h # None /\ Cardinality(HoldersOf(objectMem, h)) \in Nat
  BY Holders, ObjectAssumption DEF ObjectInv
<1> QED BY <1>1 DEF ObjectInv, RefsCount, OneIf

LEMMA AloneHolds == ASSUME ObjectInv(objectMem, None, None) PROVE SoleIsAlone
<1> DEFINE s == objectMem
<1> SUFFICES ASSUME NEW o \in s.live, IsSole(o), NEW p \in s.live \ ({o} \cup Parts(o)),
                    s.at[p] # None
             PROVE  /\ s.at[p] # s.at[o]
                    /\ s.chain[s.at[p]] = None \/ s.chain[s.at[p]] # s.chain[s.at[o]]
  BY DEF SoleIsAlone
<1>1. s \in Memory /\ o \in Object /\ p \in Object /\ p # o /\ s.at[o] # None
  BY DEF ObjectInv, Memory, IsSole
<1>2. /\ OwnValue(s, o) \/ OwnItem(s, o) \/ OnHeap(s, o)
      /\ OwnValue(s, p) \/ OwnItem(s, p) \/ OnHeap(s, p)
  BY <1>1 DEF ObjectInv, Seated, Vacant
<1>3. s.at[p] # s.at[o]
  <2>1. CASE ~ OnHeap(s, o)
    BY <1>1, <1>2, <2>1, ObjectAssumption DEF OwnValue, OwnItem, OnHeap
  <2>2. CASE OnHeap(s, o) /\ ~ OnHeap(s, p)
    BY <1>1, <1>2, <2>2, ObjectAssumption DEF OwnValue, OwnItem, OnHeap
  <2>3. CASE OnHeap(s, o) /\ OnHeap(s, p)
    <3> DEFINE h == s.heap[o]
               A == {q \in {o} \cup Parts(o) : s.heap[q] = h}
               B == HoldersOf(s, h)
    <3>1. h \in Heap /\ s.refs[h] = Cardinality(A)
      BY <1>1, <2>3, ObjectAssumption DEF IsSole, HeapHolders, OnHeap, Inline, Memory
    <3>2. s.refs[h] = Cardinality(B)
      BY <3>1, CountedHolds DEF Counted, HoldersOf
    <3>3. A \subseteq B /\ IsFiniteSet(B)
      BY <1>1, Holders DEF HoldersOf, Parts
    <3>4. A = B
      <4> HIDE DEF A, B
      <4> QED BY <3>1, <3>2, <3>3, FS_Subset
    <3>5. s.heap[p] # h
      BY <3>4 DEF HoldersOf
    <3> QED BY <2>3, <3>5 DEF OnHeap
  <2> QED BY <2>1, <2>2, <2>3
<1>4. s.at[o] \in Place /\ s.at[p] \in Place
  BY <1>1 DEF Memory
<1>5. s.chain[s.at[p]] = s.chain[s.at[o]] => s.chain[s.at[p]] = None
  BY <1>3, <1>4 DEF ObjectInv, ChainsWell
<1> QED BY <1>3, <1>5

LEMMA ObjectSound == ASSUME ObjectInv(objectMem, None, None) PROVE ObjectSafe
<1>1. ObjectTypeOK /\ objectMem \in Memory
  BY DEF ObjectInv, ObjectTypeOK
<1>2. NoBorrowedArray
  <2> SUFFICES ASSUME NEW o \in objectMem.live, objectMem.at[o] # None
               PROVE  IF objectMem.at[o] = o THEN objectMem.content[o] = "item" => objectMem.heap[o] = None
                      ELSE /\ objectMem.at[o] \in ObjectBlock /\ objectMem.heap[o] # None
                           /\ objectMem.home[objectMem.at[o]] = objectMem.heap[o]
    BY DEF NoBorrowedArray
  <2>1. o \in Object /\ Seated(objectMem, o)
    BY <1>1 DEF ObjectInv, Memory
  <2> QED BY <2>1, ObjectAssumption DEF Seated, Vacant, OwnValue, OwnItem, OnHeap
<1>3. ObjectOneOwner
  <2>1. \A p \in Place : Holds(p) = HolderOf(objectMem, p)
    BY DEF Holds, HolderOf
  <2>2. \A b \in ObjectBlock : b # None
    BY ObjectAssumption
  <2>3. \A p, q \in ObjectChained : objectMem.chain[p] = objectMem.chain[q] => p = q
    BY DEF ObjectInv, ChainsWell, ObjectChained
  <2>4. \A p \in ObjectChained : Holds(p) # None /\ objectMem.home[objectMem.chain[p]] = Holds(p)
    BY <2>1 DEF ObjectInv, ChainsWell, ObjectChained
  <2>5. \A b \in ObjectBlock : objectMem.content[b] = "payload" => \E p \in ObjectChained : objectMem.chain[p] = b
    BY <2>2 DEF ObjectInv, ChainsWell, ObjectChained
  <2> QED BY <2>3, <2>4, <2>5 DEF ObjectOneOwner
<1> QED BY <1>1, <1>2, <1>3, CountedHolds, AloneHolds DEF ObjectSafe

(***************************************************************************)
(* Whatever calls are made on however many objects, heaps and blocks, in   *)
(* any order: what an object names is its own array or a block of the heap *)
(* it holds, every payload has one owner, every heap's count is the number *)
(* of its holders, and where IsSole answers true no other object shares    *)
(* the block or its payload.  The premise is the run's: that the heap has  *)
(* the block a copied payload asks for.                                    *)
(***************************************************************************)
THEOREM ObjectsAreSafe == ASSUME CopyRefused = FALSE PROVE ObjectSpec => []ObjectSafe
<1>1. ObjectInit => ObjectInv(objectMem, None, None)
  BY ObjectStart
<1>2. ObjectInv(objectMem, None, None) /\ [ObjectNext]_objectMem => ObjectInv(objectMem, None, None)'
  BY ObjectStep
<1>3. ObjectInv(objectMem, None, None) => ObjectSafe
  BY ObjectSound
<1> QED BY <1>1, <1>2, <1>3, PTL DEF ObjectSpec

-----------------------------------------------------------------------------
(***************************************************************************)
(* DataCell.  Whatever a cell's value is in, its own space or the block it *)
(* chains to, that block Keeps what the last write left: a descriptor that *)
(* lies within the space and, for a cell that lost its value, one without  *)
(* capacity or one that fits.  No cell shares that block, so that putting  *)
(* a record there, chaining a cell to a new block and giving its chain     *)
(* back disturb no other cell; every operation is a chain of these three.  *)
(***************************************************************************)

\* A text kind that is copied with its whole capacity is sized by its content.
TextFixed == \A t \in CellKind : t.var => t.fam = "BLOB"

CellTypes == {t \in Type : t.fam = "TEXT" => ~t.var}

Fits(d) == Hdr + CellHead[d.type.w] + d.size <= d.room

\* The block d holds v for the cell c, or what is left of it when c is in l, the lost.
Keeps(d, v, c, l) ==
    /\ d.live /\ d.type # CellChained
    /\ d.val \in IF c \in l THEN {None, v} ELSE {v}
    /\ IsBlob(d.type) =>
          /\ d.used <= MaxOf[d.type.w]
          /\ IF c \in l THEN d.size = 0 \/ Fits(d) ELSE Fits(d) /\ d.used <= d.size

Chains(m, c) == m[c].type = CellChained

IsBlock(d) ==
    /\ d \in VBLockSet /\ d.type \in CellTypes
    /\ IsBlob(d.type) => d.size <= MaxOf[d.type.w]

CellShape(m, l, s) ==
    /\ m = [x \in Cell \cup CellBlock |-> m[x]]
    /\ \A x \in Cell \cup CellBlock : IsBlock(m[x])
    /\ l \subseteq Cell /\ s \subseteq CellBlock

Chained1(m, s) ==
    /\ \A c \in Cell : Chains(m, c) =>
          m[c].live /\ m[c].next \in CellBlock /\ m[c].next \notin s /\ m[m[c].next].live
    /\ \A c, d \in Cell : Chains(m, c) /\ Chains(m, d) /\ m[c].next = m[d].next => c = d
    /\ \A b \in CellBlock : m[b].live => b \in s \/ \E c \in Cell : Chains(m, c) /\ m[c].next = b
    /\ \A b \in s : m[b].live

CellsHold(m, w, l, s) ==
    /\ CellShape(m, l, s)
    /\ w \in [Cell -> CellValue \cup Number \cup {None}]
    /\ Chained1(m, s)
    /\ \A c \in Cell : m[c].live => Keeps(Data(m, c), w[c], c, l)

CellInv == CellsHold(cellMem, want, lost, stray)

Contents == CellValue \cup Number \cup {None}

\* The sets of lost cells l and l2 differ in c at most.
Besides(l, c, l2) == l2 \subseteq Cell /\ \A e \in Cell : e # c => (e \in l2 <=> e \in l)

Sets(f, a, d, h) == h = [f EXCEPT ![a] = d]

\* The block of a cell is in reach, and no other cell's.
LEMMA BlocksApart ==
  ASSUME NEW m, NEW l, NEW s, CellShape(m, l, s), Chained1(m, s), NEW c \in Cell
  PROVE  /\ CellAt(m, c) \in Cell \cup CellBlock
         /\ Chains(m, c) => CellAt(m, c) = m[c].next /\ m[c].next \in CellBlock \ s
         /\ ~Chains(m, c) => CellAt(m, c) = c
         /\ \A e \in Cell : e # c => CellAt(m, e) # CellAt(m, c) /\ CellAt(m, e) # c /\ CellAt(m, c) # e
BY CellAssumption DEF Chained1, Chains, CellAt

\* The record d is put where c's value is, and v is what c holds from then on.
LEMMA PutWhereItIs ==
  ASSUME NEW m, NEW w, NEW l, NEW s, CellsHold(m, w, l, s),
         NEW c \in Cell, NEW v \in Contents, NEW l2, Besides(l, c, l2),
         NEW d, IsBlock(d), d.type # CellChained,
         d.live \/ ~Chains(m, c), d.live => Keeps(d, v, c, l2),
         NEW n, Sets(m, CellAt(m, c), d, n), NEW w2, Sets(w, c, v, w2)
  PROVE  CellsHold(n, w2, l2, s) /\ Data(n, c) = d
<1> DEFINE a == CellAt(m, c)
<1>1. CellShape(m, l, s) /\ Chained1(m, s) /\ w \in [Cell -> Contents]
  BY DEF CellsHold, Contents
<1>2. /\ a \in Cell \cup CellBlock
      /\ Chains(m, c) => a = m[c].next /\ m[c].next \in CellBlock \ s
      /\ ~Chains(m, c) => a = c
      /\ \A e \in Cell : e # c => CellAt(m, e) # a /\ CellAt(m, e) # c /\ a # e
  BY <1>1, BlocksApart
<1>3. /\ n[a] = d
      /\ \A x \in Cell \cup CellBlock : x # a => n[x] = m[x]
      /\ n = [x \in Cell \cup CellBlock |-> n[x]]
  BY <1>1, <1>2 DEF CellShape, Sets
<1> HIDE DEF a
<1>4. CellShape(n, l2, s)
  BY <1>1, <1>2, <1>3 DEF CellShape, Besides
<1>5. w2 \in [Cell -> Contents] /\ w2[c] = v /\ \A e \in Cell : e # c => w2[e] = w[e]
  BY <1>1 DEF Sets
<1>6. \A e \in Cell : Chains(n, e) <=> Chains(m, e)
  BY <1>2, <1>3, CellAssumption DEF Chains
<1>7. \A e \in Cell : Chains(m, e) => n[e] = m[e]
  BY <1>2, <1>3, CellAssumption DEF Chains
<1>8. Chained1(n, s)
  <2>1. \A x \in CellBlock : n[x].live <=> m[x].live
    <3> TAKE x \in CellBlock
    <3>1. CASE x = a
      <4>1. x \notin Cell
        BY CellAssumption
      <4>2. Chains(m, c)
        BY <1>2, <3>1, <4>1
      <4>3. m[x].live /\ d.live
        BY <1>1, <1>2, <3>1, <4>2 DEF Chained1
      <4> QED BY <1>3, <3>1, <4>3
    <3>2. CASE x # a
      BY <1>3, <3>2
    <3> QED BY <3>1, <3>2
  <2> QED BY <1>1, <1>6, <1>7, <2>1 DEF Chained1, CellShape
<1>9. /\ CellAt(n, c) = a
      /\ \A e \in Cell : e # c => CellAt(n, e) = CellAt(m, e) /\ n[e] = m[e]
  BY <1>2, <1>3, <1>6, <1>7 DEF CellAt, Chains
<1>10. \A e \in Cell : CellAt(m, e) \in Cell \cup CellBlock
  BY <1>1, BlocksApart
<1>11. ASSUME NEW e \in Cell, n[e].live PROVE Keeps(Data(n, e), w2[e], e, l2)
  <2>1. CASE e = c
    <3>1. d.live
      BY <1>1, <1>2, <1>3, <1>11, <2>1
    <3>2. Data(n, c) = d /\ w2[c] = v
      BY <1>3, <1>5, <1>9 DEF Data
    <3> QED BY <2>1, <3>1, <3>2
  <2>2. CASE e # c
    <3>1. Data(n, e) = Data(m, e) /\ w2[e] = w[e] /\ m[e].live
      BY <1>2, <1>3, <1>5, <1>9, <1>10, <1>11, <2>2 DEF Data
    <3>2. (e \in l2) <=> (e \in l)
      BY <2>2 DEF Besides
    <3>3. Keeps(Data(m, e), w[e], e, l)
      BY <3>1 DEF CellsHold
    <3> QED BY <3>1, <3>2, <3>3 DEF Keeps
  <2> QED BY <2>1, <2>2
<1>12. CellsHold(n, w2, l2, s)
  BY <1>4, <1>5, <1>8, <1>11 DEF CellsHold, Contents
<1>13. Data(n, c) = d
  BY <1>3, <1>9 DEF Data
<1> QED BY <1>12, <1>13

LEMMA GoneIsBlock == IsBlock(Gone) /\ ~Gone.live /\ Gone.type # CellChained
BY CellAssumption DEF IsBlock, Gone, VBLockSet, CellTypes, Type, NullType, CellChained, Plain, IsBlob

Frees(m, c, d, n) == n = [m EXCEPT ![c] = d, ![m[c].next] = Gone]
Chaining(m, b, d, c, k, n) == n = [m EXCEPT ![b] = d, ![c] = k]

\* The chain of c is given back, and the record d is what c has instead.
LEMMA LetGoOf ==
  ASSUME NEW m, NEW w, NEW l, NEW s, CellsHold(m, w, l, s),
         NEW c \in Cell, Chains(m, c), NEW v \in Contents, NEW l2, Besides(l, c, l2),
         NEW d, IsBlock(d), d.type # CellChained, d.live => Keeps(d, v, c, l2),
         NEW n, Frees(m, c, d, n),
         NEW w2, Sets(w, c, v, w2)
  PROVE  CellsHold(n, w2, l2, s)
<1> PICK a : a = m[c].next
  OBVIOUS
<1>1. CellShape(m, l, s) /\ Chained1(m, s) /\ w \in [Cell -> Contents]
  BY DEF CellsHold, Contents
<1>2. /\ a \in CellBlock \ s /\ a \notin Cell /\ c \notin CellBlock /\ a # c
      /\ \A e \in Cell : e # c => CellAt(m, e) # a /\ CellAt(m, e) # c
  BY <1>1, BlocksApart, CellAssumption
<1>3. /\ n[c] = d /\ n[a] = Gone
      /\ \A x \in Cell \cup CellBlock : x # a /\ x # c => n[x] = m[x]
      /\ n = [x \in Cell \cup CellBlock |-> n[x]]
  BY <1>1, <1>2 DEF CellShape, Frees
<1>4. CellShape(n, l2, s)
  BY <1>1, <1>2, <1>3, GoneIsBlock DEF CellShape, Besides
<1>5. w2 \in [Cell -> Contents] /\ w2[c] = v /\ \A e \in Cell : e # c => w2[e] = w[e]
  BY <1>1 DEF Sets
<1>6. ~Chains(n, c) /\ \A e \in Cell : e # c => n[e] = m[e] /\ (Chains(n, e) <=> Chains(m, e))
  BY <1>2, <1>3 DEF Chains
<1>7. \A e \in Cell : e # c /\ Chains(m, e) => m[e].next # a
  BY <1>1 DEF Chained1
<1>8. Chained1(n, s)
  <2>1. \A e \in Cell : Chains(n, e) => n[e].live /\ n[e].next \in CellBlock /\ n[e].next \notin s /\ n[n[e].next].live
    <3> SUFFICES ASSUME NEW e \in Cell, Chains(n, e)
                 PROVE  n[e].live /\ n[e].next \in CellBlock /\ n[e].next \notin s /\ n[n[e].next].live
      OBVIOUS
    <3>1. e # c /\ n[e] = m[e] /\ Chains(m, e)
      BY <1>6
    <3>2. m[e].live /\ m[e].next \in CellBlock /\ m[e].next \notin s /\ m[m[e].next].live
      BY <1>1, <3>1 DEF Chained1
    <3>3. n[m[e].next] = m[m[e].next]
      BY <1>2, <1>3, <1>7, <3>1, <3>2
    <3> QED BY <3>1, <3>2, <3>3
  <2>2. \A e, f \in Cell : Chains(n, e) /\ Chains(n, f) /\ n[e].next = n[f].next => e = f
    BY <1>1, <1>6 DEF Chained1
  <2>3. ASSUME NEW b \in CellBlock, n[b].live PROVE b \in s \/ \E e \in Cell : Chains(n, e) /\ n[e].next = b
    <3>1. b # a /\ n[b] = m[b]
      BY <1>2, <1>3, <2>3, GoneIsBlock
    <3>2. b \in s \/ \E e \in Cell : Chains(m, e) /\ m[e].next = b
      BY <1>1, <2>3, <3>1 DEF Chained1
    <3> QED BY <1>6, <3>1, <3>2
  <2>4. ASSUME NEW b \in s PROVE n[b].live
    <3>1. b \in CellBlock
      BY <1>1 DEF CellShape
    <3>2. m[b].live
      BY <1>1 DEF Chained1
    <3>3. n[b] = m[b]
      BY <1>2, <1>3, <3>1
    <3> QED BY <3>2, <3>3
  <2> QED BY <2>1, <2>2, <2>3, <2>4 DEF Chained1
<1>9. /\ CellAt(n, c) = c
      /\ \A e \in Cell : e # c => CellAt(n, e) = CellAt(m, e)
  <2>1. CellAt(n, c) = c
    BY <1>6 DEF CellAt, Chains
  <2>2. ASSUME NEW e \in Cell, e # c PROVE CellAt(n, e) = CellAt(m, e)
    <3>1. n[e] = m[e]
      BY <1>6, <2>2
    <3> QED BY <3>1 DEF CellAt
  <2> QED BY <2>1, <2>2
<1>10. \A e \in Cell : CellAt(m, e) \in Cell \cup CellBlock
  BY <1>1, BlocksApart
<1>11. ASSUME NEW e \in Cell, n[e].live PROVE Keeps(Data(n, e), w2[e], e, l2)
  <2>1. CASE e = c
    <3>1. Data(n, c) = d /\ w2[c] = v /\ d.live
      BY <1>3, <1>5, <1>9, <1>11, <2>1 DEF Data
    <3> QED BY <2>1, <3>1
  <2>2. CASE e # c
    <3>1. Data(n, e) = Data(m, e) /\ w2[e] = w[e] /\ m[e].live
      BY <1>2, <1>3, <1>5, <1>6, <1>9, <1>10, <1>11, <2>2 DEF Data
    <3>2. (e \in l2) <=> (e \in l)
      BY <2>2 DEF Besides
    <3>3. Keeps(Data(m, e), w[e], e, l)
      BY <3>1 DEF CellsHold
    <3> QED BY <3>1, <3>2, <3>3 DEF Keeps
  <2> QED BY <2>1, <2>2
<1> QED BY <1>4, <1>5, <1>8, <1>11 DEF CellsHold, Contents

\* A block is allocated and nothing leads to it.
LEMMA LeftBehind ==
  ASSUME NEW m, NEW w, NEW l, NEW s, CellsHold(m, w, l, s),
         NEW b \in CellBlock, ~m[b].live, NEW d, IsBlock(d), d.live,
         NEW n, Sets(m, b, d, n)
  PROVE  CellsHold(n, w, l, s \cup {b})
<1>1. CellShape(m, l, s) /\ Chained1(m, s) /\ w \in [Cell -> Contents]
  BY DEF CellsHold, Contents
<1>2. b \notin Cell /\ b \notin s /\ \A e \in Cell : CellAt(m, e) \in Cell \cup CellBlock
  BY <1>1, BlocksApart, CellAssumption DEF Chained1
<1>3. /\ n[b] = d
      /\ \A x \in Cell \cup CellBlock : x # b => n[x] = m[x]
      /\ n = [x \in Cell \cup CellBlock |-> n[x]]
  BY <1>1, <1>2 DEF CellShape, Sets
<1>4. \A e \in Cell : n[e] = m[e] /\ (Chains(n, e) <=> Chains(m, e)) /\ (Chains(m, e) => m[e].next # b)
  BY <1>1, <1>2, <1>3 DEF Chains, Chained1
<1>5. CellShape(n, l, s \cup {b})
  BY <1>1, <1>2, <1>3 DEF CellShape
<1>6. Chained1(n, s \cup {b})
  <2>1. \A e \in Cell : Chains(n, e) => n[e].live /\ n[e].next \in CellBlock /\ n[e].next \notin s \cup {b} /\ n[n[e].next].live
    <3> TAKE e \in Cell
    <3>1. Chains(m, e) => m[e].live /\ m[e].next \in CellBlock /\ m[e].next \notin s /\ m[m[e].next].live
      BY <1>1 DEF Chained1
    <3>2. m[e].next \in CellBlock /\ m[e].next # b => n[m[e].next] = m[m[e].next]
      BY <1>3
    <3> QED BY <1>4, <3>1, <3>2
  <2>2. \A e, f \in Cell : Chains(n, e) /\ Chains(n, f) /\ n[e].next = n[f].next => e = f
    BY <1>1, <1>4 DEF Chained1
  <2>3. \A x \in CellBlock : n[x].live => x \in s \cup {b} \/ \E e \in Cell : Chains(n, e) /\ n[e].next = x
    <3> SUFFICES ASSUME NEW x \in CellBlock, n[x].live, x # b
                 PROVE  x \in s \/ \E e \in Cell : Chains(n, e) /\ n[e].next = x
      OBVIOUS
    <3>1. x \in s \/ \E e \in Cell : Chains(m, e) /\ m[e].next = x
      BY <1>1, <1>3 DEF Chained1
    <3> QED BY <1>4, <3>1
  <2>4. \A x \in s \cup {b} : n[x].live
    BY <1>1, <1>2, <1>3 DEF Chained1, CellShape
  <2> QED BY <2>1, <2>2, <2>3, <2>4 DEF Chained1
<1>7. ASSUME NEW e \in Cell, n[e].live PROVE Keeps(Data(n, e), w[e], e, l)
  <2>1. CellAt(n, e) = CellAt(m, e) /\ CellAt(m, e) # b
    BY <1>2, <1>4 DEF CellAt, Chains
  <2>2. Data(n, e) = Data(m, e) /\ m[e].live
    BY <1>2, <1>3, <1>4, <1>7, <2>1 DEF Data
  <2> QED BY <2>2 DEF CellsHold
<1> QED BY <1>1, <1>5, <1>6, <1>7 DEF CellsHold, Contents

\* A new block takes c's value, and the record k, which c has from then on, leads to it.
LEMMA ChainedTo ==
  ASSUME NEW m, NEW w, NEW l, NEW s, CellsHold(m, w, l, s),
         NEW c \in Cell, ~Chains(m, c), NEW v \in Contents, NEW l2, Besides(l, c, l2),
         NEW b \in CellBlock, ~m[b].live,
         NEW d, IsBlock(d), Keeps(d, v, c, l2),
         NEW k, IsBlock(k), k.live, k.type = CellChained, k.next = b,
         NEW n, Chaining(m, b, d, c, k, n),
         NEW w2, Sets(w, c, v, w2)
  PROVE  CellsHold(n, w2, l2, s)
<1>1. CellShape(m, l, s) /\ Chained1(m, s) /\ w \in [Cell -> Contents]
  BY DEF CellsHold, Contents
<1>2. /\ b \notin Cell /\ b \notin s /\ b # c /\ c \notin CellBlock
      /\ \A e \in Cell : CellAt(m, e) \in Cell \cup CellBlock
      /\ \A e \in Cell : e # c => CellAt(m, e) # c
  <2>1. b \notin Cell /\ b \notin s /\ b # c /\ c \notin CellBlock
    BY <1>1, CellAssumption DEF Chained1
  <2>2. \A e \in Cell : CellAt(m, e) \in Cell \cup CellBlock
    BY <1>1, BlocksApart
  <2>3. \A e \in Cell : e # c => CellAt(m, e) # c
    BY <1>1, BlocksApart
  <2> QED BY <2>1, <2>2, <2>3
<1>3. /\ n[b] = d /\ n[c] = k
      /\ \A x \in Cell \cup CellBlock : x # b /\ x # c => n[x] = m[x]
      /\ n = [x \in Cell \cup CellBlock |-> n[x]]
  BY <1>1, <1>2 DEF CellShape, Chaining
<1>4. /\ \A e \in Cell : e # c => n[e] = m[e] /\ (Chains(n, e) <=> Chains(m, e)) /\ (Chains(m, e) => m[e].next # b)
      /\ Chains(n, c)
  BY <1>1, <1>2, <1>3 DEF Chains, Chained1
<1>5. CellShape(n, l2, s)
  BY <1>1, <1>2, <1>3 DEF CellShape, Besides
<1>6. w2 \in [Cell -> Contents] /\ w2[c] = v /\ \A e \in Cell : e # c => w2[e] = w[e]
  BY <1>1 DEF Sets
<1>7. d.live
  BY DEF Keeps
<1>8. Chained1(n, s)
  <2>1. \A e \in Cell : Chains(n, e) => n[e].live /\ n[e].next \in CellBlock /\ n[e].next \notin s /\ n[n[e].next].live
    <3> TAKE e \in Cell
    <3>1. CASE e = c
      BY <1>2, <1>3, <1>7, <3>1
    <3>2. CASE e # c
      <4>1. Chains(m, e) => m[e].live /\ m[e].next \in CellBlock /\ m[e].next \notin s /\ m[m[e].next].live
        BY <1>1 DEF Chained1
      <4> QED BY <1>2, <1>3, <1>4, <3>2, <4>1
    <3> QED BY <3>1, <3>2
  <2>2. \A e, f \in Cell : Chains(n, e) /\ Chains(n, f) /\ n[e].next = n[f].next => e = f
    BY <1>1, <1>3, <1>4 DEF Chained1
  <2>3. ASSUME NEW x \in CellBlock, n[x].live PROVE x \in s \/ \E e \in Cell : Chains(n, e) /\ n[e].next = x
    <3>1. CASE x = b
      BY <1>3, <1>4, <3>1
    <3>2. CASE x # b
      <4>1. n[x] = m[x]
        BY <1>2, <1>3, <3>2
      <4>2. x \in s \/ \E e \in Cell : Chains(m, e) /\ m[e].next = x
        BY <1>1, <2>3, <4>1 DEF Chained1
      <4> QED BY <1>4, <4>2
    <3> QED BY <3>1, <3>2
  <2>4. \A x \in s : n[x].live
    BY <1>1, <1>2, <1>3 DEF Chained1, CellShape
  <2> QED BY <2>1, <2>2, <2>3, <2>4 DEF Chained1
<1>9. /\ CellAt(n, c) = b
      /\ \A e \in Cell : e # c => CellAt(n, e) = CellAt(m, e) /\ CellAt(m, e) # b
  BY <1>2, <1>3, <1>4 DEF CellAt, Chains
<1>10. ASSUME NEW e \in Cell, n[e].live PROVE Keeps(Data(n, e), w2[e], e, l2)
  <2>1. CASE e = c
    <3>1. Data(n, c) = d /\ w2[c] = v
      BY <1>3, <1>6, <1>9 DEF Data
    <3> QED BY <2>1, <3>1
  <2>2. CASE e # c
    <3>1. w2[e] = w[e] /\ m[e].live
      BY <1>4, <1>6, <1>10, <2>2
    <3>2. CellAt(n, e) = CellAt(m, e) /\ n[CellAt(m, e)] = m[CellAt(m, e)]
      BY <1>2, <1>3, <1>9, <2>2
    <3>3. Data(n, e) = Data(m, e)
      BY <3>2 DEF Data
    <3>4. (e \in l2) <=> (e \in l)
      BY <2>2 DEF Besides
    <3>5. Keeps(Data(m, e), w[e], e, l)
      BY <3>1 DEF CellsHold
    <3> QED BY <3>1, <3>3, <3>4, <3>5 DEF Keeps
  <2> QED BY <2>1, <2>2
<1> QED BY <1>5, <1>6, <1>8, <1>10 DEF CellsHold, Contents

-----------------------------------------------------------------------------
(* Descriptors and their sizes. *)

LEMMA BlobTypes ==
  ASSUME NEW t \in CellTypes
  PROVE  /\ t \in Type /\ (t.fam = "TEXT" => ~t.var)
         /\ IsBlob(t) => /\ t \in BlobType /\ t.w \in 1 .. Widest
                         /\ CellHead[t.w] \in Nat /\ MaxOf[t.w] \in Nat \ {0}
                         /\ Hdr + CellHead[t.w] <= LocalRoom
         /\ ~IsBlob(t) => t \in {NullType, IntType, CellChained} /\ ~t.var
<1>1. t \in Type /\ (t.fam = "TEXT" => ~t.var)
  BY DEF CellTypes
<1>2. ASSUME IsBlob(t)
      PROVE  /\ t \in BlobType /\ t.w \in 1 .. Widest
             /\ CellHead[t.w] \in Nat /\ MaxOf[t.w] \in Nat \ {0}
             /\ Hdr + CellHead[t.w] <= LocalRoom
  <2>1. t \in BlobType
    BY <1>1, <1>2 DEF Type, IsBlob, NullType, IntType, CellChained, Plain
  <2>2. t.w \in 1 .. Widest
    BY <2>1, CellAssumption DEF BlobType
  <2>3. CellHead[t.w] \in Nat /\ MaxOf[t.w] \in Nat \ {0} /\ CellHead[t.w] <= CellHead[Widest]
    <3>1. t.w \in Width /\ Widest \in Width
      BY <2>2, CellAssumption
    <3>2. t.w < Widest \/ t.w = Widest
      BY <2>2, CellAssumption
    <3>3. CellHead[t.w] \in Nat /\ MaxOf[t.w] \in Nat \ {0} /\ CellHead[Widest] \in Nat
      BY <3>1, CellAssumption
    <3>4. t.w < Widest => CellHead[t.w] <= CellHead[Widest]
      BY <3>1, CellAssumption
    <3> QED BY <3>2, <3>3, <3>4
  <2>4. Hdr \in Nat /\ LocalRoom \in Nat /\ CellHead[Widest] \in Nat /\ Hdr + CellHead[Widest] <= LocalRoom
    BY CellAssumption
  <2> QED BY <2>1, <2>2, <2>3, <2>4
<1>3. ~IsBlob(t) => t \in {NullType, IntType, CellChained} /\ ~t.var
  BY <1>1 DEF Type, BlobType, IsBlob, NullType, IntType, CellChained, Plain
<1> QED BY <1>1, <1>2, <1>3

\* What VBLockData_Sizeof answers has room for the descriptor and the content.
LEMMA SizeofCovers ==
  ASSUME NEW t \in CellTypes, NEW k \in Nat
  PROVE  Sizeof(t, k) \in Nat /\ (IsBlob(t) => Hdr + CellHead[t.w] + k <= Sizeof(t, k))
<1>1. Hdr \in Nat /\ Ptr \in Nat
  BY CellAssumption
<1>2. SizeofUv(t, k) \in Nat /\ (IsBlob(t) => SizeofUv(t, k) = CellHead[t.w] + k)
  <2>1. CASE IsBlob(t)
    <3>1. SizeofUv(t, k) = CellHead[t.w] + k
      BY <2>1 DEF SizeofUv, IsBlob
    <3> QED BY <2>1, <3>1, BlobTypes
  <2>2. CASE ~IsBlob(t)
    <3>1. t \in {NullType, IntType, CellChained}
      BY <2>2, BlobTypes
    <3> QED BY <1>1, <2>2, <3>1 DEF SizeofUv, NullType, IntType, CellChained, Plain
  <2> QED BY <2>1, <2>2
<1> PICK u : u = SizeofUv(t, k)
  OBVIOUS
<1>3. Sizeof(t, k) = IF Hdr + u > Hdr + Ptr THEN Hdr + u ELSE Hdr + Ptr
  BY DEF Sizeof, Larger, SizeofMin
<1>4. Sizeof(t, k) \in Nat /\ Sizeof(t, k) >= Hdr + u
  BY <1>1, <1>2, <1>3
<1> QED BY <1>1, <1>2, <1>4, BlobTypes

\* The capacity InitBlob derives lies within the width; in a space that has room
\* for the descriptor it lies within the space, and counts what the space was asked for.
LEMMA CapacityIs ==
  ASSUME NEW t \in CellTypes, IsBlob(t), NEW r \in Nat
  PROVE  /\ Capacity(t, r) \in 0 .. MaxOf[t.w]
         /\ Hdr + CellHead[t.w] <= r => Hdr + CellHead[t.w] + Capacity(t, r) <= r
         /\ \A k \in 0 .. MaxOf[t.w] : Hdr + CellHead[t.w] + k <= r => k <= Capacity(t, r)
<1> PICK h, x : h = CellHead[t.w] /\ x = MaxOf[t.w]
  OBVIOUS
<1>1. h \in Nat /\ x \in Nat /\ Hdr \in Nat
  BY BlobTypes, CellAssumption
<1>2. Capacity(t, r) = IF r < Hdr + h THEN x ELSE IF x < r - Hdr - h THEN x ELSE r - Hdr - h
  BY <1>1 DEF Capacity, Smaller
<1>3. /\ Capacity(t, r) \in 0 .. x
      /\ Hdr + h <= r => Hdr + h + Capacity(t, r) <= r
      /\ \A k \in 0 .. x : Hdr + h + k <= r => k <= Capacity(t, r)
  BY <1>1, <1>2
<1> QED BY <1>3

LEMMA CellRoomIs ==
  ASSUME NEW r \in Nat
  PROVE  IsBlock(CellRoom(r)) /\ CellRoom(r).live /\ CellRoom(r).room = r
BY CellAssumption DEF IsBlock, CellRoom, Gone, VBLockSet, CellTypes, Type, NullType, CellChained, Plain, IsBlob

\* The fields of a block, one by one.
LEMMA BlockFields ==
  ASSUME NEW d
  PROVE  d \in VBLockSet <=>
           /\ d = [live |-> d.live, room |-> d.room, type |-> d.type, size |-> d.size,
                   used |-> d.used, val |-> d.val, next |-> d.next]
           /\ d.live \in BOOLEAN /\ d.room \in Nat /\ d.type \in Type /\ d.size \in Nat
           /\ d.used \in Nat /\ d.val \in CellValue \cup Number \cup {None}
           /\ d.next \in CellBlock \cup {None}
BY DEF VBLockSet

\* A block described for r units of space under the type t.
LEMMA DescribedIs ==
  ASSUME NEW x, IsBlock(x), NEW t \in CellTypes, NEW r \in Nat
  PROVE  /\ IsBlock(Described(x, t, r))
         /\ Described(x, t, r).live = x.live /\ Described(x, t, r).room = x.room
         /\ Described(x, t, r).type = t
         /\ IsBlob(t) => Described(x, t, r).size = Capacity(t, r) /\ Described(x, t, r).used = 0
<1>1. x \in VBLockSet
  BY DEF IsBlock
<1>2. None \in CellValue \cup Number \cup {None} /\ t \in Type
  BY DEF CellTypes
<1>3. CASE IsBlob(t)
  <2> PICK z : z = Capacity(t, r)
    OBVIOUS
  <2>1. z \in Nat /\ z <= MaxOf[t.w]
    <3>1. MaxOf[t.w] \in Nat /\ z \in 0 .. MaxOf[t.w]
      BY <1>3, CapacityIs, BlobTypes
    <3> QED BY <3>1
  <2>2. Described(x, t, r) = [x EXCEPT !.type = t, !.size = z, !.used = 0, !.val = None]
    BY <1>3 DEF Described
  <2> PICK y : y = [x EXCEPT !.type = t, !.size = z, !.used = 0, !.val = None]
    OBVIOUS
  <2>3. y \in VBLockSet /\ y.live = x.live /\ y.room = x.room /\ y.type = t /\ y.size = z /\ y.used = 0
    BY <1>1, <1>2, <2>1 DEF VBLockSet
  <2>4. IsBlock(y)
    BY <2>1, <2>3 DEF IsBlock
  <2> QED BY <2>2, <2>3, <2>4
<1>4. CASE ~IsBlob(t)
  <2>2. Described(x, t, r) = [x EXCEPT !.type = t, !.val = None]
    BY <1>4 DEF Described
  <2> PICK y : y = [x EXCEPT !.type = t, !.val = None]
    OBVIOUS
  <2>3. y \in VBLockSet /\ y.live = x.live /\ y.room = x.room /\ y.type = t
    BY <1>1, <1>2 DEF VBLockSet
  <2>4. IsBlock(y)
    BY <1>4, <2>3 DEF IsBlock
  <2> QED BY <1>4, <2>2, <2>3, <2>4
<1> QED BY <1>3, <1>4

\* A content that the descriptor counts, written in place.
LEMMA CopiedInPlace ==
  ASSUME NEW x, IsBlock(x), IsBlob(x.type), x.live, NEW v \in CellValue, CellLen[v] <= x.size
  PROVE  /\ IsBlock(BlobCopied(x, v)) /\ BlobCopied(x, v).type = x.type /\ BlobCopied(x, v).live
         /\ Fits(x) => \A c, l : Keeps(BlobCopied(x, v), v, c, l)
         /\ x.size = 0 \/ Fits(x) =>
               \A c, l : (DescriptorFits(x) \/ c \in l) => Keeps(BlobCopied(x, v), v, c, l)
<1>1. x \in VBLockSet /\ x.size <= MaxOf[x.type.w] /\ x.type \in CellTypes
  BY DEF IsBlock
<1> PICK n : n = CellLen[v]
  OBVIOUS
<1>2. n \in Nat /\ n <= x.size /\ x.size \in Nat /\ x.room \in Nat
  BY <1>1, CellAssumption DEF VBLockSet
<1> PICK y : y = BlobCopied(x, v)
  OBVIOUS
<1>3. /\ y \in VBLockSet /\ y.live /\ y.room = x.room /\ y.type = x.type /\ y.size = x.size
      /\ y.used = n /\ y.val = v
  BY <1>1, <1>2 DEF BlobCopied, VBLockSet
<1>4. IsBlock(y)
  BY <1>1, <1>3 DEF IsBlock
<1>5. x.type # CellChained
  BY DEF CellChained, Plain, IsBlob
<1> PICK h, k : h = CellHead[x.type.w] /\ k = MaxOf[x.type.w]
  OBVIOUS
<1>6. h \in Nat /\ k \in Nat /\ Hdr \in Nat
  BY <1>1, BlobTypes, CellAssumption
<1>7. Fits(y) <=> Fits(x)
  BY <1>3 DEF Fits
<1>8. y.used <= y.size /\ y.used <= MaxOf[y.type.w]
  BY <1>1, <1>2, <1>3, <1>6
<1>9. Fits(x) => \A c, l : Keeps(y, v, c, l)
  BY <1>3, <1>5, <1>7, <1>8 DEF Keeps
<1>10. x.size = 0 \/ Fits(x) => \A c, l : (DescriptorFits(x) \/ c \in l) => Keeps(y, v, c, l)
  <2>1. x.size = 0 /\ DescriptorFits(x) => Fits(x)
    BY <1>2, <1>6 DEF DescriptorFits, Fits
  <2>2. ASSUME x.size = 0 \/ Fits(x), NEW c, NEW l, c \in l PROVE Keeps(y, v, c, l)
    BY <1>3, <1>5, <1>7, <1>8, <2>2 DEF Keeps
  <2> QED BY <1>9, <2>1, <2>2
<1> QED BY <1>3, <1>4, <1>9, <1>10

\* A content in a block that was asked for it.
LEMMA WrittenAnew ==
  ASSUME NEW x, IsBlock(x), x.live, NEW t \in CellTypes, IsBlob(t),
         NEW v \in CellValue, CellLen[v] <= MaxOf[t.w], Sizeof(t, CellLen[v]) <= x.room
  PROVE  LET y == BlobCopied(Described(x, t, x.room), v)
         IN  IsBlock(y) /\ y.live /\ y.type = t /\ DescriptorFits(y) /\ \A c, l : Keeps(y, v, c, l)
<1>1. x.room \in Nat
  BY DEF IsBlock, VBLockSet
<1> PICK z : z = Described(x, t, x.room)
  OBVIOUS
<1>2. IsBlock(z) /\ z.live /\ z.room = x.room /\ z.type = t /\ z.size = Capacity(t, x.room)
  BY <1>1, DescribedIs
<1> PICK n, h, k : n = CellLen[v] /\ h = CellHead[t.w] /\ k = MaxOf[t.w]
  OBVIOUS
<1>3. n \in Nat /\ h \in Nat /\ k \in Nat /\ Hdr \in Nat /\ n <= k
  BY BlobTypes, CellAssumption
<1>4. Hdr + h + n <= x.room
  <2>1. Sizeof(t, n) \in Nat /\ Hdr + h + n <= Sizeof(t, n) /\ Sizeof(t, n) <= x.room
    BY <1>3, SizeofCovers
  <2> QED BY <1>1, <1>3, <2>1
<1>5. z.size \in Nat /\ n <= z.size /\ Hdr + h + z.size <= x.room
  <2>1. /\ z.size \in 0 .. k
        /\ Hdr + h <= x.room => Hdr + h + z.size <= x.room
        /\ \A j \in 0 .. k : Hdr + h + j <= x.room => j <= z.size
    BY <1>1, <1>2, CapacityIs
  <2> QED BY <1>1, <1>3, <1>4, <2>1
<1>6. Fits(z) /\ IsBlob(z.type)
  BY <1>2, <1>5 DEF Fits
<1> PICK y : y = BlobCopied(z, v)
  OBVIOUS
<1>7. IsBlock(y) /\ y.live /\ y.type = t /\ \A c, l : Keeps(y, v, c, l)
  BY <1>2, <1>5, <1>6, CopiedInPlace
<1>8. DescriptorFits(y)
  <2>1. y.room = x.room
    BY <1>2 DEF BlobCopied, IsBlock, VBLockSet
  <2> QED BY <1>1, <1>3, <1>4, <1>7, <2>1 DEF DescriptorFits
<1> QED BY <1>7, <1>8

\* The copy of a block into one that has room for what VBLockData_Sizeof answers.
LEMMA CopyKeeps ==
  ASSUME NEW x, IsBlock(x), x.live, NEW s, IsBlock(s), NEW v, NEW e, NEW l,
         Keeps(s, v, e, l), SizeofData(s) <= x.room
  PROVE  /\ IsBlock(Copied(x, s)) /\ Copied(x, s).live /\ Copied(x, s).type = s.type
         /\ \A c, l2 : (c \in l2 <=> e \in l) => Keeps(Copied(x, s), s.val, c, l2)
<1>1. /\ x \in VBLockSet /\ s \in VBLockSet /\ s.type \in CellTypes
      /\ s.type \in Type /\ s.used \in Nat /\ s.size \in Nat /\ x.room \in Nat
      /\ s.val \in CellValue \cup Number \cup {None}
  BY DEF IsBlock, VBLockSet
<1> PICK z : z = IF s.type.var THEN s.size ELSE s.used
  OBVIOUS
<1> PICK y : y = Copied(x, s)
  OBVIOUS
<1>2. z \in Nat
  BY <1>1
<1>3. /\ y \in VBLockSet /\ y.live /\ y.room = x.room /\ y.type = s.type /\ y.size = z
      /\ y.used = s.used /\ y.val = s.val
  <2>1. y = [x EXCEPT !.type = s.type, !.used = s.used, !.val = s.val, !.size = z]
    BY DEF Copied
  <2> QED BY <1>1, <1>2, <2>1 DEF VBLockSet
<1>4. y.val = s.val
  BY <1>3
<1>5. s.type # CellChained
  BY DEF Keeps
<1>6. CASE ~IsBlob(s.type)
  BY <1>1, <1>3, <1>4, <1>5, <1>6 DEF Keeps, IsBlock
<1>7. CASE IsBlob(s.type)
  <2> PICK h, k : h = CellHead[s.type.w] /\ k = MaxOf[s.type.w]
    OBVIOUS
  <2>1. h \in Nat /\ k \in Nat /\ Hdr \in Nat /\ s.type \in BlobType
    BY <1>1, <1>7, BlobTypes, CellAssumption
  <2>2. s.size <= k /\ s.used <= k
    BY <1>7 DEF IsBlock, Keeps
  <2>3. Hdr + h + z <= x.room
    <3>1. SizeofData(s) = Sizeof(s.type, z)
      <4>1. s.type.var => s.type.fam = "BLOB"
        BY <1>1, <1>7, BlobTypes DEF IsBlob
      <4> QED BY <4>1, <2>1 DEF SizeofData, BlobType
    <3>2. Sizeof(s.type, z) \in Nat /\ Hdr + h + z <= Sizeof(s.type, z)
      BY <1>1, <1>2, <1>7, SizeofCovers
    <3> QED BY <1>1, <1>2, <2>1, <3>1, <3>2
  <2>4. Fits(y)
    BY <1>3, <2>3 DEF Fits
  <2>5. y.size <= MaxOf[y.type.w] /\ y.used <= MaxOf[y.type.w]
    BY <1>3, <2>2
  <2>6. e \notin l => y.used <= y.size
    <3>1. e \notin l => s.used <= s.size
      BY <1>7 DEF Keeps
    <3> QED BY <1>1, <1>3, <3>1
  <2>7. IsBlock(y)
    BY <1>1, <1>3, <2>5 DEF IsBlock
  <2> QED BY <1>3, <1>4, <1>5, <2>4, <2>5, <2>6, <2>7 DEF Keeps
<1> QED BY <1>6, <1>7

\* A widened type is of the same family, and no narrower.
LEMMA WidenedIs ==
  ASSUME NEW t \in CellTypes, IsBlob(t), NEW n \in Nat
  PROVE  Widened(t, n) \in CellTypes /\ IsBlob(Widened(t, n)) /\ CellHead[t.w] <= CellHead[Widened(t, n).w]
<1>1. t \in BlobType /\ t.w \in 1 .. Widest /\ Widest \in Nat /\ (t.fam = "TEXT" => ~t.var)
  BY BlobTypes, CellAssumption
<1> DEFINE Enough(u) == MaxOf[u] >= n \/ u = Widest
<1> DEFINE R == {u \in t.w .. Widest : Enough(u)}
<1>2. \E u \in t.w .. Widest :
        /\ MaxOf[u] >= n \/ u = Widest
        /\ \A s \in t.w .. u - 1 : MaxOf[s] < n
  <2>1. R # {} /\ IsFiniteSet(R)
    <3>1. Widest \in R
      BY <1>1
    <3>2. IsFiniteSet(t.w .. Widest)
      BY <1>1, FS_Interval
    <3> QED BY <3>1, <3>2, FS_Subset
  <2>2. PICK u \in R : \A x \in R : u <= x
    <3> DEFINE rank == [x \in R |-> x]
    <3>1. \A x \in R : rank[x] \in Int
      BY <1>1
    <3>2. \E u \in R : \A x \in R : rank[u] <= rank[x]
      <4> HIDE DEF rank, R
      <4> QED BY <2>1, <3>1, LeastRank
    <3> QED BY <3>2
  <2>3. ASSUME NEW s \in t.w .. u - 1 PROVE MaxOf[s] < n
    <3>1. s \in t.w .. Widest /\ s \in Nat /\ s < u /\ u \in Nat /\ s # Widest
      BY <1>1, <2>2
    <3>2. s \notin R
      BY <2>2, <3>1
    <3>3. ~(MaxOf[s] >= n)
      BY <3>1, <3>2
    <3>4. MaxOf[s] \in Nat
      BY <1>1, <3>1, CellAssumption
    <3> QED BY <3>3, <3>4
  <2> QED BY <2>2, <2>3
<1> DEFINE c == CHOOSE u \in t.w .. Widest :
                   /\ MaxOf[u] >= n \/ u = Widest
                   /\ \A s \in t.w .. u - 1 : MaxOf[s] < n
<1>3. c \in t.w .. Widest
  BY <1>2
<1>4. Widened(t, n) = [t EXCEPT !.w = c]
  BY DEF Widened
<1> HIDE DEF c
<1> PICK y : y = [t EXCEPT !.w = c]
  OBVIOUS
<1>5. y \in BlobType /\ y.fam = t.fam /\ y.var = t.var /\ y.w = c
  <2>1. c \in Width
    BY <1>1, <1>3, CellAssumption
  <2> QED BY <1>1, <2>1 DEF BlobType
<1>6. y \in CellTypes /\ IsBlob(y)
  BY <1>1, <1>5 DEF CellTypes, Type, IsBlob
<1>7. CellHead[t.w] <= CellHead[c]
  <2>1. t.w \in Width /\ c \in Width /\ (t.w < c \/ t.w = c)
    BY <1>1, <1>3, CellAssumption
  <2>2. t.w < c => CellHead[t.w] <= CellHead[c]
    BY <2>1, CellAssumption
  <2>3. CellHead[t.w] \in Nat
    BY <2>1, CellAssumption
  <2> QED BY <2>1, <2>2, <2>3
<1> QED BY <1>4, <1>5, <1>6, <1>7

-----------------------------------------------------------------------------
(* Growing: the chain is given back first. *)

\* What c has once its chain was freed, and what it has when it leads to b.
Freed(m, c) == [m[c] EXCEPT !.type = Data(m, c).type, !.size = 0, !.used = 0, !.val = None, !.next = None]
Leading(x, b) == [x EXCEPT !.type = CellChained, !.size = 0, !.used = 0, !.val = None, !.next = b]

\* The cells that may hold nothing any more once c's chain was freed.
LostWith(m, l, c) == IF Chains(m, c) THEN l \cup {c} ELSE l

LEMMA UnchainIs ==
  ASSUME NEW m, NEW c
  PROVE  Unchain(m, c) = IF Chains(m, c) THEN [m EXCEPT ![c] = Freed(m, c), ![m[c].next] = Gone] ELSE m
BY DEF Unchain, Chains, Freed

\* The block of a live cell, as the invariant describes it.
LEMMA DataIs ==
  ASSUME NEW m, NEW w, NEW l, NEW s, CellsHold(m, w, l, s), NEW c \in Cell
  PROVE  /\ m[c] \in VBLockSet /\ IsBlock(m[c]) /\ IsBlock(Data(m, c)) /\ w[c] \in Contents
         /\ Chains(m, c) => m[c].live
         /\ m[c].live => Data(m, c).live /\ Data(m, c).type # CellChained
                         /\ Keeps(Data(m, c), w[c], c, l)
         /\ Data(m, c).val \in Contents /\ Data(m, c).room \in Nat
<1>1. CellShape(m, l, s) /\ Chained1(m, s) /\ w \in [Cell -> Contents]
  BY DEF CellsHold, Contents
<1>2. CellAt(m, c) \in Cell \cup CellBlock
  BY <1>1, BlocksApart
<1>3. IsBlock(m[c]) /\ IsBlock(Data(m, c))
  BY <1>1, <1>2 DEF CellShape, Data
<1>4. m[c] \in VBLockSet /\ Data(m, c) \in VBLockSet
  BY <1>3 DEF IsBlock
<1>5. Data(m, c).val \in Contents /\ Data(m, c).room \in Nat
  BY <1>4 DEF VBLockSet, Contents
<1>6. Chains(m, c) => m[c].live
  BY <1>1 DEF Chained1
<1>7. m[c].live => Keeps(Data(m, c), w[c], c, l)
  BY DEF CellsHold
<1>8. m[c].live => Data(m, c).live /\ Data(m, c).type # CellChained
  BY <1>7 DEF Keeps
<1> QED BY <1>1, <1>3, <1>4, <1>5, <1>6, <1>7, <1>8

LEMMA ShapeIs ==
  ASSUME NEW m, NEW w, NEW l, NEW s, CellsHold(m, w, l, s), NEW c \in Cell
  PROVE  m = [x \in Cell \cup CellBlock |-> m[x]] /\ (Chains(m, c) => m[c].next # c)
<1>1. CellShape(m, l, s) /\ Chained1(m, s)
  BY DEF CellsHold
<1>2. m = [x \in Cell \cup CellBlock |-> m[x]]
  BY <1>1 DEF CellShape
<1>3. Chains(m, c) => m[c].next \in CellBlock
  BY <1>1 DEF Chained1
<1> QED BY <1>2, <1>3, CellAssumption

\* A cell whose chain was freed: no content, and no capacity.
LEMMA FreedIs ==
  ASSUME NEW m, NEW w, NEW l, NEW s, CellsHold(m, w, l, s), NEW c \in Cell, Chains(m, c),
         NEW n \in {0, 1}, NEW y, y = [Freed(m, c) EXCEPT !.used = n]
  PROVE  IsBlock(y) /\ y.live /\ y.type = Data(m, c).type /\ y.type # CellChained
         /\ \A l2 : c \in l2 => Keeps(y, w[c], c, l2)
<1>1. /\ m[c] \in VBLockSet /\ m[c].live /\ IsBlock(Data(m, c)) /\ Data(m, c).type # CellChained
  BY DataIs
<1> PICK t : t = Data(m, c).type
  OBVIOUS
<1>2. t \in CellTypes /\ t \in Type /\ t # CellChained
  BY <1>1 DEF IsBlock, CellTypes
<1>3. y = [m[c] EXCEPT !.type = t, !.size = 0, !.used = n, !.val = None, !.next = None]
  BY <1>1 DEF Freed, VBLockSet
<1>4. y \in VBLockSet /\ y.live /\ y.type = t /\ y.size = 0 /\ y.used = n /\ y.val = None
  <2> PICK x : x = m[c]
    OBVIOUS
  <2>1. x \in VBLockSet /\ x.live /\ n \in Nat /\ 0 \in Nat
    BY <1>1
  <2>2. y = [x EXCEPT !.type = t, !.size = 0, !.used = n, !.val = None, !.next = None]
    BY <1>3
  <2> QED BY ONLY <1>2, <2>1, <2>2 DEF VBLockSet
<1>5. IsBlob(t) => n <= MaxOf[t.w] /\ 0 <= MaxOf[t.w]
  <2>1. IsBlob(t) => MaxOf[t.w] \in Nat \ {0}
    BY <1>2, BlobTypes
  <2> QED BY <2>1
<1> QED BY <1>2, <1>4, <1>5 DEF IsBlock, Keeps

LEMMA UnchainKeeps ==
  ASSUME NEW m, NEW w, NEW l, NEW s, CellsHold(m, w, l, s), NEW c \in Cell
  PROVE  /\ CellsHold(Unchain(m, c), w, LostWith(m, l, c), s)
         /\ ~Chains(Unchain(m, c), c)
         /\ Unchain(m, c)[c].type = Data(m, c).type
         /\ Unchain(m, c)[c].live = m[c].live
<1> PICK n : n = Unchain(m, c)
  OBVIOUS
<1>1. CASE ~Chains(m, c)
  <2>1. n = m /\ LostWith(m, l, c) = l
    BY <1>1, UnchainIs DEF LostWith
  <2>2. Data(m, c) = m[c]
    BY <1>1 DEF Data, CellAt, Chains
  <2> QED BY <1>1, <2>1, <2>2
<1>2. CASE Chains(m, c)
  <2> PICK y : y = [Freed(m, c) EXCEPT !.used = 0]
    OBVIOUS
  <2>1. IsBlock(y) /\ y.live /\ y.type = Data(m, c).type /\ y.type # CellChained
         /\ \A l2 : c \in l2 => Keeps(y, w[c], c, l2)
    BY <1>2, FreedIs
  <2>2. y = Freed(m, c)
    <3>1. m[c] \in VBLockSet
      BY DataIs
    <3> QED BY <3>1 DEF Freed, VBLockSet
  <2>3. Frees(m, c, y, n)
    BY <1>2, <2>2, UnchainIs DEF Frees
  <2>4. w[c] \in Contents /\ m[c].live
    BY <1>2, DataIs
  <2> PICK l2 : l2 = LostWith(m, l, c)
    OBVIOUS
  <2>6. Sets(w, c, w[c], w) /\ Besides(l, c, l2) /\ c \in l2
    BY <1>2 DEF CellsHold, CellShape, Besides, LostWith, Sets
  <2>5. CellsHold(n, w, l2, s)
    BY <1>2, <2>1, <2>3, <2>4, <2>6, LetGoOf
  <2>7. n[c] = y
    <3>1. m[c].next # c /\ m = [x \in Cell \cup CellBlock |-> m[x]]
      BY <1>2, ShapeIs
    <3> QED BY <2>3, <3>1 DEF Frees
  <2> QED BY <2>1, <2>4, <2>5, <2>7 DEF Chains
<1> QED BY <1>1, <1>2

LEMMA RefusedKeeps ==
  ASSUME NEW m, NEW w, NEW l, NEW s, CellsHold(m, w, l, s), NEW c \in Cell, NEW g \in CellRefused(m, c)
  PROVE  ~g.ok /\ g.b = None /\ CellsHold(g.m, w, LostWith(m, l, c), s)
<1>1. CASE ~Chains(m, c)
  <2>1. g = [ok |-> FALSE, m |-> m, b |-> None]
    BY <1>1 DEF CellRefused, Chains
  <2> QED BY <1>1, <2>1 DEF LostWith
<1>2. CASE Chains(m, c)
  <2> PICK m0 : m0 = Unchain(m, c)
    OBVIOUS
  <2>1. PICK n \in {0, 1} : g = [ok |-> FALSE, m |-> [m0 EXCEPT ![c].used = n], b |-> None]
    BY <1>2 DEF CellRefused, Chains, Stale
  <2> PICK y : y = [Freed(m, c) EXCEPT !.used = n]
    OBVIOUS
  <2>2. IsBlock(y) /\ y.live /\ y.type # CellChained
         /\ \A l2 : c \in l2 => Keeps(y, w[c], c, l2)
    BY <1>2, FreedIs
  <2>3. m0 = [m EXCEPT ![c] = Freed(m, c), ![m[c].next] = Gone]
    BY <1>2, UnchainIs
  <2>4. m[c].next # c /\ m = [x \in Cell \cup CellBlock |-> m[x]]
    BY <1>2, ShapeIs
  <2>5. Frees(m, c, y, g.m)
    <3> PICK f : f = Freed(m, c)
      OBVIOUS
    <3>1. m0 = [m EXCEPT ![c] = f, ![m[c].next] = Gone] /\ y = [f EXCEPT !.used = n]
      BY <2>3
    <3>2. m0[c] = f
      BY <2>4, <3>1
    <3>3. g.m = [m0 EXCEPT ![c] = y]
      BY <2>1, <3>1, <3>2
    <3> QED BY <2>4, <3>1, <3>3 DEF Frees
  <2>6. w[c] \in Contents
    BY DataIs
  <2> PICK n2 : n2 = g.m
    OBVIOUS
  <2> PICK l2 : l2 = LostWith(m, l, c)
    OBVIOUS
  <2>7. Sets(w, c, w[c], w) /\ Besides(l, c, l2) /\ c \in l2
    BY <1>2 DEF CellsHold, CellShape, Besides, LostWith, Sets
  <2>8. CellsHold(n2, w, l2, s)
    BY <1>2, <2>2, <2>5, <2>6, <2>7, LetGoOf
  <2> QED BY <2>1, <2>8
<1> QED BY <1>1, <1>2

LEMMA LeadingIs ==
  ASSUME NEW x, IsBlock(x), x.live, NEW b \in CellBlock
  PROVE  LET k == Leading(x, b) IN IsBlock(k) /\ k.live /\ k.type = CellChained /\ k.next = b
<1> PICK k : k = Leading(x, b)
  OBVIOUS
<1>1. x \in VBLockSet
  BY DEF IsBlock
<1>2. k \in VBLockSet /\ k.live /\ k.type = CellChained /\ k.next = b
  BY <1>1 DEF Leading, VBLockSet, Type
<1>3. ~IsBlob(CellChained) /\ CellChained \in CellTypes
  BY DEF CellChained, Plain, IsBlob, CellTypes, Type
<1> QED BY <1>2, <1>3 DEF IsBlock

\* Whatever is put into the block that was granted, c holds it.
TakesAny(g, w, l, s, c) ==
    \A y, v, l2, mm, w2 :
       IsBlock(y) /\ v \in Contents /\ Besides(l, c, l2) /\ Keeps(y, v, c, l2)
         /\ Sets(g.m, g.b, y, mm) /\ Sets(w, c, v, w2) =>
         CellsHold(mm, w2, l2, s) /\ Data(mm, c) = y

\* A heap that had the block: what is put there is what c holds.
LEMMA GrantedKeeps ==
  ASSUME NEW m, NEW w, NEW l, NEW s, CellsHold(m, w, l, s), NEW c \in Cell, m[c].live,
         NEW n \in Nat, NEW g \in Granted(m, c, n)
  PROVE  /\ ~g.ok => g.b \in CellBlock /\ CellsHold(g.m, w, LostWith(m, l, c), s \cup {g.b})
         /\ g.ok => /\ IsBlock(g.m[g.b]) /\ g.m[g.b].live
                    /\ g.m[g.b].room \in Nat /\ n <= g.m[g.b].room
         /\ g.ok => TakesAny(g, w, l, s, c)
<1> PICK m0 : m0 = Unchain(m, c)
  OBVIOUS
<1> PICK t : t = m0[c].type
  OBVIOUS
<1>1. /\ CellsHold(m0, w, LostWith(m, l, c), s) /\ ~Chains(m0, c) /\ m0[c].live
      /\ IsBlock(m0[c]) /\ t \in CellTypes /\ m0 = [x \in Cell \cup CellBlock |-> m0[x]]
  <2>1. CellsHold(m0, w, LostWith(m, l, c), s) /\ ~Chains(m0, c) /\ m0[c].live
    BY UnchainKeeps
  <2>2. IsBlock(m0[c])
    BY <2>1, DataIs
  <2> QED BY <2>1, <2>2 DEF IsBlock, CellsHold, CellShape
<1>2. \E b \in {x \in CellBlock : ~m0[x].live}, r \in n .. n + Slack :
        g = IF InitFits(t, n)
            THEN [ok |-> TRUE, b |-> b,
                  m |-> [m0 EXCEPT ![b] = Described(CellRoom(r), t, n), ![c] = Leading(m0[c], b)]]
            ELSE [ok |-> FALSE, b |-> b, m |-> [m0 EXCEPT ![b] = CellRoom(r)]]
  <2> DEFINE B == {x \in CellBlock : ~Unchain(m, c)[x].live}
  <2>1. PICK b \in B, r \in n .. n + Slack : g = Offered(Unchain(m, c), c, n, b, r)
    BY DEF Granted
  <2>2. b # c
    BY CellAssumption
  <2> PICK d : d = Described(CellRoom(r), t, n)
    OBVIOUS
  <2>3. [m0 EXCEPT ![b] = d, ![c] = [@ EXCEPT !.type = CellChained, !.size = 0, !.used = 0,
                                                !.val = None, !.next = b]]
        = [m0 EXCEPT ![b] = d, ![c] = Leading(m0[c], b)]
    BY <1>1, <2>2 DEF Leading
  <2>4. g = Offered(m0, c, n, b, r) /\ b \in {x \in CellBlock : ~m0[x].live}
    BY <2>1
  <2>5. g = IF InitFits(t, n)
            THEN [ok |-> TRUE, b |-> b,
                  m |-> [m0 EXCEPT ![b] = Described(CellRoom(r), t, n), ![c] = Leading(m0[c], b)]]
            ELSE [ok |-> FALSE, b |-> b, m |-> [m0 EXCEPT ![b] = CellRoom(r)]]
    <3>1. g = IF InitFits(t, n)
              THEN [ok |-> TRUE, b |-> b,
                    m |-> [m0 EXCEPT ![b] = d, ![c] = [@ EXCEPT !.type = CellChained, !.size = 0, !.used = 0,
                                                !.val = None, !.next = b]]]
              ELSE [ok |-> FALSE, b |-> b, m |-> [m0 EXCEPT ![b] = CellRoom(r)]]
      BY <2>4, Zenon DEF Offered
    <3> QED BY <2>3, <3>1, Zenon
  <2> QED BY <2>1, <2>4, <2>5
<1> PICK b \in {x \in CellBlock : ~m0[x].live}, r \in n .. n + Slack :
      g = IF InitFits(t, n)
          THEN [ok |-> TRUE, b |-> b,
                m |-> [m0 EXCEPT ![b] = Described(CellRoom(r), t, n), ![c] = Leading(m0[c], b)]]
          ELSE [ok |-> FALSE, b |-> b, m |-> [m0 EXCEPT ![b] = CellRoom(r)]]
  BY <1>2
<1>3. r \in Nat /\ n <= r /\ b \in CellBlock /\ ~m0[b].live /\ b # c
  BY CellAssumption
<1> PICK z : z = CellRoom(r)
  OBVIOUS
<1>4. IsBlock(z) /\ z.live /\ z.room = r
  BY <1>3, CellRoomIs
<1>5. CASE ~InitFits(t, n)
  <2>1. ~g.ok /\ g.b = b /\ Sets(m0, b, z, g.m)
    BY <1>2, <1>5 DEF Sets
  <2> PICK n2, l0 : n2 = g.m /\ l0 = LostWith(m, l, c)
    OBVIOUS
  <2>2. CellsHold(n2, w, LostWith(m, l, c), s \cup {b})
    BY <1>1, <1>3, <1>4, <2>1, LeftBehind
  <2> QED BY <1>3, <2>1, <2>2
<1>6. CASE InitFits(t, n)
  <2> PICK d, k : d = Described(z, t, n) /\ k = Leading(m0[c], b)
    OBVIOUS
  <2>1. g.ok /\ g.b = b /\ g.m = [m0 EXCEPT ![b] = d, ![c] = k]
    BY <1>2, <1>6
  <2>2. IsBlock(d) /\ d.live /\ d.room = r
    BY <1>1, <1>4, DescribedIs
  <2>3. IsBlock(k) /\ k.live /\ k.type = CellChained /\ k.next = b
    BY <1>1, <1>3, LeadingIs
  <2>4. g.m[b] = d
    BY <1>1, <1>3, <2>1
  <2>5. ASSUME NEW y, NEW v, NEW l2, NEW mm, NEW w2, IsBlock(y), v \in Contents, Besides(l, c, l2),
               Keeps(y, v, c, l2), Sets(g.m, g.b, y, mm), Sets(w, c, v, w2)
        PROVE  CellsHold(mm, w2, l2, s) /\ Data(mm, c) = y
    <3>1. mm = [m0 EXCEPT ![b] = y, ![c] = k] /\ mm[c] = k /\ mm[b] = y
      <4> PICK p : p = g.m
        OBVIOUS
      <4>1. p = [m0 EXCEPT ![b] = d, ![c] = k] /\ mm = [p EXCEPT ![b] = y]
        BY <2>1, <2>5 DEF Sets
      <4>2. m0 = [x \in Cell \cup CellBlock |-> m0[x]] /\ b \in CellBlock /\ c \in Cell /\ b # c
        BY <1>1, <1>3
      <4> PICK q : q = [m0 EXCEPT ![b] = y, ![c] = k]
        OBVIOUS
      <4> DEFINE S == Cell \cup CellBlock
      <4>3. /\ p = [x \in S |-> p[x]] /\ p[c] = k
            /\ \A x \in S : x # b /\ x # c => p[x] = m0[x]
        BY ONLY <4>1, <4>2
      <4>4. /\ mm = [x \in S |-> mm[x]] /\ mm[b] = y /\ mm[c] = k
            /\ \A x \in S : x # b /\ x # c => mm[x] = m0[x]
        BY ONLY <4>1, <4>2, <4>3
      <4>5. /\ q = [x \in S |-> q[x]] /\ q[b] = y /\ q[c] = k
            /\ \A x \in S : x # b /\ x # c => q[x] = m0[x]
        BY ONLY <4>2, q = [m0 EXCEPT ![b] = y, ![c] = k]
      <4>6. mm = q
        <5>1. \A x \in S : mm[x] = q[x]
          BY <4>4, <4>5
        <5> HIDE DEF S
        <5> QED BY <4>4, <4>5, <5>1
      <4> QED BY <4>4, <4>6
    <3> PICK l0 : l0 = LostWith(m, l, c)
      OBVIOUS
    <3>2. CellsHold(mm, w2, l2, s)
      <4>1. CellsHold(m0, w, l0, s) /\ ~Chains(m0, c) /\ ~m0[b].live /\ b \in CellBlock
        BY <1>1, <1>3
      <4>2. IsBlock(k) /\ k.live /\ k.type = CellChained /\ k.next = b
        BY <2>3
      <4>3. IsBlock(y) /\ v \in Contents /\ Keeps(y, v, c, l2) /\ Sets(w, c, v, w2)
        BY <2>5
      <4>4. Chaining(m0, b, y, c, k, mm)
        BY <3>1 DEF Chaining
      <4>5. Besides(l0, c, l2)
        BY <2>5 DEF Besides, LostWith
      <4> QED BY ONLY <4>1, <4>2, <4>3, <4>4, <4>5, c \in Cell, ChainedTo
    <3>3. Data(mm, c) = y
      BY <2>3, <3>1 DEF Data, CellAt
    <3> QED BY <3>2, <3>3
  <2>6. n <= g.m[b].room /\ g.m[b].room \in Nat
    BY <1>3, <2>2, <2>4
  <2>7. TakesAny(g, w, l, s, c)
    BY <2>5 DEF TakesAny
  <2>8. IsBlock(g.m[g.b]) /\ g.m[g.b].live /\ g.m[g.b].room \in Nat /\ n <= g.m[g.b].room
    BY <2>1, <2>2, <2>4, <2>6
  <2> QED BY <2>1, <2>7, <2>8
<1> QED BY <1>5, <1>6

-----------------------------------------------------------------------------
(* The calls. *)

\* The lost cells after a write to c, and after a copy of s to c.
LostBy(c, mm) == IF DescriptorFits(Data(mm, c)) THEN lost \ {c} ELSE lost
LostLike(c, s) == IF s \in lost THEN lost \cup {c} ELSE lost \ {c}

LEMMA WroteHolds ==
  ASSUME NEW c \in Cell, NEW v, NEW mm, Wrote(c, mm, v),
         NEW w2, Sets(want, c, v, w2),
         NEW l2, l2 = LostBy(c, mm), CellsHold(mm, w2, l2, stray)
  PROVE  CellInv'
<1>1. cellMem' = mm /\ want' = [want EXCEPT ![c] = v] /\ stray' = stray
  BY DEF Wrote
<1>2. lost' = l2
  BY DEF Wrote, LostBy
<1>3. cellMem' = mm /\ want' = w2 /\ lost' = l2 /\ stray' = stray /\ CellsHold(mm, w2, l2, stray)
  BY <1>1, <1>2 DEF Sets
<1> QED BY ONLY <1>3 DEF CellInv

LEMMA CopiedOfHolds ==
  ASSUME NEW c \in Cell, NEW s \in Cell, NEW mm, CopiedOf(c, mm, s),
         NEW w2, Sets(want, c, Data(cellMem, s).val, w2),
         NEW l2, l2 = LostLike(c, s), CellsHold(mm, w2, l2, stray)
  PROVE  CellInv'
<1>1. cellMem' = mm /\ want' = w2 /\ lost' = l2 /\ stray' = stray
  BY DEF CopiedOf, Reads, LostLike, Sets
<1>2. CellsHold(mm, w2, l2, stray)
  OBVIOUS
<1> QED BY ONLY <1>1, <1>2 DEF CellInv

\* A growth that throws: the chain is gone, and a block may be left behind.
LEMMA FailedHolds ==
  ASSUME CellInv, NEW c \in Cell, cellMem[c].live, NEW n \in Nat,
         NEW g \in Grown(cellMem, c, n), ~g.ok, Failed(c, g)
  PROVE  CellInv'
<1> PICK m, l2, s2 : m = g.m /\ l2 = LostWith(cellMem, lost, c) /\ s2 = stray \cup ({g.b} \ {None})
  OBVIOUS
<1>1. cellMem' = m /\ want' = want /\ lost' = l2 /\ stray' = s2
  BY DEF Failed, LostWith, Chains
<1>2. CellsHold(cellMem, want, lost, stray)
  BY DEF CellInv
<1>3. CellsHold(m, want, l2, s2)
  <2>1. CASE g \in CellRefused(cellMem, c)
    <3>1. g.b = None /\ CellsHold(m, want, l2, stray)
      BY <1>2, <2>1, RefusedKeeps
    <3>2. s2 = stray
      BY <3>1
    <3> QED BY <3>1, <3>2
  <2>2. CASE g \in Granted(cellMem, c, n)
    <3>1. g.b \in CellBlock /\ CellsHold(m, want, l2, stray \cup {g.b})
      BY <1>2, <2>2, GrantedKeeps
    <3>2. s2 = stray \cup {g.b}
      BY <3>1, CellAssumption
    <3> QED BY <3>1, <3>2
  <2> QED BY <2>1, <2>2 DEF Grown
<1> QED BY ONLY <1>1, <1>3 DEF CellInv

LEMMA GrantedOf ==
  ASSUME CellInv, NEW c \in Cell, NEW n, NEW g \in Grown(cellMem, c, n), g.ok
  PROVE  g \in Granted(cellMem, c, n)
<1>1. g \notin CellRefused(cellMem, c)
  BY RefusedKeeps DEF CellInv
<1> QED BY <1>1 DEF Grown

\* Memcpy and WriteBlob.
LEMMA WriteAsHolds ==
  ASSUME CellInv, NEW c \in Cell, cellMem[c].live, IsBlob(Data(cellMem, c).type),
         NEW t \in CellTypes, IsBlob(t), NEW v \in CellValue, WriteAs(c, t, v)
  PROVE  CellInv'
<1> PICK x, n : x = Data(cellMem, c) /\ n = Sizeof(t, CellLen[v])
  OBVIOUS
<1>1. CellsHold(cellMem, want, lost, stray)
  BY DEF CellInv
<1>2. /\ IsBlock(x) /\ x.live /\ Keeps(x, want[c], c, lost) /\ IsBlob(x.type)
      /\ v \in Contents /\ CellLen[v] \in Nat /\ n \in Nat
  BY <1>1, DataIs, CellAssumption, SizeofCovers DEF Contents
<1>3. CASE x.size >= CellLen[v]
  <2> PICK y, mm : y = BlobCopied(x, v) /\ mm = [cellMem EXCEPT ![CellAt(cellMem, c)] = y]
    OBVIOUS
  <2>1. Wrote(c, mm, v)
    <3>1. Wrote(c, [cellMem EXCEPT ![CellAt(cellMem, c)] = BlobCopied(cellMem[CellAt(cellMem, c)], v)], v)
      BY <1>3 DEF WriteAs
    <3> QED BY <3>1 DEF Data
  <2>2. /\ IsBlock(y) /\ y.type = x.type /\ y.live
        /\ Fits(x) => \A e, l : Keeps(y, v, e, l)
        /\ x.size = 0 \/ Fits(x) => \A e, l : (DescriptorFits(x) \/ e \in l) => Keeps(y, v, e, l)
    <3>1. CellLen[v] <= x.size
      <4>1. x.size \in Nat
        BY <1>2 DEF IsBlock, VBLockSet
      <4> QED BY <1>2, <1>3, <4>1
    <3> QED BY <1>2, <3>1, CopiedInPlace
  <2> PICK l2 : l2 = IF DescriptorFits(x) THEN lost \ {c} ELSE lost
    OBVIOUS
  <2>3. Keeps(y, v, c, l2) /\ Besides(lost, c, l2)
    <3>1. IF c \in lost THEN x.size = 0 \/ Fits(x) ELSE Fits(x)
      BY <1>2 DEF Keeps
    <3>2. ~DescriptorFits(x) => l2 = lost
      OBVIOUS
    <3>3. Keeps(y, v, c, l2)
      BY <2>2, <3>1, <3>2
    <3>4. lost \subseteq Cell
      BY <1>1 DEF CellsHold, CellShape
    <3> QED BY <3>3, <3>4 DEF Besides
  <2>4. DescriptorFits(y) <=> DescriptorFits(x)
    <3>1. y.room = x.room
      BY <1>2 DEF BlobCopied, IsBlock, VBLockSet
    <3> QED BY <2>2, <3>1 DEF DescriptorFits
  <2>5. y.type # CellChained
    BY <2>3 DEF Keeps
  <2> PICK w2 : Sets(want, c, v, w2)
    BY DEF Sets
  <2>6. CellsHold(mm, w2, l2, stray) /\ Data(mm, c) = y
    <3>1. Sets(cellMem, CellAt(cellMem, c), y, mm)
      BY DEF Sets
    <3> QED BY <1>1, <1>2, <2>2, <2>3, <2>5, <3>1, PutWhereItIs
  <2>7. l2 = LostBy(c, mm)
    BY <2>4, <2>6 DEF LostBy
  <2> QED BY <2>1, <2>6, <2>7, WroteHolds
<1>4. CASE ~(x.size >= CellLen[v]) /\ MaxOf[t.w] < CellLen[v]
  <2>1. UNCHANGED cellVars
    BY <1>4 DEF WriteAs
  <2> QED BY <2>1 DEF cellVars, CellInv
<1>5. CASE ~(x.size >= CellLen[v]) /\ ~(MaxOf[t.w] < CellLen[v])
  <2>1. PICK g \in Grown(cellMem, c, n) :
          IF g.ok THEN Wrote(c, [g.m EXCEPT ![g.b] = BlobCopied(Described(@, t, @.room), v)], v)
                  ELSE Failed(c, g)
    BY <1>5 DEF WriteAs
  <2>2. CASE ~g.ok
    BY <1>2, <2>1, <2>2, FailedHolds
  <2>3. CASE g.ok
    <3> PICK z : z = g.m[g.b]
      OBVIOUS
    <3> PICK y : y = BlobCopied(Described(z, t, z.room), v)
      OBVIOUS
    <3> PICK mm : mm = [g.m EXCEPT ![g.b] = y]
      OBVIOUS
    <3>1. Wrote(c, mm, v)
      BY <2>1, <2>3
    <3>2. g \in Granted(cellMem, c, n)
      BY <2>3, GrantedOf
    <3>3. /\ IsBlock(z) /\ z.live /\ z.room \in Nat /\ n <= z.room
      BY <1>1, <1>2, <2>3, <3>2, GrantedKeeps
    <3>4. CellLen[v] <= MaxOf[t.w]
      <4>1. MaxOf[t.w] \in Nat
        BY BlobTypes
      <4> QED BY <1>2, <1>5, <4>1
    <3> PICK w2, l2 : Sets(want, c, v, w2) /\ l2 = lost \ {c}
      BY DEF Sets
    <3>5. IsBlock(y) /\ Keeps(y, v, c, l2) /\ DescriptorFits(y)
      BY <3>3, <3>4, WrittenAnew
    <3>6. CellsHold(mm, w2, l2, stray) /\ Data(mm, c) = y
      <4>1. Sets(g.m, g.b, y, mm)
        BY DEF Sets
      <4>2. Besides(lost, c, l2)
        BY <1>1 DEF CellsHold, CellShape, Besides
      <4>3. TakesAny(g, want, lost, stray, c)
        BY <1>1, <1>2, <2>3, <3>2, GrantedKeeps
      <4> QED BY <1>2, <3>5, <4>1, <4>2, <4>3 DEF TakesAny
    <3>7. l2 = LostBy(c, mm)
      BY <3>5, <3>6 DEF LostBy
    <3> QED BY <3>1, <3>6, <3>7, WroteHolds
  <2> QED BY <2>2, <2>3
<1> QED BY <1>3, <1>4, <1>5

LEMMA SizeofDataIs == ASSUME NEW d, IsBlock(d) PROVE SizeofData(d) \in Nat
<1>1. d.type \in CellTypes /\ d.size \in Nat /\ d.used \in Nat
  BY DEF IsBlock, VBLockSet
<1> QED BY <1>1, SizeofCovers DEF SizeofData

LEMMA AssignHolds ==
  ASSUME CellInv, NEW c \in Cell, NEW s \in Cell, CellAssign(c, s)
  PROVE  CellInv'
<1> PICK x, src : x = Data(cellMem, c) /\ src = Data(cellMem, s)
  OBVIOUS
<1> PICK n, v, l2 : n = SizeofData(src) /\ v = src.val /\ l2 = LostLike(c, s)
  OBVIOUS
<1> PICK w2 : Sets(want, c, v, w2)
  BY DEF Sets
<1>0. Besides(lost, c, l2) /\ (c \in l2 <=> s \in lost)
  BY DEF CellInv, CellsHold, CellShape, Besides, LostLike
<1>1. CellsHold(cellMem, want, lost, stray) /\ cellMem[c].live /\ cellMem[s].live
  BY DEF CellInv, CellAssign
<1>2. /\ IsBlock(x) /\ x.live /\ IsBlock(src) /\ Keeps(src, want[s], s, lost)
      /\ v \in Contents /\ n \in Nat /\ x.room \in Nat /\ src.type # CellChained
  BY <1>1, DataIs, SizeofDataIs
<1>3. CASE x.room >= n
  <2> PICK y, mm : y = Copied(x, src) /\ mm = [cellMem EXCEPT ![CellAt(cellMem, c)] = y]
    OBVIOUS
  <2>1. CopiedOf(c, mm, s)
    <3>1. CopiedOf(c, [cellMem EXCEPT ![CellAt(cellMem, c)] = Copied(cellMem[CellAt(cellMem, c)], Data(cellMem, s))], s)
      BY <1>3 DEF CellAssign
    <3> QED BY <3>1 DEF Data
  <2>2. IsBlock(y) /\ y.live /\ y.type = src.type /\ Keeps(y, v, c, l2)
    <3>1. n <= x.room
      BY <1>2, <1>3
    <3> QED BY <1>0, <1>2, <3>1, CopyKeeps
  <2>3. CellsHold(mm, w2, l2, stray)
    <3>1. Sets(cellMem, CellAt(cellMem, c), y, mm)
      BY DEF Sets
    <3> QED BY <1>0, <1>1, <1>2, <2>2, <3>1, PutWhereItIs
  <2> QED BY <2>1, <2>3, CopiedOfHolds
<1>4. CASE ~(x.room >= n)
  <2>1. PICK g \in Grown(cellMem, c, n) :
          IF g.ok THEN CopiedOf(c, [g.m EXCEPT ![g.b] = Copied(@, src)], s) ELSE Failed(c, g)
    BY <1>4 DEF CellAssign
  <2>2. CASE ~g.ok
    BY <1>1, <1>2, <2>1, <2>2, FailedHolds
  <2>3. CASE g.ok
    <3> PICK z : z = g.m[g.b]
      OBVIOUS
    <3> PICK y : y = Copied(z, src)
      OBVIOUS
    <3> PICK mm : mm = [g.m EXCEPT ![g.b] = y]
      OBVIOUS
    <3>1. CopiedOf(c, mm, s)
      BY <2>1, <2>3
    <3>2. g \in Granted(cellMem, c, n)
      BY <2>3, GrantedOf
    <3>3. IsBlock(z) /\ z.live /\ z.room \in Nat /\ n <= z.room
      BY <1>1, <1>2, <2>3, <3>2, GrantedKeeps
    <3>4. IsBlock(y) /\ Keeps(y, v, c, l2)
      BY <1>0, <1>2, <3>3, CopyKeeps
    <3>5. CellsHold(mm, w2, l2, stray)
      <4>1. Sets(g.m, g.b, y, mm)
        BY DEF Sets
      <4>2. TakesAny(g, want, lost, stray, c)
        BY <1>1, <1>2, <2>3, <3>2, GrantedKeeps
      <4> QED BY <1>2, <1>0, <3>4, <4>1, <4>2 DEF TakesAny
    <3> QED BY <3>1, <3>5, CopiedOfHolds
  <2> QED BY <2>2, <2>3
<1> QED BY <1>3, <1>4

LEMMA DeclareHolds ==
  ASSUME CellInv, NEW c \in Cell, NEW s \in Cell, Declare(c, s)
  PROVE  CellInv'
<1> PICK src : src = Data(cellMem, s)
  OBVIOUS
<1> PICK n, v, l2 : n = SizeofData(src) /\ v = src.val /\ l2 = LostLike(c, s)
  OBVIOUS
<1> PICK w2 : Sets(want, c, v, w2)
  BY DEF Sets
<1>0. Besides(lost, c, l2) /\ (c \in l2 <=> s \in lost)
  BY DEF CellInv, CellsHold, CellShape, Besides, LostLike
<1>1. CellsHold(cellMem, want, lost, stray) /\ ~cellMem[c].live /\ cellMem[s].live
  BY DEF CellInv, Declare
<1>2. /\ IsBlock(src) /\ Keeps(src, want[s], s, lost) /\ src.type \in CellTypes
      /\ v \in Contents /\ n \in Nat /\ src.type # CellChained /\ ~Chains(cellMem, c)
  BY <1>1, DataIs, SizeofDataIs DEF IsBlock
<1>3. PICK r \in n .. n + Slack : CopiedOf(c, [cellMem EXCEPT ![c] = Copied(InitItem(src, r), src)], s)
  BY DEF Declare, SizeofItem
<1>4. r \in Nat /\ n <= r
  BY <1>2, CellAssumption
<1> PICK z : z = InitItem(src, r)
  OBVIOUS
<1>5. IsBlock(z) /\ z.live /\ z.room = r
  <2>1. IsBlock(CellRoom(r)) /\ CellRoom(r).live /\ CellRoom(r).room = r
    BY <1>4, CellRoomIs
  <2> PICK q : q = CellRoom(r)
    OBVIOUS
  <2>2. z = Described(q, src.type, n)
    BY DEF InitItem
  <2> QED BY <1>2, <2>1, <2>2, DescribedIs
<1> PICK y : y = Copied(z, src)
  OBVIOUS
<1>6. IsBlock(y) /\ y.live /\ y.type = src.type /\ Keeps(y, v, c, l2)
  BY <1>0, <1>2, <1>4, <1>5, CopyKeeps
<1> PICK mm : mm = [cellMem EXCEPT ![c] = y]
  OBVIOUS
<1>7. mm = [cellMem EXCEPT ![CellAt(cellMem, c)] = y]
  BY <1>2 DEF CellAt, Chains
<1>8. CellsHold(mm, w2, l2, stray)
  <2>1. Sets(cellMem, CellAt(cellMem, c), y, mm)
    BY <1>7 DEF Sets
  <2> QED BY <1>0, <1>1, <1>2, <1>6, <2>1, PutWhereItIs
<1>9. CopiedOf(c, mm, s)
  BY <1>3
<1> QED BY <1>8, <1>9, CopiedOfHolds

LEMMA SetNumberHolds ==
  ASSUME CellInv, NEW c \in Cell, NEW i \in Number, SetNumber(c, i)
  PROVE  CellInv'
<1> PICK x : x = Data(cellMem, c)
  OBVIOUS
<1> PICK y : y = [x EXCEPT !.val = i]
  OBVIOUS
<1> PICK mm, w2 : Sets(cellMem, CellAt(cellMem, c), y, mm) /\ Sets(want, c, i, w2)
  BY DEF Sets
<1>1. CellsHold(cellMem, want, lost, stray) /\ cellMem[c].live
  BY DEF CellInv, SetNumber
<1>2. IsBlock(x) /\ x.live /\ x.type = IntType /\ i \in Contents
  BY <1>1, DataIs DEF SetNumber, Contents
<1>3. Wrote(c, mm, i)
  <2>1. Wrote(c, [cellMem EXCEPT ![CellAt(cellMem, c)] = [cellMem[CellAt(cellMem, c)] EXCEPT !.val = i]], i)
    BY DEF SetNumber
  <2> QED BY <2>1 DEF Data, Sets
<1>4. ~IsBlob(IntType) /\ IntType # CellChained
  BY DEF IntType, CellChained, Plain, IsBlob
<1>5. IsBlock(y) /\ y.live /\ y.type = IntType /\ y.val = i
  <2>1. x \in VBLockSet /\ x.type \in CellTypes
    BY <1>2 DEF IsBlock
  <2>2. y \in VBLockSet /\ y.live /\ y.type = IntType /\ y.val = i
    BY <1>2, <2>1 DEF VBLockSet
  <2> QED BY <1>2, <1>4, <2>1, <2>2 DEF IsBlock
<1> PICK l2 : l2 = lost \ {c}
  OBVIOUS
<1>6. Keeps(y, i, c, l2) /\ Besides(lost, c, l2)
  BY <1>1, <1>4, <1>5 DEF Keeps, Besides, CellsHold, CellShape
<1>7. CellsHold(mm, w2, l2, stray) /\ Data(mm, c) = y
  <2>1. y.type # CellChained
    BY <1>4, <1>5
  <2>2. Sets(cellMem, CellAt(cellMem, c), y, mm) /\ Sets(want, c, i, w2)
    OBVIOUS
  <2> QED BY ONLY c \in Cell, <1>1, <1>2, <1>5, <1>6, <2>1, <2>2, PutWhereItIs
<1>8. l2 = LostBy(c, mm)
  BY <1>4, <1>5, <1>7 DEF LostBy, DescriptorFits
<1> QED BY <1>3, <1>7, <1>8, WroteHolds

LEMMA NewNumberHolds ==
  ASSUME CellInv, NEW c \in Cell, NEW i \in Number, NewNumber(c, i)
  PROVE  CellInv'
<1> PICK x : x = CellRoom(LocalRoom)
  OBVIOUS
<1> PICK y : y = [x EXCEPT !.type = IntType, !.val = i]
  OBVIOUS
<1> PICK mm, w2 : mm = [cellMem EXCEPT ![c] = y] /\ Sets(want, c, i, w2)
  BY DEF Sets
<1>1. CellsHold(cellMem, want, lost, stray) /\ ~cellMem[c].live
  BY DEF CellInv, NewNumber
<1>2. IsBlock(x) /\ x.live /\ i \in Contents
  BY CellRoomIs, CellAssumption DEF Contents
<1>3. Wrote(c, mm, i)
  BY DEF NewNumber
<1>4. ~IsBlob(IntType) /\ IntType # CellChained /\ IntType \in CellTypes /\ IntType \in Type
  BY DEF IntType, CellChained, Plain, IsBlob, CellTypes, Type
<1>5. IsBlock(y) /\ y.live /\ y.type = IntType /\ y.val = i
  <2>1. x \in VBLockSet
    BY <1>2 DEF IsBlock
  <2>2. y \in VBLockSet /\ y.live /\ y.type = IntType /\ y.val = i
    BY <1>2, <1>4, <2>1 DEF VBLockSet
  <2> QED BY <1>4, <2>2 DEF IsBlock
<1> PICK l2 : l2 = lost \ {c}
  OBVIOUS
<1>6. Keeps(y, i, c, l2) /\ Besides(lost, c, l2)
  BY <1>1, <1>4, <1>5 DEF Keeps, Besides, CellsHold, CellShape
<1>7. ~Chains(cellMem, c) /\ Sets(cellMem, CellAt(cellMem, c), y, mm)
  <2>1. ~Chains(cellMem, c)
    BY <1>1, DataIs
  <2> QED BY <2>1 DEF Chains, CellAt, Sets
<1>8. CellsHold(mm, w2, l2, stray) /\ Data(mm, c) = y
  <2>1. y.type # CellChained
    BY <1>4, <1>5
  <2>2. Sets(want, c, i, w2)
    OBVIOUS
  <2> QED BY ONLY c \in Cell, <1>1, <1>2, <1>5, <1>6, <1>7, <2>1, <2>2, PutWhereItIs
<1>9. l2 = LostBy(c, mm)
  BY <1>4, <1>5, <1>8 DEF LostBy, DescriptorFits
<1> QED BY <1>3, <1>8, <1>9, WroteHolds

LEMMA NewBlobHolds ==
  ASSUME CellInv, TextFixed, NEW c \in Cell, NEW t \in CellKind, NEW v \in CellValue, NewBlob(c, t, v)
  PROVE  CellInv'
<1> PICK q : q = CellRoom(LocalRoom)
  OBVIOUS
<1> PICK x, n, l2, a : x = Described(q, t, LocalRoom) /\ n = Sizeof(t, CellLen[v]) /\ l2 = lost \ {c}
                       /\ a = CellAt(cellMem, c)
  OBVIOUS
<1> PICK m, wn, w2 : m = [cellMem EXCEPT ![c] = x] /\ Sets(want, c, None, wn) /\ Sets(want, c, v, w2)
  BY DEF Sets
<1>1. CellsHold(cellMem, want, lost, stray) /\ ~cellMem[c].live /\ CellLen[v] <= MaxOf[t.w]
  BY DEF CellInv, NewBlob
<1>2. t \in CellTypes /\ IsBlob(t)
  <2>1. t \in BlobType
    BY CellAssumption
  <2>2. IsBlob(t) /\ t \in Type
    BY <2>1 DEF BlobType, IsBlob, Type
  <2> QED BY <2>2 DEF TextFixed, CellTypes
<1>3. /\ v \in Contents /\ None \in Contents /\ CellLen[v] \in Nat /\ n \in Nat /\ LocalRoom \in Nat
      /\ Hdr + CellHead[t.w] + CellLen[v] <= n
      /\ Hdr + CellHead[t.w] <= LocalRoom /\ MaxOf[t.w] \in Nat
  BY <1>2, CellAssumption, SizeofCovers, BlobTypes DEF Contents
<1>4. /\ IsBlock(x) /\ x.live /\ x.room = LocalRoom /\ x.type = t /\ x.size = Capacity(t, LocalRoom)
      /\ x.used = 0 /\ x.val = None
  <2>1. IsBlock(q) /\ q.live /\ q.room = LocalRoom
    BY <1>3, CellRoomIs
  <2>2. x.val = None
    BY <1>2, <2>1 DEF Described, IsBlock, VBLockSet
  <2>3. x = Described(q, t, LocalRoom) /\ LocalRoom \in Nat
    BY <1>3
  <2>4. IsBlock(x) /\ x.live = q.live /\ x.room = q.room /\ x.type = t
    BY ONLY <1>2, <2>1, <2>3, DescribedIs
  <2>5. x.size = Capacity(t, LocalRoom) /\ x.used = 0
    BY ONLY <1>2, <2>1, <2>3, DescribedIs
  <2> QED BY <2>1, <2>2, <2>4, <2>5
<1>5. Fits(x) /\ IsBlob(x.type) /\ x.type # CellChained /\ x.size \in Nat
  <2>1. Hdr + CellHead[t.w] + x.size <= x.room
    BY <1>2, <1>3, <1>4, CapacityIs
  <2>2. t # CellChained
    BY <1>2 DEF IsBlob, CellChained, Plain
  <2>3. x.size \in Nat
    BY <1>4 DEF IsBlock, VBLockSet
  <2> QED BY <1>2, <1>4, <2>1, <2>2, <2>3 DEF Fits
<1>6. Keeps(x, None, c, l2) /\ Besides(lost, c, l2)
  <2>1. x.used <= x.size /\ x.used <= MaxOf[x.type.w]
    BY <1>3, <1>4, <1>5
  <2>2. Besides(lost, c, l2)
    BY <1>1 DEF Besides, CellsHold, CellShape
  <2> QED BY <1>4, <1>5, <2>1, <2>2 DEF Keeps
<1>7. ~Chains(cellMem, c) /\ a = c
  <2>1. ~Chains(cellMem, c)
    BY <1>1, DataIs
  <2> QED BY <2>1 DEF Chains, CellAt
<1>8. CellsHold(m, wn, l2, stray) /\ Data(m, c) = x
  <2>1. Sets(cellMem, CellAt(cellMem, c), x, m)
    BY <1>7 DEF Sets
  <2> QED BY <1>1, <1>3, <1>4, <1>5, <1>6, <2>1, PutWhereItIs
<1>9. m[c] = x
  <2>1. cellMem = [z \in Cell \cup CellBlock |-> cellMem[z]]
    BY <1>1, ShapeIs
  <2> QED BY <2>1
<1>10. IF x.size >= CellLen[v]
       THEN Wrote(c, [m EXCEPT ![c] = BlobCopied(@, v)], v)
       ELSE \E g \in Granted(m, c, n) :
              g.ok /\ Wrote(c, [g.m EXCEPT ![g.b] = BlobCopied(Described(@, t, @.room), v)], v)
  <2>1. IF m[c].size >= CellLen[v]
        THEN Wrote(c, [m EXCEPT ![c] = BlobCopied(@, v)], v)
        ELSE \E g \in Granted(m, c, n) :
               g.ok /\ Wrote(c, [g.m EXCEPT ![g.b] = BlobCopied(Described(@, t, @.room), v)], v)
    BY DEF NewBlob
  <2> QED BY <1>9, <2>1
<1>11. CASE x.size >= CellLen[v]
  <2> PICK y, mm : y = BlobCopied(x, v) /\ mm = [cellMem EXCEPT ![c] = y]
    OBVIOUS
  <2>1. Wrote(c, mm, v)
    <3>1. Wrote(c, [m EXCEPT ![c] = y], v)
      BY <1>9, <1>10, <1>11
    <3>2. [m EXCEPT ![c] = y] = mm
      <4>1. cellMem = [z \in Cell \cup CellBlock |-> cellMem[z]]
        BY <1>1, ShapeIs
      <4> QED BY <4>1
    <3> QED BY <3>1, <3>2
  <2>2. IsBlock(y) /\ y.type = t /\ y.live /\ Keeps(y, v, c, l2)
    <3>1. CellLen[v] <= x.size
      BY <1>3, <1>5, <1>11
    <3> QED BY <1>4, <1>5, <3>1, CopiedInPlace
  <2>3. CellsHold(mm, w2, l2, stray) /\ Data(mm, c) = y
    <3>1. Sets(cellMem, CellAt(cellMem, c), y, mm)
      BY <1>7 DEF Sets
    <3>2. y.type # CellChained
      BY <1>4, <1>5, <2>2
    <3>3. Besides(lost, c, l2) /\ Sets(want, c, v, w2) /\ v \in Contents
      BY <1>3, <1>6
    <3> QED BY ONLY c \in Cell, <1>1, <2>2, <3>1, <3>2, <3>3, PutWhereItIs
  <2>4. l2 = LostBy(c, mm)
    <3>1. y.room = LocalRoom
      BY <1>4 DEF BlobCopied, IsBlock, VBLockSet
    <3>2. DescriptorFits(y)
      BY <1>3, <2>2, <3>1 DEF DescriptorFits
    <3> QED BY <2>3, <3>2 DEF LostBy
  <2> QED BY <2>1, <2>3, <2>4, WroteHolds
<1>12. CASE ~(x.size >= CellLen[v])
  <2>1. PICK g \in Granted(m, c, n) :
          g.ok /\ Wrote(c, [g.m EXCEPT ![g.b] = BlobCopied(Described(@, t, @.room), v)], v)
    BY <1>10, <1>12
  <2> PICK z : z = g.m[g.b]
    OBVIOUS
  <2> PICK y : y = BlobCopied(Described(z, t, z.room), v)
    OBVIOUS
  <2> PICK mm : mm = [g.m EXCEPT ![g.b] = y]
    OBVIOUS
  <2>2. m[c].live
    BY <1>4, <1>9
  <2>3. IsBlock(z) /\ z.live /\ z.room \in Nat /\ n <= z.room /\ TakesAny(g, wn, l2, stray, c)
    BY <1>3, <1>8, <2>1, <2>2, GrantedKeeps
  <2>4. IsBlock(y) /\ Keeps(y, v, c, l2) /\ DescriptorFits(y)
    BY <1>1, <1>2, <2>3, WrittenAnew
  <2>5. Sets(wn, c, v, w2) /\ Sets(g.m, g.b, y, mm) /\ Besides(l2, c, l2)
    <3>1. want \in [Cell -> Contents]
      BY <1>1 DEF CellsHold, Contents
    <3>2. Sets(wn, c, v, w2)
      BY <3>1 DEF Sets
    <3>3. Sets(g.m, g.b, y, mm)
      BY DEF Sets
    <3>4. Besides(l2, c, l2)
      BY <1>6 DEF Besides
    <3> QED BY <3>2, <3>3, <3>4
  <2>6. CellsHold(mm, w2, l2, stray) /\ Data(mm, c) = y
    BY <1>3, <2>3, <2>4, <2>5 DEF TakesAny
  <2>7. l2 = LostBy(c, mm)
    BY <2>4, <2>6 DEF LostBy
  <2>8. Wrote(c, mm, v)
    BY <2>1
  <2> QED BY <2>6, <2>7, <2>8, WroteHolds
<1> QED BY <1>11, <1>12

LEMMA CellDropHolds ==
  ASSUME CellInv, NEW c \in Cell, CellDrop(c)
  PROVE  CellInv'
<1> PICK m, l1, l2, y : m = Unchain(cellMem, c) /\ l1 = LostWith(cellMem, lost, c) /\ l2 = lost \ {c} /\ y = Gone
  OBVIOUS
<1> PICK mm, w2 : mm = [m EXCEPT ![c] = y] /\ Sets(want, c, None, w2)
  BY DEF Sets
<1>1. CellsHold(cellMem, want, lost, stray)
  BY DEF CellInv
<1>2. CellsHold(m, want, l1, stray) /\ ~Chains(m, c)
  BY <1>1, UnchainKeeps
<1>3. IsBlock(y) /\ ~y.live /\ y.type # CellChained /\ None \in Contents /\ ~IsBlob(y.type)
  BY GoneIsBlock DEF Contents, Gone, NullType, Plain, IsBlob
<1>4. Besides(l1, c, l2)
  BY <1>1 DEF Besides, LostWith, CellsHold, CellShape
<1>5. Sets(m, CellAt(m, c), y, mm)
  BY <1>2 DEF Sets, CellAt, Chains
<1>6. CellsHold(mm, w2, l2, stray) /\ Data(mm, c) = y
  BY <1>2, <1>3, <1>4, <1>5, PutWhereItIs
<1>7. l2 = LostBy(c, mm)
  BY <1>3, <1>6 DEF LostBy, DescriptorFits
<1>8. Wrote(c, mm, None)
  BY DEF CellDrop
<1> QED BY <1>6, <1>7, <1>8, WroteHolds

LEMMA WritesHold ==
  ASSUME CellInv, NEW c \in Cell, NEW v \in CellValue, Memcpy(c, v) \/ WriteBlob(c, v)
  PROVE  CellInv'
<1> PICK t : t = Data(cellMem, c).type
  OBVIOUS
<1>1. CellsHold(cellMem, want, lost, stray) /\ cellMem[c].live /\ IsBlob(t)
  BY DEF CellInv, Memcpy, WriteBlob
<1>2. t \in CellTypes /\ CellLen[v] \in Nat
  BY <1>1, DataIs, CellAssumption DEF IsBlock
<1>3. CASE Memcpy(c, v)
  <2>1. WriteAs(c, t, v)
    BY <1>3 DEF Memcpy
  <2> QED BY <1>1, <1>2, <2>1, WriteAsHolds
<1>4. CASE WriteBlob(c, v)
  <2> PICK u : u = Widened(t, CellLen[v])
    OBVIOUS
  <2>1. WriteAs(c, u, v)
    BY <1>4 DEF WriteBlob
  <2>2. u \in CellTypes /\ IsBlob(u)
    BY <1>1, <1>2, WidenedIs
  <2> QED BY <1>1, <2>1, <2>2, WriteAsHolds
<1> QED BY <1>3, <1>4

LEMMA CellStep ==
  ASSUME TextFixed, CellInv, CellNext PROVE CellInv'
<1> PICK c \in Cell :
      \/ \E v \in CellValue : Memcpy(c, v) \/ WriteBlob(c, v)
      \/ \E i \in Number : SetNumber(c, i) \/ NewNumber(c, i)
      \/ \E s \in Cell : CellAssign(c, s) \/ Declare(c, s)
      \/ \E t \in CellKind, v \in CellValue : NewBlob(c, t, v)
      \/ CellDrop(c)
  BY DEF CellNext
<1>1. CASE \E v \in CellValue : Memcpy(c, v) \/ WriteBlob(c, v)
  BY <1>1, WritesHold
<1>2. CASE \E i \in Number : SetNumber(c, i) \/ NewNumber(c, i)
  BY <1>2, SetNumberHolds, NewNumberHolds
<1>3. CASE \E s \in Cell : CellAssign(c, s) \/ Declare(c, s)
  BY <1>3, AssignHolds, DeclareHolds
<1>4. CASE \E t \in CellKind, v \in CellValue : NewBlob(c, t, v)
  BY <1>4, NewBlobHolds
<1>5. CASE CellDrop(c)
  BY <1>5, CellDropHolds
<1> QED BY <1>1, <1>2, <1>3, <1>4, <1>5

LEMMA CellInitHolds == CellInit => CellInv
<1> SUFFICES ASSUME CellInit PROVE CellInv
  OBVIOUS
<1>1. cellMem = [x \in Cell \cup CellBlock |-> Gone] /\ want = [c \in Cell |-> None] /\ lost = {} /\ stray = {}
  BY DEF CellInit
<1>2. CellShape(cellMem, lost, stray)
  BY <1>1, GoneIsBlock DEF CellShape
<1>3. \A x \in Cell \cup CellBlock : ~cellMem[x].live /\ cellMem[x].type # CellChained
  BY <1>1, GoneIsBlock
<1>4. Chained1(cellMem, stray)
  BY <1>1, <1>3 DEF Chained1, Chains
<1> QED BY <1>1, <1>2, <1>3, <1>4 DEF CellInv, CellsHold

LEMMA CellInvMeans == CellInv => CellSound
<1> SUFFICES ASSUME CellInv PROVE CellSound
  OBVIOUS
<1>1. CellsHold(cellMem, want, lost, stray)
  BY DEF CellInv
<1>2. CellShape(cellMem, lost, stray) /\ Chained1(cellMem, stray)
  BY <1>1 DEF CellsHold
<1>3. \A c \in Cell : cellMem[c].live => Keeps(Data(cellMem, c), want[c], c, lost)
  BY <1>1 DEF CellsHold
<1>4. CellTypeOK
  BY <1>1, <1>2 DEF CellTypeOK, CellsHold, CellShape, IsBlock
<1>5. Contained
  BY <1>3 DEF Contained, Keeps, Fits
<1>6. CellOneOwner
  <2>1. \A c \in Cell : cellMem[c].type = CellChained =>
          /\ cellMem[c].next \in CellBlock /\ cellMem[cellMem[c].next].live
          /\ cellMem[cellMem[c].next].type # CellChained
    <3> SUFFICES ASSUME NEW c \in Cell, cellMem[c].type = CellChained
                 PROVE  /\ cellMem[c].next \in CellBlock /\ cellMem[cellMem[c].next].live
                        /\ cellMem[cellMem[c].next].type # CellChained
      OBVIOUS
    <3>1. cellMem[c].live /\ cellMem[c].next \in CellBlock /\ cellMem[cellMem[c].next].live
      BY <1>2 DEF Chained1, Chains
    <3>2. Data(cellMem, c) = cellMem[cellMem[c].next]
      BY DEF Data, CellAt
    <3>3. Data(cellMem, c).type # CellChained
      BY <1>3, <3>1 DEF Keeps
    <3> QED BY <3>1, <3>2, <3>3
  <2>2. \A c, d \in Cell : cellMem[c].type = CellChained /\ cellMem[d].type = CellChained
                              /\ cellMem[c].next = cellMem[d].next => c = d
    BY <1>2 DEF Chained1, Chains
  <2>3. {b \in CellBlock : cellMem[b].live} =
          {cellMem[c].next : c \in {d \in Cell : cellMem[d].type = CellChained}} \cup stray
    <3>1. \A b \in CellBlock : cellMem[b].live => b \in stray \/ \E c \in Cell : cellMem[c].type = CellChained /\ cellMem[c].next = b
      BY <1>2 DEF Chained1, Chains
    <3>2. \A b \in stray : b \in CellBlock /\ cellMem[b].live
      BY <1>2 DEF Chained1, CellShape
    <3> QED BY <2>1, <3>1, <3>2
  <2> QED BY <2>1, <2>2, <2>3 DEF CellOneOwner
<1>7. CellReadsBack
  BY <1>3 DEF CellReadsBack, Reads, Keeps
<1> QED BY <1>4, <1>5, <1>6, <1>7 DEF CellSound

\* For any cells, blocks, contents, widths and spaces, and whatever the heap
\* refuses: a cell declares no more than its block holds, its chained block is its own
\* and is not forgotten, and it reads what was last written, or nothing when its
\* chain was given back for a growth that was then refused (CellSound).
THEOREM CellsAreSound == ASSUME TextFixed PROVE CellSpec => []CellSound
<1>1. CellInv /\ [CellNext]_cellVars => CellInv'
  <2>1. ASSUME CellInv, UNCHANGED cellVars PROVE CellInv'
    BY <2>1 DEF cellVars, CellInv
  <2> QED BY <2>1, CellStep
<1> QED BY <1>1, CellInitHolds, CellInvMeans, PTL DEF CellSpec

-----------------------------------------------------------------------------
(***************************************************************************)
(* MsgDesc, for any finite arena, any cursors and any names                *)
(* of which none begins another.  The chain of the descendants is at every *)
(* moment some ring: a function from ordinals to blocks that the links     *)
(* follow both ways.  Linking in, unlinking and swapping are each one      *)
(* change of that function, and what a cursor caches or a loop has passed  *)
(* is said of it.                                                          *)
(***************************************************************************)

(***************************************************************************)
(* The ring, and the three ways it is changed.                             *)
(***************************************************************************)

DescLink == Addr \cup {None}
ItemSet == [linked : BOOLEAN, name : Name \cup {<<>>}, prev : DescLink, next : DescLink]
DescSet == [first : DescLink, last : DescLink, items : Nat, sorted : BOOLEAN]

\* The blocks of d and it form the ring q: by ordinal from 0, nothing beyond.
Ring(q, d, it) ==
    /\ q \in [Int -> DescLink]
    /\ \A k \in Int : q[k] # None <=> k \in 0 .. d.items - 1
    /\ \A j, k \in 0 .. d.items - 1 : q[j] = q[k] => j = k
    /\ \A a \in Addr : it[a].linked <=> \E k \in 0 .. d.items - 1 : q[k] = a
    /\ d.first = q[0] /\ d.last = q[d.items - 1]
    /\ \A k \in 0 .. d.items - 1 : it[q[k]].prev = q[k - 1] /\ it[q[k]].next = q[k + 1]

Typed == desc \in DescSet /\ item \in [Addr -> ItemSet]

\* The three ways the chain is changed, as what they make of the ring.
PutIn(q, j, a) == [k \in Int |-> IF k < j THEN q[k] ELSE IF k = j THEN a ELSE q[k - 1]]
TakenOut(q, j) == [k \in Int |-> IF k < j THEN q[k] ELSE q[k + 1]]
Exchanged(q, i, j) == [k \in Int |-> IF k = i THEN q[j] ELSE IF k = j THEN q[i] ELSE q[k]]

\* What is on the ring is a block, and linked; what is not is neither.
LEMMA OnRing ==
  ASSUME NEW q, Ring(q, desc, item), Typed, NEW k \in Int
  PROVE  /\ k \in 0 .. desc.items - 1 => q[k] \in Addr /\ item[q[k]].linked
         /\ k \notin 0 .. desc.items - 1 => q[k] = None
BY CursAssumption DEF Ring, Typed, DescLink, DescSet

\* P2PmsgDesc_LinkinItem between two neighbours on the ring puts the block in between.
LEMMA LinkInKeeps ==
  ASSUME NEW q, Ring(q, desc, item), Typed, NEW j \in 0 .. desc.items,
         NEW a \in Addr, ~ item[a].linked, NEW nm \in Name, LinkIn(nm, q[j - 1], a, q[j])
  PROVE  /\ Ring(PutIn(q, j, a), desc', item') /\ Typed'
         /\ desc'.items = desc.items + 1 /\ desc'.sorted = desc.sorted
         /\ \A b \in Addr : item'[b].name = IF b = a THEN nm ELSE item[b].name
<1> DEFINE n == desc.items   r == PutIn(q, j, a)
<1>1. n \in Nat /\ desc \in DescSet /\ item \in [Addr -> ItemSet]
  BY DEF Typed, DescSet
<1>2. q \in [Int -> DescLink] /\ None \notin Addr
  BY CursAssumption DEF Ring
<1>3. \A k \in Int : q[k] # None <=> k \in 0 .. n - 1
  BY DEF Ring
<1>4. \A i, k \in 0 .. n - 1 : q[i] = q[k] => i = k
  BY DEF Ring
<1>5. \A b \in Addr : item[b].linked <=> \E k \in 0 .. n - 1 : q[k] = b
  BY DEF Ring
<1>6. desc.first = q[0] /\ desc.last = q[n - 1]
  BY DEF Ring
<1>7. \A k \in 0 .. n - 1 : item[q[k]].prev = q[k - 1] /\ item[q[k]].next = q[k + 1]
  BY DEF Ring
<1>8. \A k \in Int : q[k] # a
  BY <1>2, <1>3, <1>5
<1>9. \A k \in Int : q[k] # None => q[k] \in Addr
  BY <1>2 DEF DescLink
<1>10. desc' = [desc EXCEPT !.first = IF q[j - 1] = None THEN a ELSE @,
                          !.last  = IF q[j] = None THEN a ELSE @,
                          !.items = @ + 1]
  BY DEF LinkIn
<1>11. /\ item'[a] = [linked |-> TRUE, name |-> nm, prev |-> q[j - 1], next |-> q[j]]
       /\ \A b \in Addr : b # a =>
            item'[b] = [item[b] EXCEPT !.next = IF b = q[j - 1] THEN a ELSE @,
                                       !.prev = IF b = q[j] THEN a ELSE @]
  BY DEF LinkIn
<1>12. DOMAIN item' = Addr /\ item' = [b \in Addr |-> item'[b]]
  BY DEF LinkIn
<1>13. /\ desc'.items = n + 1 /\ desc'.sorted = desc.sorted
       /\ desc'.first = IF q[j - 1] = None THEN a ELSE desc.first
       /\ desc'.last = IF q[j] = None THEN a ELSE desc.last
  BY <1>1, <1>10 DEF DescSet
<1>14. desc' \in DescSet
  <2>1. /\ desc' = [first |-> desc'.first, last |-> desc'.last, items |-> n + 1, sorted |-> desc.sorted]
        /\ desc'.first \in DescLink /\ desc'.last \in DescLink
    BY <1>1, <1>10 DEF DescSet, DescLink
  <2> QED BY <2>1, <1>1 DEF DescSet
<1>16. ASSUME NEW b \in Addr, b # a
       PROVE /\ item'[b].linked = item[b].linked /\ item'[b].name = item[b].name
             /\ item'[b].next = IF b = q[j - 1] THEN a ELSE item[b].next
             /\ item'[b].prev = IF b = q[j] THEN a ELSE item[b].prev
             /\ item'[b] \in ItemSet
  <2>1. item[b] \in ItemSet
    BY <1>1
  <2>2. PICK x \in ItemSet : x = item[b]
    BY <2>1
  <2>3. PICK y : y = item'[b]
    OBVIOUS
  <2>4. y = [x EXCEPT !.next = IF b = q[j - 1] THEN a ELSE @,
                      !.prev = IF b = q[j] THEN a ELSE @]
    BY <1>11, <1>16, <2>2, <2>3
  <2>5. /\ y.linked = x.linked /\ y.name = x.name
        /\ y.next = IF b = q[j - 1] THEN a ELSE x.next
        /\ y.prev = IF b = q[j] THEN a ELSE x.prev
        /\ y \in ItemSet
    BY <2>4 DEF ItemSet, DescLink
  <2> QED BY <2>2, <2>3, <2>5
<1>17. /\ item'[a].linked /\ item'[a].name = nm
       /\ item'[a].prev = q[j - 1] /\ item'[a].next = q[j]
       /\ item'[a] \in ItemSet
  <2>1. q[j - 1] \in DescLink /\ q[j] \in DescLink
    BY <1>2, <1>1
  <2>2. PICK x, y \in DescLink : x = q[j - 1] /\ y = q[j]
    BY <2>1
  <2>3. PICK z : z = item'[a]
    OBVIOUS
  <2>4. z = [linked |-> TRUE, name |-> nm, prev |-> x, next |-> y]
    BY <1>11, <2>2, <2>3
  <2>5. z \in ItemSet /\ z.linked /\ z.name = nm /\ z.prev = x /\ z.next = y
    BY ONLY <2>4, nm \in Name, x \in DescLink, y \in DescLink DEF ItemSet
  <2> QED BY <2>2, <2>3, <2>5
<1>18. \A k \in Int : r[k] = IF k < j THEN q[k] ELSE IF k = j THEN a ELSE q[k - 1]
  BY DEF PutIn
<1>19. r \in [Int -> DescLink]
  BY <1>2 DEF PutIn, DescLink
<1>20. Ring(r, desc', item')
  <2> HIDE DEF r
  <2>1. \A k \in Int : r[k] # None <=> k \in 0 .. n
    BY <1>1, <1>2, <1>3, <1>18
  <2>2. \A i, k \in 0 .. n : r[i] = r[k] => i = k
    <3> SUFFICES ASSUME NEW i \in 0 .. n, NEW k \in 0 .. n, r[i] = r[k] PROVE i = k
      OBVIOUS
    <3> DEFINE old(x) == IF x < j THEN x ELSE x - 1
    <3>1. i # j => old(i) \in 0 .. n - 1 /\ r[i] = q[old(i)]
      BY <1>1, <1>18
    <3>2. k # j => old(k) \in 0 .. n - 1 /\ r[k] = q[old(k)]
      BY <1>1, <1>18
    <3>3. r[j] = a
      BY <1>18
    <3>4. CASE i = j
      BY <3>2, <3>3, <3>4, <1>8
    <3>5. CASE k = j
      BY <3>1, <3>3, <3>5, <1>8
    <3>6. CASE i # j /\ k # j
      <4>1. old(i) = old(k)
        <5> HIDE DEF old
        <5> QED BY <3>6, <3>1, <3>2, <1>4
      <4> QED BY <4>1, <3>6
    <3> QED BY <3>4, <3>5, <3>6
  <2>3. \A b \in Addr : item'[b].linked <=> \E k \in 0 .. n : r[k] = b
    <3> TAKE b \in Addr
    <3>1. CASE b = a
      BY <3>1, <1>17, <1>18, <1>1
    <3>2. CASE b # a
      <4>1. item'[b].linked = item[b].linked
        BY <3>2, <1>16
      <4>2. ASSUME NEW k \in 0 .. n - 1, q[k] = b PROVE \E i \in 0 .. n : r[i] = b
        <5>1. CASE k < j
          BY <5>1, <4>2, <1>18, <1>1
        <5>2. CASE k >= j
          <6>1. k + 1 \in 0 .. n /\ r[k + 1] = q[k]
            BY <5>2, <1>18, <1>1
          <6> QED BY <6>1, <4>2
        <5> QED BY <5>1, <5>2
      <4>3. ASSUME NEW k \in 0 .. n, r[k] = b PROVE \E i \in 0 .. n - 1 : q[i] = b
        <5>1. CASE k < j
          BY <5>1, <4>3, <1>18, <1>1
        <5>2. CASE k > j
          <6>1. k - 1 \in 0 .. n - 1 /\ r[k] = q[k - 1]
            BY <5>2, <1>18, <1>1
          <6> QED BY <6>1, <4>3
        <5> QED BY <5>1, <5>2, <3>2, <4>3, <1>18
      <4> QED BY <4>1, <4>2, <4>3, <1>5
    <3> QED BY <3>1, <3>2
  <2>4. desc'.first = r[0]
    BY <1>1, <1>2, <1>3, <1>6, <1>13, <1>18
  <2>5. desc'.last = r[n]
    BY <1>1, <1>2, <1>3, <1>6, <1>13, <1>18
  <2>6. \A k \in 0 .. n : item'[r[k]].prev = r[k - 1] /\ item'[r[k]].next = r[k + 1]
    <3> TAKE k \in 0 .. n
    <3>1. CASE k = j
      BY <3>1, <1>17, <1>18
    <3>2. CASE k < j
      <4>1. r[k] = q[k] /\ r[k - 1] = q[k - 1] /\ r[k + 1] = IF k + 1 = j THEN a ELSE q[k + 1]
        BY <3>2, <1>18
      <4>2. k \in 0 .. n - 1 /\ q[k] \in Addr /\ q[k] # a
        BY <3>2, <1>1, <1>3, <1>8, <1>9
      <4>3. q[k] # q[j]
        BY <3>2, <4>2, <1>3, <1>4, <1>1
      <4>4. q[k] = q[j - 1] <=> k = j - 1
        BY <3>2, <4>2, <1>3, <1>4, <1>1
      <4> QED BY <4>1, <4>2, <4>3, <4>4, <1>7, <1>16
    <3>3. CASE k > j
      <4>1. r[k] = q[k - 1] /\ r[k + 1] = q[k] /\ r[k - 1] = IF k - 1 = j THEN a ELSE q[k - 2]
        BY <3>3, <1>18
      <4>2. k - 1 \in 0 .. n - 1 /\ q[k - 1] \in Addr /\ q[k - 1] # a
        BY <3>3, <1>1, <1>3, <1>8, <1>9
      <4>3. q[k - 1] # q[j - 1]
        BY <3>3, <4>2, <1>3, <1>4, <1>1
      <4>4. q[k - 1] = q[j] <=> k - 1 = j
        BY <3>3, <4>2, <1>3, <1>4, <1>1
      <4>5. item[q[k - 1]].prev = q[k - 2] /\ item[q[k - 1]].next = q[k]
        BY <4>2, <1>7
      <4> QED BY <4>1, <4>2, <4>3, <4>4, <4>5, <1>16
    <3> QED BY <3>1, <3>2, <3>3
  <2>7. desc'.items - 1 = n
    BY <1>1, <1>13
  <2> QED BY <2>1, <2>2, <2>3, <2>4, <2>5, <2>6, <2>7, <1>19 DEF Ring
<1>21. Typed'
  BY <1>12, <1>14, <1>16, <1>17 DEF Typed
<1> QED BY <1>13, <1>16, <1>17, <1>20, <1>21

\* P2PmsgDesc_UnLinkItem closes the ring over the block it takes out.
LEMMA UnLinkKeeps ==
  ASSUME NEW q, Ring(q, desc, item), Typed, NEW j \in 0 .. desc.items - 1, UnLink(q[j])
  PROVE  /\ Ring(TakenOut(q, j), desc', item') /\ Typed'
         /\ desc'.items = desc.items - 1 /\ desc'.sorted = desc.sorted
         /\ \A b \in Addr : b # q[j] => item'[b].name = item[b].name
<1> DEFINE n == desc.items   r == TakenOut(q, j)
<1>1. n \in Nat /\ desc \in DescSet /\ item \in [Addr -> ItemSet]
  BY DEF Typed, DescSet
<1>2. q \in [Int -> DescLink] /\ None \notin Addr
  BY CursAssumption DEF Ring
<1>3. \A k \in Int : q[k] # None <=> k \in 0 .. n - 1
  BY DEF Ring
<1>4. \A i, k \in 0 .. n - 1 : q[i] = q[k] => i = k
  BY DEF Ring
<1>5. \A b \in Addr : item[b].linked <=> \E k \in 0 .. n - 1 : q[k] = b
  BY DEF Ring
<1>6. desc.first = q[0] /\ desc.last = q[n - 1]
  BY DEF Ring
<1>7. \A k \in 0 .. n - 1 : item[q[k]].prev = q[k - 1] /\ item[q[k]].next = q[k + 1]
  BY DEF Ring
<1>8. PICK a \in Addr : a = q[j]
  BY <1>1, <1>2, <1>3 DEF DescLink
<1>9. \A k \in Int : q[k] # None => q[k] \in Addr
  BY <1>2 DEF DescLink
<1>10. j - 1 \in Int /\ j + 1 \in Int /\ q[j - 1] \in DescLink /\ q[j + 1] \in DescLink
  BY <1>1, <1>2
<1>11. PICK p, s \in DescLink : p = q[j - 1] /\ s = q[j + 1]
  BY <1>10
<1>12. item[a].prev = p /\ item[a].next = s
  BY <1>7, <1>8, <1>11
<1>13. desc' = [desc EXCEPT !.first = IF @ = a THEN s ELSE @,
                            !.last  = IF @ = a THEN p ELSE @,
                            !.items = @ - 1]
  BY <1>8, <1>12 DEF UnLink
<1>14. /\ item'[a] = Free
       /\ \A b \in Addr : b # a =>
            item'[b] = [item[b] EXCEPT !.next = IF b = p THEN s ELSE @,
                                       !.prev = IF b = s THEN p ELSE @]
  BY <1>8, <1>12 DEF UnLink
<1>15. DOMAIN item' = Addr /\ item' = [b \in Addr |-> item'[b]]
  BY DEF UnLink
<1>16. /\ desc'.items = n - 1 /\ desc'.sorted = desc.sorted
       /\ desc'.first = IF desc.first = a THEN s ELSE desc.first
       /\ desc'.last = IF desc.last = a THEN p ELSE desc.last
  BY <1>1, <1>13 DEF DescSet
<1>17. desc' \in DescSet
  <2>1. /\ desc' = [first |-> desc'.first, last |-> desc'.last, items |-> n - 1, sorted |-> desc.sorted]
        /\ desc'.first \in DescLink /\ desc'.last \in DescLink
    BY <1>1, <1>11, <1>13 DEF DescSet
  <2> QED BY <2>1, <1>1 DEF DescSet
<1>18. ASSUME NEW b \in Addr, b # a
       PROVE /\ item'[b].linked = item[b].linked /\ item'[b].name = item[b].name
             /\ item'[b].next = IF b = p THEN s ELSE item[b].next
             /\ item'[b].prev = IF b = s THEN p ELSE item[b].prev
             /\ item'[b] \in ItemSet
  <2>1. item[b] \in ItemSet
    BY <1>1
  <2>2. PICK x \in ItemSet : x = item[b]
    BY <2>1
  <2>3. PICK y : y = item'[b]
    OBVIOUS
  <2>4. y = [x EXCEPT !.next = IF b = p THEN s ELSE @, !.prev = IF b = s THEN p ELSE @]
    BY <1>14, <1>18, <2>2, <2>3
  <2>5. /\ y.linked = x.linked /\ y.name = x.name
        /\ y.next = IF b = p THEN s ELSE x.next
        /\ y.prev = IF b = s THEN p ELSE x.prev
        /\ y \in ItemSet
    BY ONLY <2>4, x \in ItemSet, p \in DescLink, s \in DescLink DEF ItemSet
  <2> QED BY <2>2, <2>3, <2>5
<1>19. ~ item'[a].linked /\ item'[a] \in ItemSet
  <2>1. PICK y : y = item'[a]
    OBVIOUS
  <2>2. y = [linked |-> FALSE, name |-> <<>>, prev |-> None, next |-> None]
    BY <2>1, <1>14 DEF Free
  <2>3. ~ y.linked /\ y \in ItemSet
    BY ONLY <2>2 DEF ItemSet, DescLink
  <2> QED BY <2>1, <2>3
<1>20. \A k \in Int : r[k] = IF k < j THEN q[k] ELSE q[k + 1]
  BY DEF TakenOut
<1>21. r \in [Int -> DescLink]
  BY <1>2 DEF TakenOut, DescLink
<1>22. Ring(r, desc', item')
  <2> HIDE DEF r
  <2>1. \A k \in Int : r[k] # None <=> k \in 0 .. n - 2
    BY <1>1, <1>2, <1>3, <1>20
  <2> DEFINE old(x) == IF x < j THEN x ELSE x + 1
  <2>2. ASSUME NEW k \in 0 .. n - 2
        PROVE  /\ old(k) \in 0 .. n - 1 /\ old(k) # j /\ r[k] = q[old(k)]
               /\ r[k] \in Addr /\ r[k] # a
    <3>1. old(k) \in 0 .. n - 1 /\ old(k) # j /\ r[k] = q[old(k)]
      BY <1>1, <1>20
    <3> HIDE DEF old
    <3> QED BY <3>1, <1>3, <1>4, <1>8, <1>9
  <2>3. \A i, k \in 0 .. n - 2 : r[i] = r[k] => i = k
    <3> SUFFICES ASSUME NEW i \in 0 .. n - 2, NEW k \in 0 .. n - 2, r[i] = r[k] PROVE i = k
      OBVIOUS
    <3>1. old(i) = old(k)
      <4> HIDE DEF old
      <4> QED BY <2>2, <1>4
    <3> QED BY <3>1
  <2>4. \A b \in Addr : item'[b].linked <=> \E k \in 0 .. n - 2 : r[k] = b
    <3> TAKE b \in Addr
    <3>1. CASE b = a
      BY <3>1, <1>19, <2>2
    <3>2. CASE b # a
      <4>1. item'[b].linked = item[b].linked
        BY <3>2, <1>18
      <4>2. ASSUME NEW k \in 0 .. n - 1, q[k] = b PROVE \E i \in 0 .. n - 2 : r[i] = b
        <5>1. CASE k < j
          BY <5>1, <4>2, <1>20, <1>1
        <5>2. CASE k > j
          <6>1. k - 1 \in 0 .. n - 2 /\ r[k - 1] = q[k]
            BY <5>2, <1>20, <1>1
          <6> QED BY <6>1, <4>2
        <5> QED BY <5>1, <5>2, <3>2, <4>2, <1>8
      <4>3. ASSUME NEW k \in 0 .. n - 2, r[k] = b PROVE \E i \in 0 .. n - 1 : q[i] = b
        <5> HIDE DEF old
        <5> QED BY <4>3, <2>2
      <4> QED BY <4>1, <4>2, <4>3, <1>5
    <3> QED BY <3>1, <3>2
  <2>5. desc'.first = r[0]
    <3>1. desc.first = a <=> j = 0
      BY <1>1, <1>4, <1>6, <1>8
    <3>2. j = 0 => r[0] = s
      BY <1>20, <1>11
    <3>3. j # 0 => r[0] = q[0]
      BY <1>20, <1>1
    <3> QED BY <3>1, <3>2, <3>3, <1>6, <1>16
  <2>6. desc'.last = r[n - 2]
    <3>1. desc.last = a <=> j = n - 1
      BY <1>1, <1>4, <1>6, <1>8
    <3>2. j = n - 1 => r[n - 2] = p
      BY <1>20, <1>11, <1>1
    <3>3. j # n - 1 => r[n - 2] = q[n - 1]
      BY <1>20, <1>1
    <3> QED BY <3>1, <3>2, <3>3, <1>6, <1>16
  <2>7. \A k \in 0 .. n - 2 : item'[r[k]].prev = r[k - 1] /\ item'[r[k]].next = r[k + 1]
    <3> TAKE k \in 0 .. n - 2
    <3> DEFINE o == old(k)
    <3>1. o \in 0 .. n - 1 /\ o # j /\ r[k] = q[o] /\ q[o] \in Addr /\ q[o] # a
      BY <2>2
    <3>2. item[q[o]].prev = q[o - 1] /\ item[q[o]].next = q[o + 1]
      <4> HIDE DEF o
      <4> QED BY <3>1, <1>7
    <3>3. q[o] = p <=> o = j - 1
      <4> HIDE DEF o
      <4> QED BY <3>1, <1>1, <1>2, <1>3, <1>4, <1>11
    <3>4. q[o] = s <=> o = j + 1
      <4> HIDE DEF o
      <4> QED BY <3>1, <1>1, <1>2, <1>3, <1>4, <1>11
    <3>5. r[k - 1] = IF o = j + 1 THEN p ELSE q[o - 1]
      BY <1>1, <1>11, <1>20
    <3>6. r[k + 1] = IF o = j - 1 THEN s ELSE q[o + 1]
      BY <1>1, <1>11, <1>20
    <3> HIDE DEF o
    <3> QED BY <3>1, <3>2, <3>3, <3>4, <3>5, <3>6, <1>18
  <2>8. desc'.items - 1 = n - 2 /\ 0 .. desc'.items - 1 = 0 .. n - 2
    BY <1>1, <1>16
  <2> QED BY <2>1, <2>3, <2>4, <2>5, <2>6, <2>7, <2>8, <1>17, <1>21 DEF Ring, DescSet
<1>23. Typed'
  BY <1>15, <1>17, <1>18, <1>19 DEF Typed
<1> QED BY <1>8, <1>16, <1>18, <1>22, <1>23

\* P2PmsgDesc_Swap exchanges two blocks of the ring, adjacent or not.
LEMMA SwapKeeps ==
  ASSUME NEW q, Ring(q, desc, item), Typed,
         NEW i \in 0 .. desc.items - 1, NEW j \in 0 .. desc.items - 1, i # j,
         SwapLinks(q[i], q[j])
  PROVE  /\ Ring(Exchanged(q, i, j), desc', item') /\ Typed'
         /\ desc'.items = desc.items /\ desc'.sorted = desc.sorted
         /\ \A b \in Addr : item'[b].name = item[b].name
<1> DEFINE n == desc.items   r == Exchanged(q, i, j)
           t(k) == IF k = i THEN j ELSE IF k = j THEN i ELSE k
<1>1. n \in Nat /\ desc \in DescSet /\ item \in [Addr -> ItemSet]
  BY DEF Typed, DescSet
<1>2. q \in [Int -> DescLink] /\ None \notin Addr
  BY CursAssumption DEF Ring
<1>3. \A k \in Int : q[k] # None <=> k \in 0 .. n - 1
  BY DEF Ring
<1>4. \A h, k \in 0 .. n - 1 : q[h] = q[k] => h = k
  BY DEF Ring
<1>5. \A b \in Addr : item[b].linked <=> \E k \in 0 .. n - 1 : q[k] = b
  BY DEF Ring
<1>6. desc.first = q[0] /\ desc.last = q[n - 1]
  BY DEF Ring
<1>7. \A k \in 0 .. n - 1 : item[q[k]].prev = q[k - 1] /\ item[q[k]].next = q[k + 1]
  BY DEF Ring
<1>8. PICK a, b \in Addr : a = q[i] /\ b = q[j]
  BY <1>1, <1>2, <1>3 DEF DescLink
<1>9. a # b
  BY <1>8, <1>4
<1> DEFINE twin(x) == IF x = a THEN b ELSE IF x = b THEN a ELSE x
<1>10. desc' = [desc EXCEPT !.first = twin(@), !.last = twin(@)]
  BY <1>8 DEF SwapLinks
<1>11. \A x \in Addr : item'[x] =
         IF item[x].linked
         THEN [item[x] EXCEPT !.prev = twin(item[twin(x)].prev), !.next = twin(item[twin(x)].next)]
         ELSE item[x]
  BY <1>8 DEF SwapLinks, Linked
<1>12. DOMAIN item' = Addr /\ item' = [x \in Addr |-> item'[x]]
  BY DEF SwapLinks
<1>13. ASSUME NEW k \in Int PROVE t(k) \in Int /\ t(t(k)) = k /\ (k \in 0 .. n - 1 <=> t(k) \in 0 .. n - 1)
  BY <1>1
<1>14. ASSUME NEW k \in Int PROVE twin(q[k]) = q[t(k)]
  <2>1. CASE k = i
    BY <2>1, <1>8
  <2>2. CASE k = j
    BY <2>2, <1>8, <1>9
  <2>3. CASE k # i /\ k # j
    <3>1. q[k] # a /\ q[k] # b
      BY <2>3, <1>1, <1>3, <1>4, <1>8, <1>2
    <3> QED BY <2>3, <3>1
  <2> QED BY <2>1, <2>2, <2>3
<1>15. \A k \in Int : r[k] = q[t(k)]
  BY DEF Exchanged
<1>16. r \in [Int -> DescLink]
  BY <1>1, <1>2 DEF Exchanged
<1>17. \A x \in DescLink : twin(x) \in DescLink
  BY DEF DescLink
<1>18. \A x \in Addr : twin(x) \in Addr
  OBVIOUS
<1>19. /\ desc'.items = n /\ desc'.sorted = desc.sorted
       /\ desc'.first = twin(desc.first) /\ desc'.last = twin(desc.last) /\ desc' \in DescSet
  <2>1. PICK f, l \in DescLink : f = twin(desc.first) /\ l = twin(desc.last)
    BY <1>1, <1>17 DEF DescSet
  <2>2. desc' = [first |-> f, last |-> l, items |-> n, sorted |-> desc.sorted]
    BY <1>1, <1>10, <2>1 DEF DescSet
  <2>3. n \in Nat /\ desc.sorted \in BOOLEAN
    BY <1>1 DEF DescSet
  <2> QED BY <2>1, <2>2, <2>3 DEF DescSet
<1>20. ASSUME NEW x \in Addr
       PROVE /\ item'[x].linked = item[x].linked /\ item'[x].name = item[x].name
             /\ item[x].linked => /\ item'[x].prev = twin(item[twin(x)].prev)
                                  /\ item'[x].next = twin(item[twin(x)].next)
             /\ item'[x] \in ItemSet
  <2>1. item[x] \in ItemSet /\ item[twin(x)] \in ItemSet
    BY <1>1, <1>18
  <2>2. PICK p, s \in DescLink : p = twin(item[twin(x)].prev) /\ s = twin(item[twin(x)].next)
    <3>1. item[twin(x)].prev \in DescLink /\ item[twin(x)].next \in DescLink
      BY <2>1 DEF ItemSet
    <3> QED BY <3>1, <1>17
  <2>3. PICK y \in ItemSet : y = item[x]
    BY <2>1
  <2>4. PICK z : z = item'[x]
    OBVIOUS
  <2>5. z = IF y.linked THEN [y EXCEPT !.prev = p, !.next = s] ELSE y
    BY <1>11, <2>2, <2>3, <2>4
  <2>6. z.linked = y.linked /\ z.name = y.name /\ z \in ItemSet /\ (y.linked => z.prev = p /\ z.next = s)
    BY ONLY <2>5, y \in ItemSet, p \in DescLink, s \in DescLink DEF ItemSet
  <2> QED BY <2>2, <2>3, <2>4, <2>6
<1> HIDE DEF twin
<1>21. Ring(r, desc', item')
  <2> HIDE DEF r
  <2>1. \A k \in Int : r[k] # None <=> k \in 0 .. n - 1
    <3> HIDE DEF t
    <3> QED BY <1>3, <1>13, <1>15
  <2>2. \A h, k \in 0 .. n - 1 : r[h] = r[k] => h = k
    <3> SUFFICES ASSUME NEW h \in 0 .. n - 1, NEW k \in 0 .. n - 1, r[h] = r[k] PROVE h = k
      OBVIOUS
    <3>1. t(h) = t(k)
      <4> HIDE DEF t
      <4> QED BY <1>4, <1>13, <1>15
    <3> QED BY <3>1
  <2>3. ASSUME NEW x \in Addr PROVE item'[x].linked <=> \E k \in 0 .. n - 1 : r[k] = x
    <3>1. (\E k \in 0 .. n - 1 : q[k] = x) => \E k \in 0 .. n - 1 : r[k] = x
      <4> SUFFICES ASSUME NEW k \in 0 .. n - 1, q[k] = x PROVE \E h \in 0 .. n - 1 : r[h] = x
        OBVIOUS
      <4>1. k \in Int /\ t(k) \in 0 .. n - 1 /\ t(t(k)) = k
        BY <1>1
      <4> HIDE DEF t
      <4>2. r[t(k)] = q[k]
        BY <4>1, <1>15
      <4> QED BY <4>1, <4>2
    <3>2. (\E k \in 0 .. n - 1 : r[k] = x) => \E k \in 0 .. n - 1 : q[k] = x
      <4> HIDE DEF t
      <4> QED BY <1>13, <1>15
    <3> QED BY <3>1, <3>2, <1>5, <1>20
  <2>4. desc'.first = r[0] /\ desc'.last = r[n - 1]
    <3> HIDE DEF t
    <3> QED BY <1>1, <1>6, <1>14, <1>15, <1>19
  <2>5. ASSUME NEW k \in 0 .. n - 1
        PROVE  item'[r[k]].prev = r[k - 1] /\ item'[r[k]].next = r[k + 1]
    <3>1. t(k) \in 0 .. n - 1 /\ t(t(k)) = k /\ k \in Int /\ t(k) \in Int /\ k - 1 \in Int /\ k + 1 \in Int
      BY <1>1
    <3> HIDE DEF t
    <3>2. r[k] = q[t(k)] /\ r[k - 1] = q[t(k - 1)] /\ r[k + 1] = q[t(k + 1)]
      BY <3>1, <1>15
    <3>3. twin(q[t(k)]) = q[k] /\ twin(q[k - 1]) = q[t(k - 1)] /\ twin(q[k + 1]) = q[t(k + 1)]
      BY <3>1, <1>14
    <3>4. q[t(k)] \in Addr /\ item[q[t(k)]].linked
      BY <3>1, <1>2, <1>3, <1>5 DEF DescLink
    <3>5. item[q[k]].prev = q[k - 1] /\ item[q[k]].next = q[k + 1]
      BY <1>7
    <3> QED BY <3>2, <3>3, <3>4, <3>5, <1>20
  <2> QED BY <2>1, <2>2, <2>3, <2>4, <2>5, <1>16, <1>19 DEF Ring
<1>22. Typed'
  BY <1>12, <1>19, <1>20 DEF Typed
<1> QED BY <1>19, <1>20, <1>21, <1>22

-----------------------------------------------------------------------------
(***************************************************************************)
(* What the walks along the chain find.                                    *)
(***************************************************************************)

Steps == 0 .. Cardinality(Addr)
WalkFirst(d, it) ==
  CHOOSE f : f = [k \in Steps |-> IF k = 0 THEN d.first
                                  ELSE IF f[k - 1] = None THEN None ELSE it[f[k - 1]].next]
WalkLast(d, it) ==
  CHOOSE f : f = [k \in Steps |-> IF k = 0 THEN d.last
                                  ELSE IF f[k - 1] = None THEN None ELSE it[f[k - 1]].prev]

\* The arena has finitely many blocks.
LEMMA ArenaIsFinite == Cardinality(Addr) \in Nat /\ IsFiniteSet(Addr)
BY CursAssumption, FS_CardinalityType

\* The count is the number of linked blocks, and the arena holds them.
LEMMA RingCounts ==
  ASSUME NEW q, NEW d, NEW it, Ring(q, d, it), d.items \in Nat
  PROVE  /\ d.items \in Steps
         /\ Cardinality({a \in Addr : it[a].linked}) = d.items
<1> DEFINE n == d.items   L == {a \in Addr : it[a].linked}   f == [k \in 1 .. n |-> q[k - 1]]
<1>1. /\ q \in [Int -> DescLink] /\ \A k \in Int : q[k] # None <=> k \in 0 .. n - 1
      /\ \A j, k \in 0 .. n - 1 : q[j] = q[k] => j = k
      /\ \A a \in Addr : it[a].linked <=> \E k \in 0 .. n - 1 : q[k] = a
  BY DEF Ring
<1>2. \A k \in 1 .. n : k - 1 \in 0 .. n - 1 /\ q[k - 1] \in L
  <2> TAKE k \in 1 .. n
  <2>1. k - 1 \in 0 .. n - 1
    OBVIOUS
  <2>2. q[k - 1] \in Addr
    BY <2>1, <1>1 DEF DescLink
  <2> QED BY <2>1, <2>2, <1>1
<1>3. f \in [1 .. n -> L]
  BY <1>2
<1>4. \A j, k \in 1 .. n : f[j] = f[k] => j = k
  BY <1>1, <1>2
<1>5. \A a \in L : \E k \in 1 .. n : f[k] = a
  <2> TAKE a \in L
  <2>1. PICK k \in 0 .. n - 1 : q[k] = a
    BY <1>1
  <2>2. k + 1 \in 1 .. n /\ f[k + 1] = a
    BY <2>1
  <2> QED BY <2>2
<1>6. f \in Surjection(1 .. n, L) /\ f \in Injection(1 .. n, L)
  <2> HIDE DEF f, L
  <2> QED BY <1>3, <1>4, <1>5 DEF Surjection, Injection, IsInjective
<1>7. IsFiniteSet(1 .. n) /\ Cardinality(1 .. n) = n
  <2>1. n \in Nat
    OBVIOUS
  <2> HIDE DEF n
  <2>2. \A m \in Nat : IsFiniteSet(1 .. m) /\ Cardinality(1 .. m) = m
    BY ONLY FS_Interval
  <2> QED BY ONLY <2>1, <2>2
<1>8. Cardinality(L) = n /\ IsFiniteSet(L)
  <2> HIDE DEF f, L
  <2> QED BY <1>6, <1>7, FS_Surjection
<1>9. Cardinality(L) <= Cardinality(Addr)
  <2>1. L \in SUBSET Addr
    OBVIOUS
  <2> HIDE DEF L
  <2> QED BY <2>1, FS_Subset, ArenaIsFinite
<1> QED BY <1>8, <1>9, ArenaIsFinite DEF Steps

\* From the first the chain is the ring, and nothing once the ring is over.
LEMMA FirstFollows ==
  ASSUME NEW q, NEW d, NEW it, Ring(q, d, it), d.items \in Nat
  PROVE  WalkFirst(d, it) = [k \in Steps |-> q[k]]
<1> DEFINE n == d.items   N == Cardinality(Addr)
           Follows(f) == f = [k \in Steps |-> IF k = 0 THEN d.first
                                ELSE IF f[k - 1] = None THEN None ELSE it[f[k - 1]].next]
           g == [k \in Steps |-> q[k]]
<1>1. /\ q \in [Int -> DescLink] /\ \A k \in Int : q[k] # None <=> k \in 0 .. n - 1
      /\ d.first = q[0] /\ \A k \in 0 .. n - 1 : it[q[k]].next = q[k + 1]
  BY DEF Ring
<1>2. N \in Nat
  BY ArenaIsFinite
<1>3. ASSUME NEW k \in Steps, k # 0
      PROVE  k - 1 \in Steps /\ k - 1 \in 0 .. N - 1 /\ q[k] = IF q[k - 1] = None THEN None ELSE it[q[k - 1]].next
  <2>1. k - 1 \in Steps /\ k - 1 \in 0 .. N - 1 /\ k - 1 \in Int /\ k \in Int
    BY <1>2, <1>3 DEF Steps
  <2>2. q[k - 1] = None => q[k] = None
    BY <2>1, <1>1
  <2>3. q[k - 1] # None => it[q[k - 1]].next = q[(k - 1) + 1]
    BY <2>1, <1>1
  <2> QED BY <2>1, <2>2, <2>3
<1>4. Follows(g)
  <2>1. ASSUME NEW k \in Steps
        PROVE  q[k] = IF k = 0 THEN d.first
                      ELSE IF g[k - 1] = None THEN None ELSE it[g[k - 1]].next
    <3>1. CASE k = 0
      BY <3>1, <1>1
    <3>2. CASE k # 0
      <4>1. g[k - 1] = q[k - 1]
        BY <3>2, <1>3
      <4> HIDE DEF g
      <4> QED BY <3>2, <4>1, <1>3
    <3> QED BY <3>1, <3>2
  <2> QED BY <2>1
<1>5. ASSUME NEW f, Follows(f) PROVE f = g
  <2>1. \A k \in Steps : f[k] = IF k = 0 THEN d.first
                                ELSE IF f[k - 1] = None THEN None ELSE it[f[k - 1]].next
    BY <1>5
  <2> DEFINE Good == {k \in Steps : f[k] = q[k]}
  <2>2. 0 \in Good
    BY <2>1, <1>1, <1>2 DEF Steps
  <2>3. \A k \in 0 .. N - 1 : k \in Good => k + 1 \in Good
    <3> SUFFICES ASSUME NEW k \in 0 .. N - 1, k \in Good PROVE k + 1 \in Good
      OBVIOUS
    <3>1. k + 1 \in Steps /\ k + 1 # 0 /\ (k + 1) - 1 = k
      BY <1>2 DEF Steps
    <3>2. PICK x : x = k + 1
      OBVIOUS
    <3>3. x - 1 = k /\ x \in Steps /\ x # 0
      BY <3>1, <3>2
    <3>4. f[x] = IF f[k] = None THEN None ELSE it[f[k]].next
      BY <2>1, <3>3
    <3>5. q[x] = IF q[k] = None THEN None ELSE it[q[k]].next
      BY <1>3, <3>3
    <3>6. f[x] = q[x]
      BY <3>4, <3>5
    <3> QED BY <3>2, <3>3, <3>6
  <2>4. \A k \in 0 .. N : k \in Good
    <3> HIDE DEF Good
    <3> QED BY <1>2, <2>2, <2>3, NumberInduction
  <2>5. \A k \in Steps : f[k] = q[k]
    BY <2>4 DEF Steps
  <2>6. f = [k \in Steps |-> f[k]]
    BY <1>5
  <2> QED BY <2>5, <2>6
<1> HIDE DEF g
<1>6. \E f : Follows(f)
  BY <1>4
<1>7. Follows(WalkFirst(d, it))
  BY <1>6 DEF WalkFirst
<1>8. WalkFirst(d, it) = g
  <2> HIDE DEF Follows
  <2> QED BY <1>5, <1>7
<1> QED BY <1>8 DEF g

\* From the last it is the ring backward.
LEMMA LastFollows ==
  ASSUME NEW q, NEW d, NEW it, Ring(q, d, it), d.items \in Nat
  PROVE  WalkLast(d, it) = [k \in Steps |-> q[d.items - 1 - k]]
<1> DEFINE n == d.items   N == Cardinality(Addr)
           Follows(f) == f = [k \in Steps |-> IF k = 0 THEN d.last
                                ELSE IF f[k - 1] = None THEN None ELSE it[f[k - 1]].prev]
           g == [k \in Steps |-> q[n - 1 - k]]
<1>1. /\ q \in [Int -> DescLink] /\ \A k \in Int : q[k] # None <=> k \in 0 .. n - 1
      /\ d.last = q[n - 1] /\ \A k \in 0 .. n - 1 : it[q[k]].prev = q[k - 1]
  BY DEF Ring
<1>2. N \in Nat
  BY ArenaIsFinite
<1>3. ASSUME NEW k \in Steps, k # 0
      PROVE  /\ k - 1 \in Steps /\ k - 1 \in 0 .. N - 1
             /\ q[n - 1 - k] = IF q[n - 1 - (k - 1)] = None THEN None ELSE it[q[n - 1 - (k - 1)]].prev
  <2>1. k - 1 \in Steps /\ k - 1 \in 0 .. N - 1 /\ k \in Int /\ k > 0
    BY <1>2, <1>3 DEF Steps
  <2>2. PICK x \in Int : x = n - 1 - (k - 1)
    BY <2>1
  <2>3. x - 1 = n - 1 - k
    BY <2>1, <2>2
  <2>4. q[x] = None => q[x - 1] = None
    BY <2>1, <2>2, <1>1
  <2>5. q[x] # None => it[q[x]].prev = q[x - 1]
    BY <1>1
  <2> QED BY <2>1, <2>2, <2>3, <2>4, <2>5
<1>4. Follows(g)
  <2>1. ASSUME NEW k \in Steps
        PROVE  q[n - 1 - k] = IF k = 0 THEN d.last
                      ELSE IF g[k - 1] = None THEN None ELSE it[g[k - 1]].prev
    <3>1. CASE k = 0
      BY <3>1, <1>1
    <3>2. CASE k # 0
      <4>1. g[k - 1] = q[n - 1 - (k - 1)]
        BY <3>2, <1>3
      <4> HIDE DEF g
      <4> QED BY <3>2, <4>1, <1>3
    <3> QED BY <3>1, <3>2
  <2> QED BY <2>1
<1>5. ASSUME NEW f, Follows(f) PROVE f = g
  <2>1. \A k \in Steps : f[k] = IF k = 0 THEN d.last
                                ELSE IF f[k - 1] = None THEN None ELSE it[f[k - 1]].prev
    BY <1>5
  <2> DEFINE Good == {k \in Steps : f[k] = q[n - 1 - k]}
  <2>2. 0 \in Good
    BY <2>1, <1>1, <1>2 DEF Steps
  <2>3. \A k \in 0 .. N - 1 : k \in Good => k + 1 \in Good
    <3> SUFFICES ASSUME NEW k \in 0 .. N - 1, k \in Good PROVE k + 1 \in Good
      OBVIOUS
    <3>1. k + 1 \in Steps /\ k + 1 # 0 /\ (k + 1) - 1 = k
      BY <1>2 DEF Steps
    <3>2. PICK x : x = k + 1
      OBVIOUS
    <3>3. x - 1 = k /\ x \in Steps /\ x # 0
      BY <3>1, <3>2
    <3>4. f[x] = IF f[k] = None THEN None ELSE it[f[k]].prev
      BY <2>1, <3>3
    <3>5. q[n - 1 - x] = IF q[n - 1 - k] = None THEN None ELSE it[q[n - 1 - k]].prev
      BY <1>3, <3>3
    <3>6. f[x] = q[n - 1 - x]
      BY <3>4, <3>5
    <3> QED BY <3>2, <3>3, <3>6
  <2>4. \A k \in 0 .. N : k \in Good
    <3> HIDE DEF Good
    <3> QED BY <1>2, <2>2, <2>3, NumberInduction
  <2>5. \A k \in Steps : f[k] = q[n - 1 - k]
    BY <2>4 DEF Steps
  <2>6. f = [k \in Steps |-> f[k]]
    BY <1>5
  <2> QED BY <2>5, <2>6
<1> HIDE DEF g
<1>6. \E f : Follows(f)
  BY <1>4
<1>7. Follows(WalkLast(d, it))
  BY <1>6 DEF WalkLast
<1>8. WalkLast(d, it) = g
  <2> HIDE DEF Follows
  <2> QED BY <1>5, <1>7
<1> QED BY <1>8 DEF g

\* The walks of the model are those two, now and in the next state.
LEMMA WalksAre ==
  /\ FromFirst = WalkFirst(desc, item) /\ FromLast = WalkLast(desc, item)
  /\ FromFirst' = WalkFirst(desc', item')
BY DEF FromFirst, FromLast, WalkFirst, WalkLast, Steps

\* What the walks visit: the ring, from either end.
LEMMA Walked ==
  ASSUME NEW q, Ring(q, desc, item), Typed
  PROVE  /\ DOMAIN FromFirst = Steps /\ DOMAIN FromLast = Steps
         /\ \A k \in Steps : FromFirst[k] = q[k] /\ FromLast[k] = q[desc.items - 1 - k]
         /\ desc.items \in Steps /\ Cardinality(Linked) = desc.items
         /\ \A a \in Linked : \E k \in 0 .. desc.items - 1 : q[k] = a
<1>1. desc.items \in Nat
  BY DEF Typed, DescSet
<1>2. desc.items \in Steps /\ Cardinality(Linked) = desc.items
  BY <1>1, RingCounts DEF Linked
<1>3. FromFirst = [k \in Steps |-> q[k]] /\ FromLast = [k \in Steps |-> q[desc.items - 1 - k]]
  BY <1>1, WalksAre, FirstFollows, LastFollows
<1>4. \A a \in Linked : \E k \in 0 .. desc.items - 1 : q[k] = a
  BY DEF Ring, Linked
<1> QED BY <1>2, <1>3, <1>4

\* A set of numbers within bounds has a least one.
LEMMA LeastNumber ==
  ASSUME NEW S, S \subseteq Nat, IsFiniteSet(S), S # {}
  PROVE  \E a \in S : \A b \in S : a <= b
<1> DEFINE rank == [a \in S |-> a]
<1>1. \A a \in S : rank[a] \in Int /\ rank[a] = a
  OBVIOUS
<1>2. \E a \in S : \A b \in S : rank[a] <= rank[b]
  <2> HIDE DEF rank
  <2> QED BY <1>1, LeastRank
<1> QED BY <1>1, <1>2

\* The arena hands out a free block while it has one.
LEMMA AllocFree ==
  ASSUME Linked # Addr PROVE Alloc \in Addr /\ ~ item[Alloc].linked
<1> DEFINE S == Addr \ Linked
<1>1. S \in SUBSET Addr /\ S # {} /\ S \subseteq Nat
  BY CursAssumption DEF Linked
<1>2. IsFiniteSet(S)
  <2> HIDE DEF S
  <2> QED BY <1>1, ArenaIsFinite, FS_Subset
<1>3. \E a \in S : \A b \in S : a <= b
  <2> HIDE DEF S
  <2> QED BY <1>1, <1>2, LeastNumber
<1>4. Alloc \in S
  BY <1>3 DEF Alloc
<1> QED BY <1>4 DEF Linked

\* Goto(int): the cache, or the block of that ordinal from either end.
LEMMA IndexedIs ==
  ASSUME NEW q, Ring(q, desc, item), Typed, NEW r, NEW i \in Nat
  PROVE  Indexed(r, i) = IF r.n = i /\ r.at # None THEN r
                         ELSE IF i < desc.items THEN [n |-> i, at |-> q[i]]
                         ELSE [n |-> desc.items, at |-> None]
<1> DEFINE n == desc.items
           x == IF i <= n \div 2 THEN FromFirst[i] ELSE IF i < n THEN FromLast[n - 1 - i] ELSE None
<1>1. /\ n \in Nat /\ n \in Steps /\ Cardinality(Addr) \in Nat
      /\ \A k \in Steps : FromFirst[k] = q[k] /\ FromLast[k] = q[n - 1 - k]
  BY Walked, ArenaIsFinite DEF Typed, DescSet
<1>2. q[i] # None <=> i < n
  BY <1>1 DEF Ring
<1>3. CASE i <= n \div 2
  <2>1. i \in Steps /\ i <= n
    BY <1>1, <1>3 DEF Steps
  <2>2. x = q[i]
    BY <1>1, <1>3, <2>1
  <2> QED BY <1>2, <2>2 DEF Indexed
<1>4. CASE ~ (i <= n \div 2) /\ i < n
  <2>1. n - 1 - i \in Steps /\ n - 1 - (n - 1 - i) = i
    BY <1>1, <1>4 DEF Steps
  <2>2. x = q[i]
    BY <1>1, <1>4, <2>1
  <2> QED BY <1>2, <2>2, <1>4 DEF Indexed
<1>5. CASE ~ (i <= n \div 2) /\ ~ (i < n)
  BY <1>5 DEF Indexed
<1> QED BY <1>3, <1>4, <1>5

\* Goto(name): the item under the cursor, or the first of that name, or none.
FoundBy(q, r, nm, s) ==
    \/ s = r /\ r.at # None /\ item[r.at].name = nm
    \/ s = Blank /\ \A a \in Addr : item[a].linked => item[a].name # nm
    \/ \E k \in 0 .. desc.items - 1 : s = [n |-> k, at |-> q[k]] /\ item[q[k]].name = nm

\* P3PmsgCurs::Goto(name) finds what FoundBy allows.
LEMMA NamedIs ==
  ASSUME NEW q, Ring(q, desc, item), Typed, NEW r, NEW nm
  PROVE  FoundBy(q, r, nm, NamedItem(r, nm))
<1> DEFINE n == desc.items
           hits == {k \in DOMAIN FromFirst : FromFirst[k] # None /\ NameAt(k) = nm}
           first == CHOOSE i \in hits : \A j \in hits : i <= j
<1>1. /\ n \in Nat /\ n \in Steps /\ Cardinality(Addr) \in Nat /\ DOMAIN FromFirst = Steps
      /\ \A k \in Steps : FromFirst[k] = q[k]
  BY Walked, ArenaIsFinite DEF Typed, DescSet
<1>2. \A k \in Int : q[k] # None <=> k \in 0 .. n - 1
  BY DEF Ring
<1>3. \A k : k \in hits <=> k \in 0 .. n - 1 /\ item[q[k]].name = nm
  BY <1>1, <1>2 DEF NameAt, Steps
<1>4. NamedItem(r, nm) = IF r.at # None /\ item[r.at].name = nm THEN r
                     ELSE IF hits = {} THEN Blank ELSE [n |-> first, at |-> FromFirst[first]]
  BY DEF NamedItem
<1>5. hits = {} => \A a \in Addr : item[a].linked => item[a].name # nm
  BY <1>3 DEF Ring
<1>6. hits # {} => first \in hits
  <2> SUFFICES ASSUME hits # {} PROVE \E i \in hits : \A j \in hits : i <= j
    OBVIOUS
  <2>1. hits \in SUBSET (0 .. n - 1) /\ hits \subseteq Nat
    <3> HIDE DEF hits
    <3> QED BY <1>3, <1>1
  <2>2. IsFiniteSet(hits)
    <3>1. 0 \in Int /\ n - 1 \in Int
      BY <1>1
    <3>2. IsFiniteSet(0 .. n - 1)
      BY <3>1, FS_Interval
    <3> HIDE DEF hits
    <3> QED BY <2>1, <3>2, FS_Subset
  <2> HIDE DEF hits
  <2> QED BY <2>1, <2>2, LeastNumber
<1> HIDE DEF hits, first
<1>7. hits # {} => /\ first \in 0 .. n - 1 /\ item[q[first]].name = nm
                   /\ FromFirst[first] = q[first]
  <2>1. hits # {} => first \in 0 .. n - 1 /\ item[q[first]].name = nm
    BY <1>3, <1>6
  <2>2. \A k \in 0 .. n - 1 : k \in Steps
    BY <1>1 DEF Steps
  <2> QED BY <1>1, <2>1, <2>2
<1> QED BY <1>4, <1>5, <1>7 DEF FoundBy

-----------------------------------------------------------------------------
(***************************************************************************)
(* The place of a name in a sorted collection.                             *)
(***************************************************************************)

\* No name in use begins another: the comparison then tells them apart, which
\* it does not in general (it looks at the letters both have).
Apart == \A s, t \in Name : s # t => Less(s, t) \/ Less(t, s)

\* The comparison of names goes one way.
LEMMA LessOneWay ==
  ASSUME NEW s \in Name, NEW t \in Name, Less(s, t)
  PROVE  ~ Less(t, s) /\ ~ Before(t, s)
<1>1. s \in Seq(Nat) /\ t \in Seq(Nat)
  BY NameAssumption
<1>2. PICK k \in 1 .. Shorter(s, t) : s[k] < t[k] /\ \A j \in 1 .. k - 1 : s[j] = t[j]
  BY DEF Less
<1>3. Len(s) \in Nat /\ Len(t) \in Nat /\ Shorter(s, t) = Shorter(t, s)
      /\ Shorter(s, t) \in Nat /\ Shorter(s, t) <= Len(s) /\ Shorter(s, t) <= Len(t)
  BY <1>1 DEF Shorter
<1>4. \A j \in 1 .. Shorter(s, t) : s[j] \in Nat /\ t[j] \in Nat
  <2>1. \A j \in 1 .. Len(s) : s[j] \in Nat
    BY <1>1
  <2>2. \A j \in 1 .. Len(t) : t[j] \in Nat
    BY <1>1
  <2> QED BY <2>1, <2>2, <1>3
<1>5. ~ Less(t, s)
  <2> SUFFICES ASSUME NEW h \in 1 .. Shorter(t, s), t[h] < s[h], \A j \in 1 .. h - 1 : t[j] = s[j]
               PROVE  FALSE
    BY DEF Less
  <2>1. CASE h < k
    <3>1. s[h] = t[h]
      BY <2>1, <1>2, <1>3
    <3> QED BY <3>1, <1>3, <1>4
  <2>2. CASE k < h
    <3>1. s[k] = t[k]
      BY <2>2, <1>2, <1>3
    <3> QED BY <3>1, <1>2, <1>3, <1>4
  <2>3. CASE h = k
    BY <2>3, <1>2, <1>3, <1>4
  <2> QED BY <2>1, <2>2, <2>3, <1>3
<1>6. ~ Seqs!IsStrictPrefix(t, s)
  <2> SUFFICES ASSUME Seqs!IsStrictPrefix(t, s) PROVE FALSE
    OBVIOUS
  <2>1. Len(t) <= Len(s) /\ SubSeq(t, 1, Len(t)) = SubSeq(s, 1, Len(t))
    BY DEF Seqs!IsStrictPrefix, Seqs!IsPrefix
  <2>2. k \in 1 .. Len(t) /\ k \in 1 .. Len(s)
    BY <1>2, <1>3
  <2>3. SubSeq(t, 1, Len(t))[k] = t[k]
    BY <1>1, <1>3, <2>2
  <2>4. SubSeq(s, 1, Len(t))[k] = s[k]
    BY <1>1, <1>3, <2>1, <2>2
  <2>5. s[k] = t[k]
    BY ONLY <2>1, <2>3, <2>4
  <2>6. s[k] \in Nat
    BY <1>4
  <2> QED BY ONLY <1>2, <2>5, <2>6
<1> QED BY <1>5, <1>6 DEF Before

\* The bounds of the search: what is before the lower one is less than the name
\* looked for, what is past the upper one is greater.
Bounds(q, nm) ==
  {b \in (0 .. desc.items - 1) \X (0 .. desc.items - 1) :
     /\ b[1] <= b[2]
     /\ b[1] > 0 => Less(item[q[b[1] - 1]].name, nm)
     /\ b[2] < desc.items - 1 => Less(nm, item[q[b[2] + 1]].name)}

\* nm is new to the collection, and both it and what is there are names.
FreshName(nm) ==
  nm \in Name /\ \A a \in Addr : item[a].linked => item[a].name \in Name /\ item[a].name # nm

\* One pass of the search keeps the name between its bounds and brings them nearer.
LEMMA NarrowKeeps ==
  ASSUME NEW q, Ring(q, desc, item), Typed, Apart, NEW nm, FreshName(nm),
         NEW b \in Bounds(q, nm)
  PROVE  /\ Narrow(nm, b) \in Bounds(q, nm)
         /\ b[2] > b[1] + 1 => Narrow(nm, b)[2] - Narrow(nm, b)[1] < b[2] - b[1]
         /\ b[2] <= b[1] + 1 => Narrow(nm, b) = b
<1> DEFINE n == desc.items   lo == b[1]   hi == b[2]   mid == (lo + hi) \div 2
<1>1. n \in Nat /\ lo \in 0 .. n - 1 /\ hi \in 0 .. n - 1 /\ lo <= hi
  BY DEF Bounds, Typed, DescSet
<1>2. /\ lo > 0 => Less(item[q[lo - 1]].name, nm)
      /\ hi < n - 1 => Less(nm, item[q[hi + 1]].name)
  BY DEF Bounds
<1>3. CASE hi <= lo + 1
  <2>1. Narrow(nm, b) = b
    BY <1>3 DEF Narrow
  <2> QED BY <1>1, <1>3, <2>1
<1>4. CASE ~ (hi <= lo + 1)
  <2>1. mid \in 0 .. n - 1 /\ lo < mid /\ mid < hi
    BY <1>1, <1>4
  <2> HIDE DEF mid
  <2>2. NameAt(mid) = item[q[mid]].name
    <3>1. n \in Steps /\ \A k \in Steps : FromFirst[k] = q[k]
      BY Walked
    <3>2. mid \in Steps
      BY <3>1, <2>1, ArenaIsFinite DEF Steps
    <3> QED BY <3>1, <3>2 DEF NameAt
  <2>3. item[q[mid]].name \in Name /\ item[q[mid]].name # nm /\ nm \in Name
    BY <2>1, OnRing DEF FreshName
  <2>4. Narrow(nm, b) = IF Less(NameAt(mid), nm) THEN <<mid + 1, hi>>
                        ELSE IF Greater(NameAt(mid), nm) THEN <<lo, mid - 1>>
                        ELSE <<mid, hi>>
    BY <1>4 DEF Narrow, mid
  <2>5. CASE Less(NameAt(mid), nm)
    <3>1. Narrow(nm, b) = <<mid + 1, hi>>
      BY <2>4, <2>5
    <3>2. <<mid + 1, hi>> \in Bounds(q, nm)
      <4>1. mid + 1 \in 0 .. n - 1 /\ mid + 1 <= hi /\ (mid + 1) - 1 = mid
        BY <1>1, <2>1
      <4> QED BY <4>1, <1>1, <1>2, <2>2, <2>5 DEF Bounds
    <3>3. hi - (mid + 1) < hi - lo
      BY <1>1, <2>1
    <3> QED BY <3>1, <3>2, <3>3, <1>4
  <2>6. CASE ~ Less(NameAt(mid), nm)
    <3>1. Narrow(nm, b) = <<lo, mid - 1>>
      BY <2>4, <2>6 DEF Greater
    <3>2. Less(nm, item[q[mid]].name)
      BY <2>2, <2>3, <2>6 DEF Apart
    <3>3. <<lo, mid - 1>> \in Bounds(q, nm)
      <4>1. mid - 1 \in 0 .. n - 1 /\ lo <= mid - 1 /\ (mid - 1) + 1 = mid
        BY <1>1, <2>1
      <4> QED BY <4>1, <1>1, <1>2, <3>2 DEF Bounds
    <3>4. (mid - 1) - lo < hi - lo
      BY <1>1, <2>1
    <3> QED BY <3>1, <3>3, <3>4, <1>4
  <2> QED BY <2>5, <2>6
<1> QED BY <1>3, <1>4

\* The search ends with the name between two bounds at most one apart.
LEMMA NarrowedIs ==
  ASSUME NEW q, Ring(q, desc, item), Typed, Apart, NEW nm, FreshName(nm), desc.items > 0
  PROVE  Narrowed(nm) \in Bounds(q, nm) /\ Narrowed(nm)[2] <= Narrowed(nm)[1] + 1
<1> DEFINE n == desc.items   D == Bounds(q, nm)   base == <<0, n - 1>>
           step == [b \in D |-> Narrow(nm, b)]
           Passes(f) == f = [k \in 0 .. n |-> IF k = 0 THEN <<0, n - 1>> ELSE Narrow(nm, f[k - 1])]
<1>1. n \in Nat
  BY DEF Typed, DescSet
<1>2. base \in D
  BY <1>1 DEF Bounds
<1>3. step \in [D -> D]
  BY NarrowKeeps
<1>4. PICK w : w \in Iterations(n, D, base, step)
  <2>1. Iterations(n, D, base, step) # {}
    <3> HIDE DEF D, base, step
    <3> QED BY <1>1, <1>2, <1>3, Iterates
  <2> QED BY <2>1
<1>5. w \in [0 .. n -> D] /\ w = [k \in 0 .. n |-> IF k = 0 THEN base ELSE step[w[k - 1]]]
  BY <1>4 DEF Iterations
<1>6. Passes(w)
  <2>1. ASSUME NEW k \in 0 .. n, k # 0 PROVE step[w[k - 1]] = Narrow(nm, w[k - 1])
    <3>1. k - 1 \in 0 .. n
      BY <1>1, <2>1
    <3>2. w[k - 1] \in D
      BY <1>5, <3>1
    <3> HIDE DEF D
    <3> QED BY <3>2
  <2> HIDE DEF step, D
  <2> QED BY <1>5, <2>1
<1>7. PICK f : Passes(f) /\ Narrowed(nm) = f[n]
  <2>1. Passes(CHOOSE f : Passes(f))
    BY <1>6
  <2>2. Narrowed(nm) = (CHOOSE f : Passes(f))[n]
    BY DEF Narrowed
  <2> HIDE DEF Passes
  <2> QED BY <2>1, <2>2
<1>8. /\ f[0] = <<0, n - 1>>
      /\ \A k \in 0 .. n : k # 0 => f[k] = Narrow(nm, f[k - 1])
  <2>1. f = [k \in 0 .. n |-> IF k = 0 THEN <<0, n - 1>> ELSE Narrow(nm, f[k - 1])]
    BY <1>7
  <2>2. \A k \in 0 .. n : f[k] = IF k = 0 THEN <<0, n - 1>> ELSE Narrow(nm, f[k - 1])
    BY <2>1, Zenon
  <2>3. 0 \in 0 .. n
    BY <1>1
  <2> QED BY <2>2, <2>3
<1> DEFINE Good == {k \in 0 .. n : /\ f[k] \in D
                                   /\ f[k][2] <= f[k][1] + 1 \/ f[k][2] - f[k][1] <= n - 1 - k}
<1>9. 0 \in Good
  BY <1>1, <1>2, <1>8
<1>10. \A k \in 0 .. n - 1 : k \in Good => k + 1 \in Good
  <2> SUFFICES ASSUME NEW k \in 0 .. n - 1, k \in Good PROVE k + 1 \in Good
    OBVIOUS
  <2>1. PICK x : x = k + 1
    OBVIOUS
  <2>2. x \in 0 .. n /\ x # 0 /\ x - 1 = k
    BY <1>1, <2>1
  <2>3. f[x] = Narrow(nm, f[k])
    BY <1>8, <2>2
  <2>4. PICK b \in D : b = f[k]
    OBVIOUS
  <2>5. PICK c \in D : c = Narrow(nm, b)
    BY <2>4, NarrowKeeps
  <2>6. /\ b[2] > b[1] + 1 => c[2] - c[1] < b[2] - b[1]
        /\ b[2] <= b[1] + 1 => c = b
    BY <2>5, NarrowKeeps
  <2>7. f[x] = c
    BY <2>3, <2>4, <2>5
  <2>8. b[2] <= b[1] + 1 \/ b[2] - b[1] <= n - 1 - k
    BY <2>4
  <2>9. b[1] \in Int /\ b[2] \in Int /\ c[1] \in Int /\ c[2] \in Int
    BY <1>1 DEF Bounds
  <2>10. c[2] <= c[1] + 1 \/ c[2] - c[1] <= n - 1 - x
    BY <2>2, <2>6, <2>8, <2>9, <1>1
  <2>11. x \in Good
    <3> HIDE DEF D
    <3> QED BY <2>2, <2>7, <2>10
  <2> QED BY <2>1, <2>11
<1>11. n \in Good
  <2>1. \A k \in 0 .. n : k \in Good
    <3> HIDE DEF Good
    <3> QED BY <1>1, <1>9, <1>10, NumberInduction
  <2> QED BY <1>1, <2>1
<1>12. PICK b \in D : b = f[n]
  BY <1>11
<1>13. b[1] \in 0 .. n - 1 /\ b[2] \in 0 .. n - 1 /\ b[1] <= b[2]
  BY DEF Bounds
<1>14. b[2] <= b[1] + 1 \/ b[2] - b[1] <= n - 1 - n
  BY <1>11, <1>12
<1>15. b[2] <= b[1] + 1
  BY <1>1, <1>13, <1>14
<1> QED BY <1>7, <1>12, <1>15

\* The place is between two neighbours of the ring, and right for the name.
PlacedAt(q, nm, j) ==
    /\ j > 0 => Less(item[q[j - 1]].name, nm)
    /\ j < desc.items => Less(nm, item[q[j]].name)

\* P2PmsgDesc_SortinItem's place is between the names before the new one and the names after.
LEMMA SortPlaceIs ==
  ASSUME NEW q, Ring(q, desc, item), Typed, Apart, NEW nm, FreshName(nm)
  PROVE  \E j \in 0 .. desc.items : SortPlace(nm) = <<q[j - 1], q[j]>> /\ PlacedAt(q, nm, j)
<1> DEFINE n == desc.items
<1>1. /\ n \in Nat /\ n \in Steps /\ Cardinality(Addr) \in Nat
      /\ \A k \in 0 .. n : k \in Steps
      /\ \A k \in Steps : FromFirst[k] = q[k]
  BY Walked, ArenaIsFinite DEF Typed, DescSet, Steps
<1>2. /\ \A k \in Int : q[k] # None <=> k \in 0 .. n - 1
      /\ desc.first = q[0] /\ desc.last = q[n - 1]
      /\ \A k \in 0 .. n - 1 : item[q[k]].prev = q[k - 1] /\ item[q[k]].next = q[k + 1]
  BY DEF Ring
<1>3. \A k \in 0 .. n - 1 : NameAt(k) = item[q[k]].name
  BY <1>1 DEF NameAt
<1>4. ASSUME NEW k \in 0 .. n - 1
      PROVE  /\ item[q[k]].name \in Name /\ nm \in Name
             /\ Less(item[q[k]].name, nm) <=> ~ Less(nm, item[q[k]].name)
  <2>1. item[q[k]].name \in Name /\ item[q[k]].name # nm /\ nm \in Name
    BY OnRing, <1>1 DEF FreshName
  <2> QED BY <2>1, LessOneWay DEF Apart
<1>5. CASE n = 0
  <2>1. SortPlace(nm) = <<None, None>>
    BY <1>5 DEF SortPlace
  <2>2. q[0] = None /\ q[0 - 1] = None
    BY <1>2, <1>5
  <2>3. 0 \in 0 .. n
    BY <1>5
  <2>4. PlacedAt(q, nm, 0)
    BY <1>5 DEF PlacedAt
  <2> QED BY <2>1, <2>2, <2>3, <2>4
<1>6. CASE n > 0 /\ Less(nm, NameAt(0))
  <2>1. SortPlace(nm) = <<None, desc.first>>
    BY <1>6, <1>1 DEF SortPlace
  <2>2. q[0 - 1] = None /\ 0 \in 0 .. n /\ 0 \in 0 .. n - 1
    BY <1>1, <1>2, <1>6
  <2>3. PlacedAt(q, nm, 0)
    BY <1>3, <1>6, <2>2 DEF PlacedAt
  <2> QED BY <1>2, <2>1, <2>2, <2>3
<1>7. CASE n > 0 /\ ~ Less(nm, NameAt(0)) /\ Greater(nm, NameAt(n - 1))
  <2>1. SortPlace(nm) = <<FromFirst[n - 1], None>>
    BY <1>7, <1>1 DEF SortPlace
  <2>2. q[n] = None /\ n \in 0 .. n /\ n - 1 \in 0 .. n - 1 /\ FromFirst[n - 1] = q[n - 1]
    BY <1>1, <1>2, <1>7
  <2>3. PlacedAt(q, nm, n)
    BY <1>1, <1>3, <1>4, <1>7, <2>2 DEF PlacedAt, Greater
  <2> QED BY <2>1, <2>2, <2>3
<1>8. CASE n > 0 /\ ~ Less(nm, NameAt(0)) /\ ~ Greater(nm, NameAt(n - 1))
  <2>1. PICK b : b = Narrowed(nm)
    OBVIOUS
  <2>2. b \in Bounds(q, nm) /\ b[2] <= b[1] + 1
    BY <2>1, <1>8, NarrowedIs
  <2>3. PICK l, h \in 0 .. n - 1 : l = b[1] /\ h = b[2]
    BY <2>2 DEF Bounds
  <2>4. /\ l <= h /\ h <= l + 1
        /\ l > 0 => Less(item[q[l - 1]].name, nm)
        /\ h < n - 1 => Less(nm, item[q[h + 1]].name)
    BY <2>2, <2>3 DEF Bounds
  <2>5. FromFirst[l] = q[l] /\ FromFirst[h] = q[h]
    BY <1>1
  <2>6. SortPlace(nm) =
          IF Less(nm, item[q[l]].name) THEN <<item[q[l]].prev, q[l]>>
          ELSE IF Less(nm, item[q[h]].name) THEN <<item[q[h]].prev, q[h]>>
          ELSE IF Less(item[q[h]].name, nm) THEN <<q[h], item[q[h]].next>>
          ELSE <<None, None>>
    BY <1>8, <1>1, <2>1, <2>3, <2>5 DEF SortPlace
  <2>7. CASE Less(nm, item[q[l]].name)
    <3>1. SortPlace(nm) = <<q[l - 1], q[l]>>
      BY <2>6, <2>7, <1>2
    <3>2. PlacedAt(q, nm, l) /\ l \in 0 .. n
      <4>1. l \in 0 .. n /\ n \in Nat
        BY <1>1
      <4> QED BY <2>7, <2>4, <4>1 DEF PlacedAt
    <3> QED BY <3>1, <3>2
  <2>8. CASE ~ Less(nm, item[q[l]].name) /\ Less(nm, item[q[h]].name)
    <3>1. SortPlace(nm) = <<q[h - 1], q[h]>>
      BY <2>6, <2>8, <1>2
    <3>2. h - 1 = l
      <4>1. h # l
        BY <2>8
      <4> QED BY <4>1, <2>4
    <3>3. Less(item[q[h - 1]].name, nm)
      BY <3>2, <2>8, <1>4
    <3>4. PlacedAt(q, nm, h) /\ h \in 0 .. n
      <4>1. h \in 0 .. n /\ n \in Nat
        BY <1>1
      <4> QED BY <2>8, <3>3, <4>1 DEF PlacedAt
    <3> QED BY <3>1, <3>4
  <2>9. CASE ~ Less(nm, item[q[l]].name) /\ ~ Less(nm, item[q[h]].name)
    <3>1. Less(item[q[h]].name, nm)
      BY <2>9, <1>4
    <3>2. SortPlace(nm) = <<q[h], q[h + 1]>>
      BY <2>6, <2>9, <3>1, <1>2
    <3>3. PICK j \in 0 .. n : j = h + 1
      BY <1>1
    <3>4. j - 1 = h /\ (j < n => h < n - 1)
      BY <3>3, <1>1
    <3>5. PlacedAt(q, nm, j)
      BY <3>1, <3>3, <3>4, <2>4 DEF PlacedAt
    <3> QED BY <3>2, <3>3, <3>4, <3>5
  <2> QED BY <2>7, <2>8, <2>9
<1> QED BY <1>1, <1>5, <1>6, <1>7, <1>8

-----------------------------------------------------------------------------
(***************************************************************************)
(* Order.  Names apart are in one order, and what is done to the chain of  *)
(* a sorted collection keeps its names in it.                              *)
(***************************************************************************)

\* The comparison of names is transitive.
LEMMA LessOn ==
  ASSUME NEW s \in Name, NEW t \in Name, NEW u \in Name, Less(s, t), Less(t, u)
  PROVE  Less(s, u)
<1>1. s \in Seq(Nat) /\ t \in Seq(Nat) /\ u \in Seq(Nat)
  BY NameAssumption
<1>2. PICK k \in 1 .. Shorter(s, t) : s[k] < t[k] /\ \A j \in 1 .. k - 1 : s[j] = t[j]
  BY DEF Less
<1>3. PICK h \in 1 .. Shorter(t, u) : t[h] < u[h] /\ \A j \in 1 .. h - 1 : t[j] = u[j]
  BY DEF Less
<1>4. Len(s) \in Nat /\ Len(t) \in Nat /\ Len(u) \in Nat
  BY <1>1
<1>5. PICK ls, lt, lu \in Nat : ls = Len(s) /\ lt = Len(t) /\ lu = Len(u)
  BY <1>4
<1>6. /\ k \in 1 .. ls /\ k <= lt /\ h \in 1 .. lt /\ h <= lu
  BY <1>2, <1>3, <1>5 DEF Shorter
<1>7. \A j \in 1 .. ls : s[j] \in Nat
  BY <1>1, <1>5
<1>8. \A j \in 1 .. lt : t[j] \in Nat
  BY <1>1, <1>5
<1>9. \A j \in 1 .. lu : u[j] \in Nat
  BY <1>1, <1>5
<1>10. PICK m : m = IF k <= h THEN k ELSE h
  OBVIOUS
<1>11. m \in 1 .. Shorter(s, u)
  BY <1>5, <1>6, <1>10 DEF Shorter
<1>12. s[m] < u[m]
  <2>1. m \in 1 .. ls /\ m \in 1 .. lt /\ m \in 1 .. lu
    BY <1>6, <1>10
  <2>2. PICK x, y, z \in Nat : x = s[m] /\ y = t[m] /\ z = u[m]
    BY <2>1, <1>7, <1>8, <1>9
  <2>3. m = k => x < y
    BY <2>2, <1>2
  <2>4. m = h => y < z
    BY <2>2, <1>3
  <2>5. m # k => x = y
    <3>1. m # k => m \in 1 .. k - 1
      BY <1>6, <1>10
    <3> QED BY <3>1, <2>2, <1>2
  <2>6. m # h => y = z
    <3>1. m # h => m \in 1 .. h - 1
      BY <1>6, <1>10
    <3> QED BY <3>1, <2>2, <1>3
  <2>7. m = k \/ m = h
    BY <1>10
  <2> QED BY <2>2, <2>3, <2>4, <2>5, <2>6, <2>7
<1>13. \A j \in 1 .. m - 1 : s[j] = u[j]
  <2> TAKE j \in 1 .. m - 1
  <2>1. j \in 1 .. k - 1 /\ j \in 1 .. h - 1
    BY <1>6, <1>10
  <2> QED BY <2>1, <1>2, <1>3
<1> QED BY <1>11, <1>12, <1>13 DEF Less

\* Not to be before, for names apart, is to be the same or after.
LEMMA AfterOrSame ==
  ASSUME Apart, NEW s \in Name, NEW t \in Name
  PROVE  ~ Before(t, s) <=> s = t \/ Less(s, t)
<1>1. CASE s = t
  <2>1. ~ Less(t, s)
    BY <1>1, LessOneWay
  <2>2. ~ Seqs!IsStrictPrefix(t, s)
    BY <1>1 DEF Seqs!IsStrictPrefix
  <2> QED BY <1>1, <2>1, <2>2 DEF Before
<1>2. CASE Less(s, t)
  BY <1>2, LessOneWay
<1>3. CASE s # t /\ ~ Less(s, t)
  BY <1>3 DEF Apart, Before
<1> QED BY <1>1, <1>2, <1>3

\* The first m items are in order.
InOrder(q, it, m) == \A k \in 1 .. m - 1 : ~ Before(it[q[k]].name, it[q[k - 1]].name)
NamesKnown(it) == \A a \in Addr : it[a].linked => it[a].name \in Name

\* The model's order is the ring's.
LEMMA AscendingIs ==
  ASSUME NEW q, Ring(q, desc, item), Typed
  PROVE  Ascending <=> InOrder(q, item, desc.items)
<1>1. desc.items \in Steps /\ \A k \in Steps : FromFirst[k] = q[k]
  BY Walked
<1>2. \A k \in 1 .. desc.items - 1 : NameAt(k) = item[q[k]].name /\ NameAt(k - 1) = item[q[k - 1]].name
  <2> TAKE k \in 1 .. desc.items - 1
  <2>1. k \in Steps /\ k - 1 \in Steps
    BY <1>1, ArenaIsFinite DEF Steps
  <2> QED BY <2>1, <1>1 DEF NameAt
<1> QED BY <1>2 DEF Ascending, InOrder

\* The same of the next state.
LEMMA AscendingNext ==
  ASSUME NEW q, Ring(q, desc', item'), Typed'
  PROVE  InOrder(q, item', desc'.items) => Ascending'
<1>1. desc'.items \in Nat
  BY DEF Typed, DescSet
<1>2. desc'.items \in Steps
  BY <1>1, RingCounts
<1>3. FromFirst' = [k \in Steps |-> q[k]]
  BY <1>1, WalksAre, FirstFollows
<1>4. \A k \in 1 .. desc'.items - 1 : /\ NameAt(k)' = item'[q[k]].name
                                      /\ NameAt(k - 1)' = item'[q[k - 1]].name
  <2> TAKE k \in 1 .. desc'.items - 1
  <2>1. k \in Steps /\ k - 1 \in Steps
    BY <1>2, ArenaIsFinite DEF Steps
  <2>2. FromFirst'[k] = q[k] /\ FromFirst'[k - 1] = q[k - 1]
    BY <1>3, <2>1
  <2> QED BY <2>2 DEF NameAt
<1> QED BY <1>4 DEF Ascending, InOrder

\* A name put in at its place leaves the names in order.
LEMMA LinkInOrders ==
  ASSUME NEW q, Ring(q, desc, item), Typed, Apart, NEW nm, FreshName(nm),
         NEW j \in 0 .. desc.items, PlacedAt(q, nm, j), InOrder(q, item, desc.items),
         NEW a \in Addr, ~ item[a].linked,
         \A b \in Addr : item'[b].name = IF b = a THEN nm ELSE item[b].name
  PROVE  InOrder(PutIn(q, j, a), item', desc.items + 1)
<1> DEFINE n == desc.items   r == PutIn(q, j, a)
<1>1. n \in Nat
  BY DEF Typed, DescSet
<1>2. \A k \in Int : r[k] = IF k < j THEN q[k] ELSE IF k = j THEN a ELSE q[k - 1]
  BY DEF PutIn
<1>3. ASSUME NEW k \in 0 .. n - 1
      PROVE  q[k] \in Addr /\ q[k] # a /\ item'[q[k]].name = item[q[k]].name
             /\ item[q[k]].name \in Name
  BY OnRing, <1>1 DEF FreshName
<1>4. item'[a].name = nm /\ nm \in Name
  BY DEF FreshName
<1> HIDE DEF r
<1> SUFFICES ASSUME NEW k \in 1 .. n PROVE ~ Before(item'[r[k]].name, item'[r[k - 1]].name)
  BY <1>1 DEF InOrder, r
<1>5. CASE k < j
  <2>1. r[k] = q[k] /\ r[k - 1] = q[k - 1] /\ k \in 0 .. n - 1 /\ k - 1 \in 0 .. n - 1 /\ k \in 1 .. n - 1
    BY <1>1, <1>2, <1>5
  <2> QED BY <2>1, <1>3 DEF InOrder
<1>6. CASE k = j
  <2>1. r[k] = a /\ r[k - 1] = q[j - 1] /\ j - 1 \in 0 .. n - 1
    BY <1>1, <1>2, <1>6
  <2>2. Less(item[q[j - 1]].name, nm)
    BY <1>1, <1>6 DEF PlacedAt
  <2> QED BY <2>1, <2>2, <1>3, <1>4, LessOneWay
<1>7. CASE k = j + 1
  <2>1. r[k] = q[j] /\ r[k - 1] = a /\ j \in 0 .. n - 1
    BY <1>1, <1>2, <1>7
  <2>2. Less(nm, item[q[j]].name)
    BY <2>1, <1>1 DEF PlacedAt
  <2> QED BY <2>1, <2>2, <1>3, <1>4, LessOneWay
<1>8. CASE k > j + 1
  <2>1. r[k] = q[k - 1] /\ r[k - 1] = q[(k - 1) - 1] /\ k - 1 \in 1 .. n - 1
        /\ k - 1 \in 0 .. n - 1 /\ (k - 1) - 1 \in 0 .. n - 1
    BY <1>1, <1>2, <1>8
  <2> QED BY <2>1, <1>3 DEF InOrder
<1> QED BY <1>1, <1>5, <1>6, <1>7, <1>8

\* So does taking a name out.
LEMMA UnLinkOrders ==
  ASSUME NEW q, Ring(q, desc, item), Typed, Apart, NamesKnown(item),
         NEW j \in 0 .. desc.items - 1, InOrder(q, item, desc.items),
         \A b \in Addr : b # q[j] => item'[b].name = item[b].name
  PROVE  InOrder(TakenOut(q, j), item', desc.items - 1)
<1> DEFINE n == desc.items   r == TakenOut(q, j)
<1>1. n \in Nat
  BY DEF Typed, DescSet
<1>2. \A k \in Int : r[k] = IF k < j THEN q[k] ELSE q[k + 1]
  BY DEF TakenOut
<1>3. ASSUME NEW k \in 0 .. n - 1
      PROVE  /\ q[k] \in Addr /\ item[q[k]].name \in Name
             /\ k # j => item'[q[k]].name = item[q[k]].name
  <2>1. q[k] \in Addr /\ item[q[k]].linked
    BY OnRing, <1>1
  <2>2. k # j => q[k] # q[j]
    BY DEF Ring
  <2> QED BY <2>1, <2>2 DEF NamesKnown
<1> HIDE DEF r
<1> SUFFICES ASSUME NEW k \in 1 .. n - 2 PROVE ~ Before(item'[r[k]].name, item'[r[k - 1]].name)
  BY <1>1 DEF InOrder, r
<1>4. CASE k < j
  <2>1. r[k] = q[k] /\ r[k - 1] = q[k - 1] /\ k \in 0 .. n - 1 /\ k - 1 \in 0 .. n - 1
        /\ k # j /\ k - 1 # j /\ k \in 1 .. n - 1
    BY <1>1, <1>2, <1>4
  <2> QED BY <2>1, <1>3 DEF InOrder
<1>5. CASE k = j
  <2>1. r[k] = q[j + 1] /\ r[k - 1] = q[j - 1] /\ j + 1 \in 0 .. n - 1 /\ j - 1 \in 0 .. n - 1
        /\ j + 1 # j /\ j - 1 # j /\ j \in 1 .. n - 1 /\ j + 1 \in 1 .. n - 1 /\ (j + 1) - 1 = j
    BY <1>1, <1>2, <1>5
  <2>2. PICK s, t, u : s = item[q[j - 1]].name /\ t = item[q[j]].name /\ u = item[q[j + 1]].name
    OBVIOUS
  <2>3. s \in Name /\ t \in Name /\ u \in Name
    BY <2>1, <2>2, <1>3
  <2>4. ~ Before(t, s) /\ ~ Before(u, t)
    BY <2>1, <2>2 DEF InOrder
  <2>5. (s = t \/ Less(s, t)) /\ (t = u \/ Less(t, u))
    BY <2>3, <2>4, AfterOrSame
  <2>6. s = u \/ Less(s, u)
    BY <2>3, <2>5, LessOn
  <2>7. ~ Before(u, s)
    BY <2>3, <2>6, AfterOrSame
  <2> QED BY <2>1, <2>2, <2>7, <1>3
<1>6. CASE k > j
  <2>1. r[k] = q[k + 1] /\ r[k - 1] = q[(k + 1) - 1] /\ k + 1 \in 0 .. n - 1 /\ (k + 1) - 1 \in 0 .. n - 1
        /\ k + 1 # j /\ (k + 1) - 1 # j /\ k + 1 \in 1 .. n - 1
    BY <1>1, <1>2, <1>6
  <2> QED BY <2>1, <1>3 DEF InOrder
<1> QED BY <1>4, <1>5, <1>6

-----------------------------------------------------------------------------
(***************************************************************************)
(* The invariant.  The chain is some ring; a loop's own cursor is behind   *)
(* its ordinal, so that it looks at the chain and not at what it saw; a    *)
(* deletion that set out from a true cursor still has its item ahead; the  *)
(* names a sort has passed are in order.                                   *)
(***************************************************************************)

CursorSet ==
  {r \in [n : -1 .. Cardinality(Addr) \cup {Beyond}, at : DescLink] : r.n = Beyond => r.at = None}
Behind(r, i) == r.at # None => r.n < i
ExactOn(q, r) == r.at # None => r.n \in 0 .. desc.items - 1 /\ q[r.n] = r.at

WildJob == \E i \in Nat, r \in CursorSet, P \in Pattern :
    job = [op |-> "wild", i |-> i, cur |-> r, names |-> P] /\ Behind(r, i)
DeleteJob(q) == \E i \in 0 .. Cardinality(Addr) + 1, a \in Addr, s \in BOOLEAN :
    /\ job = [op |-> "delete", i |-> i, item |-> a, sure |-> s]
    /\ s => ExactOn(q, curs[Own]) /\ \E m \in i .. desc.items - 1 : q[m] = a
SortJob(q) == \E i \in 1 .. desc.items, r \in CursorSet :
    job = [op |-> "sort", i |-> i, cur |-> r] /\ Behind(r, i) /\ InOrder(q, item, i)
JobSound(q) ==
    job = Idle \/ WildJob \/ job = [op |-> "truncate"] \/ DeleteJob(q) \/ SortJob(q)

Sound(q) == /\ Ring(q, desc, item) /\ Typed /\ NamesKnown(item)
            /\ curs \in [Curs -> CursorSet]
DescInv == \E q : Sound(q) /\ JobSound(q)

\* A step leads from the ring q to the ring r, and keeps a sorted one in order.
Leads(q, r) ==
    /\ Ring(r, desc', item') /\ Typed' /\ NamesKnown(item')
    /\ desc.sorted /\ InOrder(q, item, desc.items) => InOrder(r, item', desc'.items)

\* A step that leaves the chain alone leads to the same ring.
LEMMA Stays ==
  ASSUME NEW q, Sound(q), UNCHANGED <<desc, item>> PROVE Leads(q, q)
BY DEF Sound, Leads, Typed, NamesKnown, InOrder

\* A push leads to the ring with the block put in.
LEMMA PushLeads ==
  ASSUME NEW q, Sound(q), Apart, NEW nm \in Name, Push(nm), desc.sorted => FreshName(nm)
  PROVE  \E j \in 0 .. desc.items :
           /\ Leads(q, PutIn(q, j, Alloc)) /\ desc'.items = desc.items + 1 /\ Alloc \in Addr
           /\ FromFirst' = [k \in Steps |-> PutIn(q, j, Alloc)[k]] /\ j \in Steps
<1> DEFINE n == desc.items
<1>1. Ring(q, desc, item) /\ Typed /\ NamesKnown(item) /\ n \in Nat
  BY DEF Sound, Typed, DescSet
<1>2. PICK a \in Addr : a = Alloc /\ ~ item[a].linked
  <2>1. Linked # Addr
    BY DEF Push
  <2> QED BY <2>1, AllocFree
<1>3. PICK j \in 0 .. n : LinkIn(nm, q[j - 1], a, q[j]) /\ (desc.sorted => PlacedAt(q, nm, j))
  <2>1. CASE desc.sorted
    <3>1. PICK j \in 0 .. n : SortPlace(nm) = <<q[j - 1], q[j]>> /\ PlacedAt(q, nm, j)
      BY <1>1, <2>1, SortPlaceIs
    <3>2. PICK p : p = SortPlace(nm)
      OBVIOUS
    <3>3. LinkIn(nm, p[1], a, p[2])
      BY <1>2, <2>1, <3>2 DEF Push
    <3>4. p[1] = q[j - 1] /\ p[2] = q[j]
      BY <3>1, <3>2
    <3> QED BY <3>1, <3>3, <3>4
  <2>2. CASE ~ desc.sorted
    <3>1. n \in 0 .. n /\ desc.last = q[n - 1] /\ q[n] = None
      BY <1>1, OnRing DEF Ring
    <3>2. LinkIn(nm, desc.last, a, None)
      BY <1>2, <2>2 DEF Push
    <3> QED BY <2>2, <3>1, <3>2
  <2> QED BY <2>1, <2>2
<1> DEFINE r == PutIn(q, j, a)
<1>4. /\ Ring(r, desc', item') /\ Typed' /\ desc'.items = n + 1 /\ desc'.sorted = desc.sorted
      /\ \A b \in Addr : item'[b].name = IF b = a THEN nm ELSE item[b].name
  BY <1>1, <1>2, <1>3, LinkInKeeps
<1>5. NamesKnown(item')
  <2> SUFFICES ASSUME NEW b \in Addr, item'[b].linked PROVE item'[b].name \in Name
    BY DEF NamesKnown
  <2>1. CASE b = a
    BY <1>4, <2>1
  <2>2. CASE b # a
    <3>1. PICK k \in 0 .. n : r[k] = b
      BY <1>4, <1>1 DEF Ring
    <3>2. \E i \in 0 .. n - 1 : b = q[i]
      <4>1. r[k] = IF k < j THEN q[k] ELSE IF k = j THEN a ELSE q[k - 1]
        BY DEF PutIn
      <4>2. CASE k < j
        BY <4>1, <4>2, <3>1, <1>1
      <4>3. CASE k > j
        <5>1. k - 1 \in 0 .. n - 1
          BY <4>3, <1>1
        <5> QED BY <4>1, <4>3, <5>1, <3>1
      <4>4. k # j
        BY <4>1, <3>1, <2>2
      <4> QED BY <4>2, <4>3, <4>4
    <3>3. item[b].linked
      BY <3>2, OnRing, <1>1
    <3> QED BY <3>3, <2>2, <1>1, <1>4 DEF NamesKnown
  <2> QED BY <2>1, <2>2
<1>6. desc.sorted /\ InOrder(q, item, n) => InOrder(r, item', n + 1)
  <2> HIDE DEF r
  <2> SUFFICES ASSUME desc.sorted, InOrder(q, item, n) PROVE InOrder(r, item', n + 1)
    OBVIOUS
  <2>1. FreshName(nm) /\ PlacedAt(q, nm, j)
    BY <1>3
  <2> QED BY <1>1, <1>2, <1>4, <2>1, LinkInOrders DEF r
<1>7. FromFirst' = [k \in Steps |-> r[k]] /\ desc'.items \in Steps
  <2>1. desc'.items \in Nat
    BY <1>1, <1>4
  <2> HIDE DEF r
  <2>2. Ring(r, desc', item')
    BY <1>4
  <2>3. FromFirst' = [k \in Steps |-> r[k]]
    BY <2>1, <2>2, WalksAre, FirstFollows
  <2>4. desc'.items \in Steps
    BY <2>1, <2>2, RingCounts
  <2> QED BY <2>3, <2>4
<1>8. j \in Steps
  BY <1>1, <1>4, <1>7, ArenaIsFinite DEF Steps
<1>9. Leads(q, r)
  <2> HIDE DEF r
  <2> QED BY <1>4, <1>5, <1>6 DEF Leads
<1> HIDE DEF r
<1>10. Leads(q, r) /\ desc'.items = n + 1 /\ a \in Addr /\ FromFirst' = [k \in Steps |-> r[k]] /\ j \in Steps
  BY <1>4, <1>7, <1>8, <1>9
<1> QED BY <1>2, <1>10 DEF r

\* A deletion leads to the ring with the block taken out.
LEMMA UnLinkLeads ==
  ASSUME NEW q, Sound(q), Apart, NEW j \in 0 .. desc.items - 1, UnLink(q[j])
  PROVE  Leads(q, TakenOut(q, j)) /\ desc'.items = desc.items - 1 /\ ~ item'[q[j]].linked
<1> DEFINE n == desc.items   r == TakenOut(q, j)
<1>1. Ring(q, desc, item) /\ Typed /\ NamesKnown(item) /\ n \in Nat
  BY DEF Sound, Typed, DescSet
<1>2. /\ Ring(r, desc', item') /\ Typed' /\ desc'.items = n - 1 /\ desc'.sorted = desc.sorted
      /\ \A b \in Addr : b # q[j] => item'[b].name = item[b].name
  BY <1>1, UnLinkKeeps
<1>3. q[j] \in Addr
  BY <1>1, OnRing
<1>4. ~ item'[q[j]].linked
  <2>1. item'[q[j]] = Free
    BY <1>3 DEF UnLink
  <2> QED BY <2>1 DEF Free
<1>5. NamesKnown(item')
  <2> SUFFICES ASSUME NEW b \in Addr, item'[b].linked PROVE item'[b].name \in Name
    BY DEF NamesKnown
  <2>1. b # q[j]
    BY <1>4
  <2>2. PICK k \in 0 .. n - 2 : r[k] = b
    <3>1. 0 .. desc'.items - 1 = 0 .. n - 2
      BY <1>1, <1>2
    <3> HIDE DEF r
    <3> QED BY <1>2, <3>1 DEF Ring
  <2>3. \E i \in 0 .. n - 1 : b = q[i]
    <3>1. r[k] = IF k < j THEN q[k] ELSE q[k + 1]
      BY DEF TakenOut
    <3>2. k \in 0 .. n - 1 /\ k + 1 \in 0 .. n - 1
      BY <1>1
    <3> HIDE DEF r
    <3> QED BY <3>1, <3>2, <2>2
  <2>4. item[b].linked
    BY <2>3, OnRing, <1>1
  <2> QED BY <2>1, <2>4, <1>1, <1>2 DEF NamesKnown
<1>6. InOrder(q, item, n) => InOrder(r, item', n - 1)
  BY <1>1, <1>2, UnLinkOrders
<1> HIDE DEF r
<1>7. Leads(q, r)
  BY <1>2, <1>5, <1>6 DEF Leads
<1> QED BY <1>2, <1>4, <1>7 DEF r

\* A swap leads to the ring with the two exchanged.
LEMMA SwapLeads ==
  ASSUME NEW q, Sound(q), NEW i \in 0 .. desc.items - 1, NEW j \in 0 .. desc.items - 1,
         i # j, SwapLinks(q[i], q[j])
  PROVE  /\ LET r == Exchanged(q, i, j) IN Ring(r, desc', item') /\ Typed' /\ NamesKnown(item')
         /\ desc'.items = desc.items
<1> DEFINE n == desc.items   r == Exchanged(q, i, j)
<1>1. Ring(q, desc, item) /\ Typed /\ NamesKnown(item)
  BY DEF Sound
<1>2. /\ Ring(r, desc', item') /\ Typed' /\ desc'.items = n /\ desc'.sorted = desc.sorted
      /\ \A b \in Addr : item'[b].name = item[b].name
  BY <1>1, SwapKeeps
<1>3. NamesKnown(item')
  <2> SUFFICES ASSUME NEW b \in Addr, item'[b].linked PROVE item'[b].name \in Name
    BY DEF NamesKnown
  <2>1. item[b].linked
    <3>1. PICK k \in 0 .. n - 1 : r[k] = b
      <4> HIDE DEF r
      <4> QED BY <1>2 DEF Ring
    <3>2. r[k] = IF k = i THEN q[j] ELSE IF k = j THEN q[i] ELSE q[k]
      BY DEF Exchanged
    <3> HIDE DEF r
    <3> QED BY <3>1, <3>2, OnRing, <1>1
  <2> QED BY <2>1, <1>1, <1>2 DEF NamesKnown
<1> QED BY <1>2, <1>3

-----------------------------------------------------------------------------
(***************************************************************************)
(* Steps.                                                                  *)
(***************************************************************************)

Reaches(q) == \E r : Leads(q, r) /\ Sound(r)' /\ JobSound(r)'

\* What LoopsDeliver asks of a step.
DeliversNow ==
  (job # Idle /\ job' = Idle) =>
       CASE job.op = "truncate" -> Linked' = {}
         [] job.op = "sort" -> Ascending'
         [] job.op = "delete" -> job.sure => ~ item'[job.item].linked
         [] OTHER -> TRUE

\* A blank cursor is a cursor, behind every ordinal.
LEMMA BlankTyped == Blank \in CursorSet /\ Blank.at = None /\ \A i : Behind(Blank, i)
BY ArenaIsFinite, BeyondAssumption DEF Blank, CursorSet, DescLink, Behind

\* So is one set to an ordinal of the arena.
LEMMA CursorMade ==
  ASSUME NEW k \in Steps, NEW a \in DescLink PROVE [n |-> k, at |-> a] \in CursorSet
<1>1. k \in 0 .. Cardinality(Addr) /\ Cardinality(Addr) \in Nat
  BY ArenaIsFinite DEF Steps
<1>2. k < Beyond /\ Beyond \in Nat
  BY <1>1, BeyondAssumption
<1>3. k # Beyond /\ k \in -1 .. Cardinality(Addr) \cup {Beyond}
  BY <1>1, <1>2
<1> QED BY <1>3 DEF CursorSet

\* Goto(int) through a cursor that is not on that ordinal looks at the ring.
LEMMA IndexedFresh ==
  ASSUME NEW q, Sound(q), NEW r \in CursorSet, NEW i \in Nat, r.at # None => r.n # i
  PROVE  /\ Indexed(r, i) \in CursorSet
         /\ i < desc.items => /\ Indexed(r, i).n = i /\ Indexed(r, i).at = q[i]
                              /\ q[i] \in Addr /\ q[i] # None
         /\ i >= desc.items => Indexed(r, i).at = None
<1>1. Ring(q, desc, item) /\ Typed /\ desc.items \in Steps /\ desc.items \in Nat
  BY Walked DEF Sound, Typed, DescSet
<1>2. ~ (r.n = i /\ r.at # None)
  OBVIOUS
<1>3. PICK s : s = Indexed(r, i)
  OBVIOUS
<1>4. s = IF i < desc.items THEN [n |-> i, at |-> q[i]] ELSE [n |-> desc.items, at |-> None]
  BY <1>1, <1>2, <1>3, IndexedIs
<1>5. CASE i < desc.items
  <2>1. q[i] \in Addr /\ q[i] # None /\ q[i] \in DescLink
    BY <1>1, <1>5, OnRing, CursAssumption DEF DescLink
  <2>2. i \in Steps
    BY <1>1, <1>5, ArenaIsFinite DEF Steps
  <2>3. s = [n |-> i, at |-> q[i]]
    BY <1>4, <1>5
  <2>4. s \in CursorSet
    BY <2>1, <2>2, <2>3, CursorMade
  <2> QED BY <1>1, <1>3, <1>5, <2>1, <2>3, <2>4
<1>6. CASE i >= desc.items
  <2>1. s = [n |-> desc.items, at |-> None] /\ None \in DescLink
    BY <1>1, <1>4, <1>6 DEF DescLink
  <2>2. s \in CursorSet
    BY <1>1, <2>1, CursorMade
  <2> QED BY <1>1, <1>3, <1>6, <2>1, <2>2
<1> QED BY <1>1, <1>5, <1>6

\* Goto(int) and Goto(name) leave a cursor.
LEMMA IndexedTyped ==
  ASSUME NEW q, Sound(q), NEW r \in CursorSet, NEW i \in Nat
  PROVE  Indexed(r, i) \in CursorSet
<1>1. Ring(q, desc, item) /\ Typed /\ desc.items \in Steps /\ desc.items \in Nat
  BY Walked DEF Sound, Typed, DescSet
<1>2. CASE r.n = i /\ r.at # None
  BY <1>1, <1>2, IndexedIs
<1>3. CASE ~ (r.n = i /\ r.at # None) /\ i < desc.items
  <2>1. q[i] \in DescLink
    BY <1>1, <1>3, OnRing DEF DescLink
  <2>2. i \in Steps
    BY <1>1, <1>3, ArenaIsFinite DEF Steps
  <2>3. Indexed(r, i) = [n |-> i, at |-> q[i]]
    BY <1>1, <1>3, IndexedIs
  <2> QED BY <2>1, <2>2, <2>3, CursorMade
<1>4. CASE ~ (r.n = i /\ r.at # None) /\ ~ (i < desc.items)
  <2>1. Indexed(r, i) = [n |-> desc.items, at |-> None] /\ None \in DescLink
    BY <1>1, <1>4, IndexedIs DEF DescLink
  <2> QED BY <1>1, <2>1, CursorMade
<1> QED BY <1>2, <1>3, <1>4

\* Goto(name) answers nothing only when no block has the name.
LEMMA NamedTyped ==
  ASSUME NEW q, Sound(q), NEW r \in CursorSet, NEW nm
  PROVE  /\ NamedItem(r, nm) \in CursorSet
         /\ NamedItem(r, nm).at = None => \A a \in Addr : item[a].linked => item[a].name # nm
<1>1. Ring(q, desc, item) /\ Typed /\ desc.items \in Steps /\ desc.items \in Nat
  BY Walked DEF Sound, Typed, DescSet
<1>2. PICK s : s = NamedItem(r, nm)
  OBVIOUS
<1>3. FoundBy(q, r, nm, s)
  BY <1>1, <1>2, NamedIs
<1>4. CASE s = r /\ r.at # None
  BY <1>2, <1>4
<1>5. CASE s = Blank /\ \A a \in Addr : item[a].linked => item[a].name # nm
  BY <1>2, <1>5, BlankTyped
<1>6. ASSUME NEW k \in 0 .. desc.items - 1, s = [n |-> k, at |-> q[k]]
      PROVE  s \in CursorSet /\ s.at # None
  <2>1. q[k] \in DescLink /\ q[k] # None
    BY <1>1, OnRing, CursAssumption DEF DescLink
  <2>2. k \in Steps
    BY <1>1, ArenaIsFinite DEF Steps
  <2> QED BY <1>6, <2>1, <2>2, CursorMade
<1> QED BY <1>2, <1>3, <1>4, <1>5, <1>6 DEF FoundBy

\* A sound next state from what a step does to its parts.
LEMMA Arrives ==
  ASSUME NEW q, NEW r, Leads(q, r), curs' \in [Curs -> CursorSet], JobSound(r)'
  PROVE  Reaches(q)
BY DEF Reaches, Leads, Sound

\* A step of P2PmsgDesc_WCDelete.
LEMMA WildKeeps ==
  ASSUME NEW q, Sound(q), Apart, WildJob, WildStep
  PROVE  Reaches(q) /\ DeliversNow
<1>1. PICK i \in Nat, r \in CursorSet, P \in Pattern :
        job = [op |-> "wild", i |-> i, cur |-> r, names |-> P] /\ Behind(r, i)
  BY DEF WildJob
<1>2. job.op = "wild" /\ job.i = i /\ job.cur = r /\ job.names = P
  BY <1>1
<1>0. r.at # None => r.n # i
  <2>1. r.n = i => ~ (r.n < i)
    OBVIOUS
  <2> QED BY <2>1, <1>1 DEF Behind
<1>3. PICK s \in CursorSet : s = Indexed(r, i)
  BY <1>0, IndexedFresh
<1>4. /\ i < desc.items => s.n = i /\ s.at = q[i] /\ s.at # None
      /\ i >= desc.items => s.at = None
  BY <1>0, <1>3, IndexedFresh
<1>5. UNCHANGED curs /\ curs' \in [Curs -> CursorSet]
  BY DEF WildStep, Sound
<1>6. DeliversNow
  BY <1>2 DEF DeliversNow
<1>7. desc.items \in Nat
  BY DEF Sound, Typed, DescSet
<1>8. CASE s.at = None
  <2>1. job' = Idle /\ UNCHANGED <<desc, item>>
    BY <1>2, <1>3, <1>8 DEF WildStep
  <2>2. Leads(q, q) /\ JobSound(q)'
    BY <2>1, Stays DEF JobSound
  <2> QED BY <2>2, <1>5, <1>6, Arrives
<1>9. CASE s.at # None /\ item[s.at].name \in P
  <2>1. UnLink(q[i]) /\ i \in 0 .. desc.items - 1
    BY <1>2, <1>3, <1>4, <1>7, <1>9 DEF WildStep
  <2>2. Leads(q, TakenOut(q, i))
    BY <2>1, UnLinkLeads
  <2>3. job' = [job EXCEPT !.i = @ + 1, !.cur = Blank]
    BY <1>2, <1>3, <1>9 DEF WildStep
  <2>4. job' = [op |-> "wild", i |-> i + 1, cur |-> Blank, names |-> P]
    BY <1>1, <2>3
  <2>5. WildJob'
    BY <2>4, BlankTyped DEF WildJob
  <2>6. JobSound(TakenOut(q, i))'
    BY <2>5 DEF JobSound
  <2> QED BY <2>2, <2>6, <1>5, <1>6, Arrives
<1>10. CASE s.at # None /\ ~ (item[s.at].name \in P)
  <2>1. job' = [job EXCEPT !.i = @ + 1, !.cur = s] /\ UNCHANGED <<desc, item>>
    BY <1>2, <1>3, <1>10 DEF WildStep
  <2>2. job' = [op |-> "wild", i |-> i + 1, cur |-> s, names |-> P]
    BY <1>1, <2>1
  <2>3. Behind(s, i + 1)
    BY <1>4, <1>7, <1>10 DEF Behind
  <2>4. WildJob'
    <3>1. i + 1 \in Nat
      OBVIOUS
    <3>2. Behind(s, i + 1)'
      BY <2>3 DEF Behind
    <3> QED BY <2>2, <3>1, <3>2 DEF WildJob
  <2>5. Leads(q, q) /\ JobSound(q)'
    BY <2>1, <2>4, Stays DEF JobSound
  <2> QED BY <2>5, <1>5, <1>6, Arrives
<1> QED BY <1>8, <1>9, <1>10

\* A step of P3PmsgDesc::Truncate; at its end nothing is left.
LEMMA TruncateKeeps ==
  ASSUME NEW q, Sound(q), Apart, job = [op |-> "truncate"], TruncateStep
  PROVE  Reaches(q) /\ DeliversNow
<1>1. job.op = "truncate" /\ Own \in Curs /\ curs[Own] \in CursorSet /\ curs \in [Curs -> CursorSet]
  BY CursAssumption DEF Sound
<1>2. PICK r : r = Indexed(curs[Own], 0)
  OBVIOUS
<1>3. Ring(q, desc, item) /\ Typed /\ desc.items \in Nat
  BY DEF Sound, Typed, DescSet
<1>4. CASE r.at = None
  <2>1. curs' = [curs EXCEPT ![Own] = Blank] /\ job' = Idle /\ UNCHANGED <<desc, item>>
    BY <1>1, <1>2, <1>4 DEF TruncateStep, Seek
  <2>2. desc.items = 0
    <3> SUFFICES ASSUME desc.items # 0 PROVE FALSE
      OBVIOUS
    <3>1. 0 < desc.items /\ 0 \in Nat
      BY <1>3
    <3>2. q[0] # None
      BY <1>3, <3>1 DEF Ring
    <3>3. r = IF curs[Own].n = 0 /\ curs[Own].at # None THEN curs[Own] ELSE [n |-> 0, at |-> q[0]]
      BY <1>2, <1>3, <3>1, IndexedIs
    <3> QED BY <1>4, <3>2, <3>3
  <2>3. Linked' = {}
    <3>1. \A a \in Addr : ~ item[a].linked
      BY <1>3, <2>2 DEF Ring
    <3> QED BY <2>1, <3>1 DEF Linked
  <2>4. DeliversNow
    BY <1>1, <2>3 DEF DeliversNow
  <2>5. curs' \in [Curs -> CursorSet]
    BY <1>1, <2>1, BlankTyped
  <2>6. Leads(q, q) /\ JobSound(q)'
    BY <2>1, Stays DEF JobSound
  <2> QED BY <2>4, <2>5, <2>6, Arrives
<1>5. CASE r.at # None
  <2>1. DeleteAt(Own, r.at) /\ job' = job
    BY <1>1, <1>2, <1>5 DEF TruncateStep
  <2>2. r.at \in Linked /\ UnLink(r.at) /\ curs' = [curs EXCEPT ![Own] = Blank]
    BY <2>1 DEF DeleteAt, Seek
  <2>3. PICK j \in 0 .. desc.items - 1 : q[j] = r.at
    BY <1>3, <2>2, Walked
  <2>4. Leads(q, TakenOut(q, j))
    BY <2>2, <2>3, UnLinkLeads
  <2>5. curs' \in [Curs -> CursorSet]
    BY <1>1, <2>2, BlankTyped
  <2>6. JobSound(TakenOut(q, j))'
    BY <2>1 DEF JobSound
  <2>7. DeliversNow
    <3>1. job' # Idle
      BY <1>1, <2>1 DEF Idle
    <3> QED BY <3>1 DEF DeliversNow
  <2> QED BY <2>4, <2>5, <2>6, <2>7, Arrives
<1> QED BY <1>4, <1>5

\* A step of P3PmsgDesc::Delete(item): the item stays ahead until it is found.
LEMMA DeleteKeeps ==
  ASSUME NEW q, Sound(q), Apart, DeleteJob(q), DeleteStep
  PROVE  Reaches(q) /\ DeliversNow
<1>1. PICK i \in 0 .. Cardinality(Addr) + 1, a \in Addr, s \in BOOLEAN :
        /\ job = [op |-> "delete", i |-> i, item |-> a, sure |-> s]
        /\ s => ExactOn(q, curs[Own]) /\ \E m \in i .. desc.items - 1 : q[m] = a
  BY DEF DeleteJob
<1>2. job.op = "delete" /\ job.i = i /\ job.item = a /\ job.sure = s
  BY <1>1
<1>3. /\ Own \in Curs /\ curs[Own] \in CursorSet /\ curs \in [Curs -> CursorSet]
      /\ i \in Nat /\ Cardinality(Addr) \in Nat
  BY CursAssumption, ArenaIsFinite DEF Sound
<1>4. PICK r \in CursorSet : r = Indexed(curs[Own], i)
  BY <1>3, IndexedTyped
<1>5. /\ Ring(q, desc, item) /\ Typed /\ desc.items \in Nat /\ desc.items \in Steps
      /\ desc.items <= Cardinality(Addr)
  BY Walked, ArenaIsFinite DEF Sound, Typed, DescSet, Steps
<1>6. r = IF curs[Own].n = i /\ curs[Own].at # None THEN curs[Own]
          ELSE IF i < desc.items THEN [n |-> i, at |-> q[i]]
          ELSE [n |-> desc.items, at |-> None]
  BY <1>3, <1>4, <1>5, IndexedIs
<1>7. CASE r.at = a
  <2>1. DeleteAt(Own, r.at) /\ job' = Idle
    BY <1>2, <1>4, <1>7 DEF DeleteStep
  <2>2. r.at \in Linked /\ UnLink(r.at) /\ curs' = [curs EXCEPT ![Own] = Blank]
    BY <2>1 DEF DeleteAt, Seek
  <2>3. PICK j \in 0 .. desc.items - 1 : q[j] = r.at
    BY <1>5, <2>2, Walked
  <2>4. Leads(q, TakenOut(q, j)) /\ ~ item'[q[j]].linked
    BY <2>2, <2>3, UnLinkLeads
  <2>5. curs' \in [Curs -> CursorSet]
    BY <1>3, <2>2, BlankTyped
  <2>6. JobSound(TakenOut(q, j))'
    BY <2>1 DEF JobSound
  <2>7. DeliversNow
    BY <1>2, <1>7, <2>3, <2>4 DEF DeliversNow
  <2> QED BY <2>4, <2>5, <2>6, <2>7, Arrives
<1>8. CASE r.at # a
  <2>1. /\ curs' = [curs EXCEPT ![Own] = r] /\ UNCHANGED <<desc, item>>
        /\ job' = IF r.at = None THEN Idle ELSE [job EXCEPT !.i = @ + 1]
    BY <1>2, <1>4, <1>8 DEF DeleteStep, Seek
  <2>2. curs' \in [Curs -> CursorSet] /\ curs'[Own] = r
    BY <1>3, <2>1
  <2>3. ASSUME s
        PROVE  /\ r.at # None /\ r.at = q[i] /\ r.n = i /\ i \in 0 .. desc.items - 1
               /\ \E m \in i + 1 .. desc.items - 1 : q[m] = a
    <3>1. PICK m \in i .. desc.items - 1 : q[m] = a
      BY <1>1, <2>3
    <3>2. i \in 0 .. desc.items - 1 /\ i < desc.items /\ q[i] # None
      BY <1>3, <1>5, OnRing, CursAssumption, <3>1
    <3>3. ExactOn(q, curs[Own])
      BY <1>1, <2>3
    <3>4. r.at = q[i] /\ r.n = i
      BY <1>6, <3>2, <3>3 DEF ExactOn
    <3>5. m # i
      BY <3>1, <3>4, <1>8
    <3>6. m \in i + 1 .. desc.items - 1
      BY <1>3, <1>5, <3>5
    <3> QED BY <3>1, <3>2, <3>4, <3>6
  <2>4. Leads(q, q)
    BY <2>1, Stays
  <2>5. CASE r.at = None
    <3>1. ~ s
      BY <2>3, <2>5
    <3>2. DeliversNow
      BY <1>2, <3>1 DEF DeliversNow
    <3>3. JobSound(q)'
      BY <2>1, <2>5 DEF JobSound
    <3> QED BY <2>2, <2>4, <3>2, <3>3, Arrives
  <2>6. CASE r.at # None
    <3>1. job' = [op |-> "delete", i |-> i + 1, item |-> a, sure |-> s]
      BY <1>1, <2>1, <2>6
    <3>2. i + 1 \in 0 .. Cardinality(Addr) + 1
      <4>1. i <= Cardinality(Addr)
        <5>1. CASE curs[Own].n = i /\ curs[Own].at # None
          <6>1. i # Beyond /\ i \in -1 .. Cardinality(Addr) \cup {Beyond}
            BY <1>3, <5>1 DEF CursorSet
          <6> QED BY <6>1, <1>3
        <5>2. CASE ~ (curs[Own].n = i /\ curs[Own].at # None)
          <6>1. i < desc.items
            BY <1>6, <2>6, <5>2
          <6> QED BY <6>1, <1>3, <1>5
        <5> QED BY <5>1, <5>2
      <4> QED BY <4>1, <1>3
    <3>3. s => ExactOn(q, r) /\ \E m \in i + 1 .. desc.items - 1 : q[m] = a
      BY <2>3 DEF ExactOn
    <3>4. DeleteJob(q)'
      <4>1. desc' = desc
        BY <2>1
      <4>2. s => ExactOn(q, curs[Own])' /\ \E m \in i + 1 .. desc'.items - 1 : q[m] = a
        BY <2>2, <3>3, <4>1 DEF ExactOn
      <4> QED BY <3>1, <3>2, <4>2 DEF DeleteJob
    <3>5. JobSound(q)'
      BY <3>4 DEF JobSound
    <3>6. DeliversNow
      <4>1. job'.op = "delete"
        BY <3>1
      <4>2. job' # Idle
        BY <4>1 DEF Idle
      <4> QED BY <4>2 DEF DeliversNow
    <3> QED BY <2>2, <2>4, <3>5, <3>6, Arrives
  <2> QED BY <2>5, <2>6
<1> QED BY <1>7, <1>8

\* A step of P2PmsgMgr_Sort: the names passed are in order, and at the end all are.
LEMMA SortKeeps ==
  ASSUME NEW q, Sound(q), Apart, SortJob(q), SortStep
  PROVE  Reaches(q) /\ DeliversNow
<1>1. PICK i \in 1 .. desc.items, r \in CursorSet :
        job = [op |-> "sort", i |-> i, cur |-> r] /\ Behind(r, i) /\ InOrder(q, item, i)
  BY DEF SortJob
<1>2. job.op = "sort" /\ job.i = i /\ job.cur = r
  BY <1>1
<1>3. /\ Ring(q, desc, item) /\ Typed /\ desc.items \in Nat /\ desc.items \in Steps
      /\ i \in Nat /\ i - 1 \in Nat /\ i - 1 \in 0 .. desc.items - 1
  BY Walked DEF Sound, Typed, DescSet
<1>4. r.at # None => r.n # i
  <2>1. r.n = i => ~ (r.n < i)
    OBVIOUS
  <2> QED BY <2>1, <1>1 DEF Behind
<1>5. PICK here \in CursorSet : here = Indexed(r, i)
  BY <1>3, <1>4, IndexedFresh
<1>6. /\ i < desc.items => here.n = i /\ here.at = q[i] /\ here.at # None /\ q[i] \in Addr
      /\ i >= desc.items => here.at = None
  BY <1>3, <1>4, <1>5, IndexedFresh
<1>7. PICK back : back = Indexed(here, i - 1)
  OBVIOUS
<1>8. UNCHANGED curs /\ curs' \in [Curs -> CursorSet]
  BY DEF SortStep, Sound
<1>9. CASE here.at = None
  <2>1. job' = Idle /\ UNCHANGED <<desc, item>>
    BY <1>2, <1>5, <1>9 DEF SortStep
  <2>2. i = desc.items
    BY <1>3, <1>6, <1>9
  <2>3. Leads(q, q) /\ JobSound(q)'
    BY <2>1, Stays DEF JobSound
  <2>4. Ascending'
    <3>1. InOrder(q, item', desc'.items)
      BY <1>1, <2>1, <2>2
    <3>2. Ring(q, desc', item') /\ Typed'
      BY <2>3 DEF Leads
    <3> QED BY <3>1, <3>2, AscendingNext
  <2>5. DeliversNow
    BY <1>2, <2>4 DEF DeliversNow
  <2> QED BY <2>3, <2>5, <1>8, Arrives
<1>10. CASE here.at # None
  <2>1. i < desc.items /\ here.n = i /\ here.at = q[i] /\ q[i] \in Addr /\ i \in 0 .. desc.items - 1
    BY <1>3, <1>6, <1>10
  <2>2. here.at # None => here.n # i - 1
    BY <2>1, <1>3
  <2>3. back \in CursorSet /\ back.n = i - 1 /\ back.at = q[i - 1] /\ q[i - 1] # None
    BY <1>3, <1>7, <2>1, <2>2, IndexedFresh
  <2>4. CASE Before(item[here.at].name, item[back.at].name)
    <3>1. /\ SwapLinks(back.at, here.at)
          /\ job' = [job EXCEPT !.i = 1, !.cur = Indexed(back, 0)]
      BY <1>2, <1>5, <1>7, <1>10, <2>4 DEF SortStep
    <3>2. i - 1 # i /\ SwapLinks(q[i - 1], q[i])
      BY <2>1, <2>3, <3>1, <1>3
    <3> DEFINE s == Exchanged(q, i - 1, i)
    <3>3. Ring(s, desc', item') /\ Typed' /\ NamesKnown(item') /\ desc'.items = desc.items
      BY <1>3, <2>1, <3>2, SwapLeads
    <3>4. ~ InOrder(q, item, desc.items)
      <4>1. i \in 1 .. desc.items - 1
        BY <1>3, <2>1
      <4> QED BY <4>1, <2>1, <2>3, <2>4 DEF InOrder
    <3> HIDE DEF s
    <3>5. Leads(q, s)
      BY <3>3, <3>4 DEF Leads
    <3>6. PICK c \in CursorSet : c = Indexed(back, 0)
      BY <2>3, IndexedTyped
    <3>7. job' = [op |-> "sort", i |-> 1, cur |-> c]
      BY <1>1, <3>1, <3>6
    <3>8. Behind(c, 1)
      <4>1. c = IF back.n = 0 /\ back.at # None THEN back
                ELSE IF 0 < desc.items THEN [n |-> 0, at |-> q[0]]
                ELSE [n |-> desc.items, at |-> None]
        BY <1>3, <3>6, IndexedIs
      <4> QED BY <4>1, <1>3, <2>1 DEF Behind
    <3>9. SortJob(s)'
      <4>1. 1 \in 1 .. desc'.items /\ InOrder(s, item', 1)
        BY <1>3, <2>1, <3>3 DEF InOrder
      <4>2. Behind(c, 1)'
        BY <3>8 DEF Behind
      <4>3. InOrder(s, item, 1)'
        BY <4>1 DEF InOrder
      <4> QED BY <3>7, <4>1, <4>2, <4>3 DEF SortJob
    <3>10. JobSound(s)'
      BY <3>9 DEF JobSound
    <3>11. DeliversNow
      <4>1. job'.op = "sort"
        BY <3>7
      <4>2. job' # Idle
        BY <4>1 DEF Idle
      <4> QED BY <4>2 DEF DeliversNow
    <3> QED BY <3>5, <3>10, <3>11, <1>8, Arrives
  <2>5. CASE ~ Before(item[here.at].name, item[back.at].name)
    <3>1. job' = [job EXCEPT !.i = @ + 1, !.cur = back] /\ UNCHANGED <<desc, item>>
      BY <1>2, <1>5, <1>7, <1>10, <2>5 DEF SortStep
    <3>2. job' = [op |-> "sort", i |-> i + 1, cur |-> back]
      BY <1>1, <3>1
    <3>3. Behind(back, i + 1)
      BY <1>3, <2>3 DEF Behind
    <3>4. InOrder(q, item, i + 1)
      <4> SUFFICES ASSUME NEW k \in 1 .. (i + 1) - 1 PROVE ~ Before(item[q[k]].name, item[q[k - 1]].name)
        BY DEF InOrder
      <4>1. CASE k = i
        BY <4>1, <2>1, <2>3, <2>5
      <4>2. CASE k # i
        <5>1. k \in 1 .. i - 1
          BY <4>2, <1>3
        <5> QED BY <5>1, <1>1 DEF InOrder
      <4> QED BY <4>1, <4>2
    <3>5. SortJob(q)'
      <4>1. i + 1 \in 1 .. desc'.items
        BY <1>3, <2>1, <3>1
      <4>2. Behind(back, i + 1)' /\ InOrder(q, item, i + 1)'
        BY <3>1, <3>3, <3>4 DEF Behind, InOrder
      <4> QED BY <3>2, <4>1, <4>2, <2>3 DEF SortJob
    <3>6. Leads(q, q) /\ JobSound(q)'
      BY <3>1, <3>5, Stays DEF JobSound
    <3>7. DeliversNow
      <4>1. job'.op = "sort"
        BY <3>2
      <4>2. job' # Idle
        BY <4>1 DEF Idle
      <4> QED BY <4>2 DEF DeliversNow
    <3> QED BY <3>6, <3>7, <1>8, Arrives
  <2> QED BY <2>4, <2>5
<1> QED BY <1>9, <1>10

-----------------------------------------------------------------------------
(***************************************************************************)
(* Calls, made when no loop is in progress.                                *)
(***************************************************************************)

\* A call that only moves a cursor.
LEMMA SeekKeeps ==
  ASSUME NEW q, Sound(q), job = Idle, NEW c \in Curs, NEW r \in CursorSet,
         Seek(c, r), UNCHANGED <<desc, item, job>>
  PROVE  Reaches(q)
<1>1. Leads(q, q)
  BY Stays
<1>2. curs' \in [Curs -> CursorSet]
  BY DEF Sound, Seek
<1>3. JobSound(q)'
  BY DEF JobSound
<1> QED BY <1>1, <1>2, <1>3, Arrives

\* P3PmsgCurs::Delete, through any cursor.
LEMMA DeleteAtKeeps ==
  ASSUME NEW q, Sound(q), Apart, job = Idle, NEW c \in Curs, NEW at, DeleteAt(c, at), UNCHANGED job
  PROVE  Reaches(q)
<1>1. at \in Linked /\ UnLink(at) /\ curs' = [curs EXCEPT ![c] = Blank]
  BY DEF DeleteAt, Seek
<1>2. PICK j \in 0 .. desc.items - 1 : q[j] = at
  BY <1>1, Walked DEF Sound
<1>3. Leads(q, TakenOut(q, j))
  BY <1>1, <1>2, UnLinkLeads
<1>4. curs' \in [Curs -> CursorSet]
  BY <1>1, BlankTyped DEF Sound
<1>5. JobSound(TakenOut(q, j))'
  BY DEF JobSound
<1> QED BY <1>3, <1>4, <1>5, Arrives

\* Goto, operator ++ and operator --.
LEMMA WalkKeeps ==
  ASSUME NEW q, Sound(q), job = Idle, NEW c \in Curs,
         \/ \E i \in 0 .. Cardinality(Addr) : GotoIndex(c, i)
         \/ \E nm \in Name : GotoName(c, nm)
         \/ StepOn(c) \/ StepBack(c)
  PROVE  Reaches(q)
<1>1. PICK k \in CursorSet : k = curs[c]
  BY DEF Sound
<1>2. /\ desc.items \in Nat /\ Cardinality(Addr) \in Nat /\ Beyond \in Nat /\ k.n \in Int /\ k.n >= -1
      /\ Beyond \notin 0 .. Cardinality(Addr)
  <2>1. desc.items \in Nat /\ Cardinality(Addr) \in Nat /\ Beyond \in Nat
        /\ \A n \in 0 .. Cardinality(Addr) : n < Beyond
    BY ArenaIsFinite, BeyondAssumption DEF Sound, Typed, DescSet
  <2>2. k.n \in -1 .. Cardinality(Addr) \cup {Beyond}
    BY DEF CursorSet
  <2> QED BY <2>1, <2>2
<1>3. ASSUME NEW i \in 0 .. Cardinality(Addr), GotoIndex(c, i) PROVE Reaches(q)
  <2>1. Indexed(k, i) \in CursorSet
    BY <1>2, IndexedTyped
  <2> QED BY <1>1, <1>3, <2>1, SeekKeeps DEF GotoIndex
<1>4. ASSUME NEW nm \in Name, GotoName(c, nm) PROVE Reaches(q)
  <2>1. NamedItem(k, nm) \in CursorSet
    BY NamedTyped
  <2> QED BY <1>1, <1>4, <2>1, SeekKeeps DEF GotoName
<1>5. ASSUME StepOn(c) PROVE Reaches(q)
  <2>1. [n |-> Beyond, at |-> None] \in CursorSet
    BY DEF CursorSet, DescLink
  <2>2. Indexed(k, k.n + 1) \in CursorSet
    <3>1. PICK m \in Nat : m = k.n + 1
      BY <1>2
    <3>2. Indexed(k, m) \in CursorSet
      BY IndexedTyped
    <3> QED BY <3>1, <3>2
  <2>3. PICK r \in CursorSet : r = IF curs[c].n >= desc.items - 1 THEN [n |-> Beyond, at |-> None]
                                   ELSE Indexed(curs[c], curs[c].n + 1)
    BY <1>1, <2>1, <2>2
  <2>4. Seek(c, r) /\ UNCHANGED <<desc, item, job>>
    BY <1>5, <2>3 DEF StepOn
  <2> QED BY <2>4, SeekKeeps
<1>6. ASSUME StepBack(c) PROVE Reaches(q)
  <2>1. [n |-> -1, at |-> None] \in CursorSet
    BY <1>2 DEF CursorSet, DescLink
  <2> DEFINE m == IF curs[c].n > desc.items THEN desc.items ELSE curs[c].n
  <2>2. ASSUME ~ (curs[c].n = 0 \/ desc.items = 0) PROVE Indexed(k, m - 1) \in CursorSet
    <3>1. k.n >= 0
      BY <1>1, <1>6 DEF StepBack
    <3>2. PICK x \in Nat : x = m - 1
      BY <1>1, <1>2, <2>2, <3>1
    <3>3. Indexed(k, x) \in CursorSet
      BY IndexedTyped
    <3> QED BY <3>2, <3>3
  <2>3. PICK r \in CursorSet : r = IF curs[c].n = 0 \/ desc.items = 0 THEN [n |-> -1, at |-> None]
                                   ELSE Indexed(curs[c], m - 1)
    BY <1>1, <2>1, <2>2
  <2>4. Seek(c, r) /\ UNCHANGED <<desc, item, job>>
    BY <1>6, <2>3 DEF StepBack
  <2> QED BY <2>4, SeekKeeps
<1> QED BY <1>3, <1>4, <1>5, <1>6

\* P3PmsgDesc::PushBack and DeclareItem.
LEMMA PushKeeps ==
  ASSUME NEW q, Sound(q), Apart, Duplicates = FALSE, job = Idle, NEW nm \in Name,
         PushBack(nm) \/ DeclareItem(nm)
  PROVE  Reaches(q)
<1>1. ASSUME PushBack(nm) PROVE Reaches(q)
  <2>1. desc.sorted => FreshName(nm)
    <3> SUFFICES ASSUME desc.sorted PROVE FreshName(nm)
      OBVIOUS
    <3>1. \A a \in Linked : item[a].name # nm
      BY <1>1 DEF PushBack
    <3> QED BY <3>1 DEF FreshName, Sound, NamesKnown, Linked
  <2>2. Push(nm) /\ UNCHANGED <<curs, job>>
    BY <1>1 DEF PushBack
  <2>3. PICK j \in 0 .. desc.items : Leads(q, PutIn(q, j, Alloc))
    BY <2>1, <2>2, PushLeads
  <2>4. PICK r : r = PutIn(q, j, Alloc)
    OBVIOUS
  <2>5. curs' \in [Curs -> CursorSet] /\ JobSound(r)'
    BY <2>2 DEF Sound, JobSound
  <2>6. Leads(q, r)
    BY <2>3, <2>4
  <2> QED BY <2>5, <2>6, Arrives
<1>2. ASSUME DeclareItem(nm) PROVE Reaches(q)
  <2>1. PICK k \in CursorSet : k = curs[Own]
    BY CursAssumption DEF Sound
  <2>2. PICK r \in CursorSet : /\ r = NamedItem(k, nm)
                               /\ r.at = None => \A a \in Addr : item[a].linked => item[a].name # nm
    BY NamedTyped
  <2>3. UNCHANGED job /\ Own \in Curs
    BY <1>2, CursAssumption DEF DeclareItem
  <2>4. CASE r.at # None
    <3>1. Seek(Own, r) /\ UNCHANGED <<desc, item>>
      BY <1>2, <2>1, <2>2, <2>4 DEF DeclareItem
    <3> QED BY <2>3, <3>1, SeekKeeps
  <2>5. CASE r.at = None
    <3> DEFINE found == [n |-> CHOOSE i \in DOMAIN FromFirst : FromFirst'[i] = Alloc, at |-> Alloc]
    <3>1. Push(nm) /\ Seek(Own, found)
      BY <1>2, <2>1, <2>2, <2>5 DEF DeclareItem
    <3>2. desc.sorted => FreshName(nm)
      BY <2>2, <2>5 DEF FreshName, Sound, NamesKnown
    <3>3. PICK j \in 0 .. desc.items :
            /\ Leads(q, PutIn(q, j, Alloc)) /\ Alloc \in Addr
            /\ FromFirst' = [i \in Steps |-> PutIn(q, j, Alloc)[i]] /\ j \in Steps
      BY <3>1, <3>2, PushLeads
    <3>4. DOMAIN FromFirst = Steps
      BY Walked DEF Sound
    <3>5. FromFirst'[j] = Alloc
      BY <3>3 DEF PutIn
    <3>6. PICK i \in Steps : i = CHOOSE x \in DOMAIN FromFirst : FromFirst'[x] = Alloc
      BY <3>3, <3>4, <3>5
    <3>7. found \in CursorSet
      <4>1. found = [n |-> i, at |-> Alloc] /\ Alloc \in DescLink
        BY <3>3, <3>6 DEF DescLink
      <4> QED BY <4>1, CursorMade
    <3> HIDE DEF found
    <3>8. curs' \in [Curs -> CursorSet]
      BY <2>3, <3>1, <3>7 DEF Seek, Sound
    <3>9. PICK s : s = PutIn(q, j, Alloc)
      OBVIOUS
    <3>10. Leads(q, s) /\ JobSound(s)'
      BY <2>3, <3>3, <3>9 DEF JobSound
    <3> QED BY <3>8, <3>10, Arrives
  <2> QED BY <2>4, <2>5
<1> QED BY <1>1, <1>2

\* A cursor true to the chain is true to the ring.
LEMMA ExactHere ==
  ASSUME NEW q, Sound(q), NEW r, Exact(r) PROVE ExactOn(q, r)
<1>1. desc.items \in Steps /\ \A k \in Steps : FromFirst[k] = q[k]
  BY Walked DEF Sound
<1>2. 0 .. desc.items - 1 \subseteq Steps
  BY <1>1, ArenaIsFinite DEF Steps
<1> QED BY <1>1, <1>2 DEF Exact, ExactOn

\* A loop that starts is sound: nothing is passed yet.
LEMMA LoopStarts ==
  ASSUME NEW q, Sound(q), job = Idle,
         \/ \E P \in Pattern : WCDelete(P)
         \/ \E a \in Addr : DeleteItem(a)
         \/ Truncate \/ Sort
  PROVE  Reaches(q)
<1>1. UNCHANGED <<desc, item, curs>>
  BY DEF WCDelete, DeleteItem, Truncate, Sort
<1>2. Leads(q, q) /\ curs' \in [Curs -> CursorSet] /\ desc.items \in Nat
  BY <1>1, Stays DEF Sound, Typed, DescSet
<1> SUFFICES JobSound(q)'
  BY <1>2, Arrives
<1>3. ASSUME NEW P \in Pattern, WCDelete(P) PROVE JobSound(q)'
  <2>1. job' = [op |-> "wild", i |-> 0, cur |-> Blank, names |-> P]
    BY <1>3 DEF WCDelete
  <2>2. WildJob'
    BY <2>1, BlankTyped DEF WildJob
  <2> QED BY <2>2 DEF JobSound
<1>4. ASSUME NEW a \in Addr, DeleteItem(a) PROVE JobSound(q)'
  <2>1. PICK s \in BOOLEAN : s = Exact(curs[Own])
    BY DEF Exact
  <2>2. job' = [op |-> "delete", i |-> 0, item |-> a, sure |-> s] /\ a \in Linked
    BY <1>4, <2>1 DEF DeleteItem
  <2>3. s => ExactOn(q, curs[Own]) /\ \E m \in 0 .. desc.items - 1 : q[m] = a
    BY <2>1, <2>2, ExactHere, Walked DEF Sound
  <2>4. s => ExactOn(q, curs[Own])' /\ \E m \in 0 .. desc'.items - 1 : q[m] = a
    BY <1>1, <2>3 DEF ExactOn
  <2>5. DeleteJob(q)'
    <3>1. 0 \in 0 .. Cardinality(Addr) + 1
      BY ArenaIsFinite
    <3> QED BY <2>2, <2>4, <3>1 DEF DeleteJob
  <2> QED BY <2>5 DEF JobSound
<1>5. ASSUME Truncate PROVE JobSound(q)'
  BY <1>5 DEF Truncate, JobSound
<1>6. ASSUME Sort PROVE JobSound(q)'
  <2>1. job' = [op |-> "sort", i |-> 1, cur |-> Blank] /\ desc.items > 1 /\ desc' = desc
    BY <1>1, <1>6 DEF Sort
  <2>2. SortJob(q)'
    <3>1. 1 \in 1 .. desc'.items /\ Behind(Blank, 1)' /\ InOrder(q, item, 1)'
      BY <2>1, <1>2, BlankTyped DEF Behind, InOrder
    <3> QED BY <2>1, <3>1, BlankTyped DEF SortJob
  <2> QED BY <2>2 DEF JobSound
<1> QED BY <1>3, <1>4, <1>5, <1>6

-----------------------------------------------------------------------------
(***************************************************************************)
(* The theorems.  Their premises are the passing run's: the names in use   *)
(* are told apart by the letters both have, and no name is pushed twice to *)
(* a sorted collection; the search has no place for others.                *)
(***************************************************************************)

Swapping == job = Idle /\ \E a, b \in Addr : Swap(a, b)

\* A caller's own swap keeps the ring; it need not keep the order.
LEMMA SwappingKeeps ==
  ASSUME NEW q, Sound(q), Swapping PROVE \E r : Sound(r)' /\ JobSound(r)'
<1>1. PICK a \in Addr, b \in Addr : Swap(a, b)
  BY DEF Swapping
<1>2. {a, b} \subseteq Linked /\ a # b /\ SwapLinks(a, b) /\ UNCHANGED <<curs, job>>
  BY <1>1 DEF Swap
<1>3. PICK i \in 0 .. desc.items - 1, j \in 0 .. desc.items - 1 : q[i] = a /\ q[j] = b
  BY <1>2, Walked DEF Sound
<1>4. PICK r : r = Exchanged(q, i, j)
  OBVIOUS
<1>5. Ring(r, desc', item') /\ Typed' /\ NamesKnown(item')
  BY <1>2, <1>3, <1>4, SwapLeads
<1>6. Sound(r)' /\ JobSound(r)'
  BY <1>2, <1>5 DEF Sound, JobSound, Swapping
<1> QED BY <1>6

\* Every step keeps the invariant and the order, unless the caller swaps items himself.
LEMMA StepOrCall ==
  ASSUME NEW q, Sound(q), JobSound(q), Apart, Duplicates = FALSE, [Next]_vars
  PROVE  (Reaches(q) /\ DeliversNow) \/ Swapping
<1>1. CASE UNCHANGED vars
  <2>1. UNCHANGED <<desc, item>> /\ curs' = curs /\ job' = job
    BY <1>1 DEF vars
  <2>2. curs' \in [Curs -> CursorSet] /\ Leads(q, q)
    BY <2>1, Stays DEF Sound
  <2>3. JobSound(q)'
    BY <2>1 DEF JobSound, WildJob, DeleteJob, SortJob, InOrder, ExactOn, Behind
  <2>4. DeliversNow
    BY <2>1 DEF DeliversNow
  <2> QED BY <2>2, <2>3, <2>4, Arrives
<1>2. CASE Step
  <2>1. CASE WildStep
    <3>1. job.op = "wild"
      BY <2>1 DEF WildStep
    <3>2. WildJob
      BY <3>1 DEF JobSound, Idle, DeleteJob, SortJob
    <3> QED BY <2>1, <3>2, WildKeeps
  <2>2. CASE TruncateStep
    <3>1. job.op = "truncate"
      BY <2>2 DEF TruncateStep
    <3>2. job = [op |-> "truncate"]
      BY <3>1 DEF JobSound, Idle, DeleteJob, SortJob, WildJob
    <3> QED BY <2>2, <3>2, TruncateKeeps
  <2>3. CASE DeleteStep
    <3>1. job.op = "delete"
      BY <2>3 DEF DeleteStep
    <3>2. DeleteJob(q)
      BY <3>1 DEF JobSound, Idle, SortJob, WildJob
    <3> QED BY <2>3, <3>2, DeleteKeeps
  <2>4. CASE SortStep
    <3>1. job.op = "sort"
      BY <2>4 DEF SortStep
    <3>2. SortJob(q)
      BY <3>1 DEF JobSound, Idle, DeleteJob, WildJob
    <3> QED BY <2>4, <3>2, SortKeeps
  <2> QED BY <1>2, <2>1, <2>2, <2>3, <2>4 DEF Step
<1>3. CASE job = Idle /\ Call
  <2>1. DeliversNow
    BY <1>3 DEF DeliversNow
  <2>2. ASSUME NEW c \in Curs \ {Own},
               \/ \E i \in 0 .. Cardinality(Addr) : GotoIndex(c, i)
               \/ StepOn(c) \/ StepBack(c) \/ Delete(c)
        PROVE  Reaches(q)
    <3>1. CASE Delete(c)
      <4>1. PICK at : at = curs[c].at
        OBVIOUS
      <4>2. DeleteAt(c, at) /\ UNCHANGED job
        BY <3>1, <4>1 DEF Delete
      <4> QED BY <1>3, <4>2, DeleteAtKeeps
    <3>2. CASE \/ \E i \in 0 .. Cardinality(Addr) : GotoIndex(c, i)
               \/ StepOn(c) \/ StepBack(c)
      BY <1>3, <3>2, WalkKeeps
    <3> QED BY <2>2, <3>1, <3>2
  <2>3. ASSUME NEW c \in Curs, NEW nm \in Name, GotoName(c, nm) PROVE Reaches(q)
    BY <1>3, <2>3, WalkKeeps
  <2>4. ASSUME NEW nm \in Name, PushBack(nm) \/ DeclareItem(nm) \/ DeleteName(nm)
        PROVE  Reaches(q)
    <3>1. CASE DeleteName(nm)
      <4>1. PICK at : at = NamedItem(curs[Own], nm).at
        OBVIOUS
      <4>2. DeleteAt(Own, at) /\ UNCHANGED job /\ Own \in Curs
        BY <3>1, <4>1, CursAssumption DEF DeleteName
      <4> QED BY <1>3, <4>2, DeleteAtKeeps
    <3>2. CASE PushBack(nm) \/ DeclareItem(nm)
      BY <1>3, <3>2, PushKeeps
    <3> QED BY <2>4, <3>1, <3>2
  <2>5. ASSUME \/ \E P \in Pattern : WCDelete(P)
               \/ \E a \in Addr : DeleteItem(a)
               \/ Truncate \/ Sort
        PROVE  Reaches(q)
    BY <1>3, <2>5, LoopStarts
  <2>6. (\E a, b \in Addr : Swap(a, b)) => Swapping
    BY <1>3 DEF Swapping
  <2> QED BY <1>3, <2>1, <2>2, <2>3, <2>4, <2>5, <2>6 DEF Call
<1> QED BY <1>1, <1>2, <1>3 DEF Next

\* The empty collection.
LEMMA DescStart == Init => DescInv
<1> SUFFICES ASSUME Init PROVE DescInv
  OBVIOUS
<1> DEFINE q == [k \in Int |-> None]
<1>1. /\ desc.first = None /\ desc.last = None /\ desc.items = 0 /\ desc \in DescSet
      /\ item = [a \in Addr |-> Free] /\ curs = [c \in Curs |-> Blank] /\ job = Idle
  BY DEF Init, DescSet, DescLink
<1>2. Free \in ItemSet /\ ~ Free.linked
  BY DEF Free, ItemSet, DescLink
<1>3. q \in [Int -> DescLink] /\ \A k \in Int : q[k] = None
  BY DEF DescLink
<1>4. \A a \in Addr : item[a] \in ItemSet /\ ~ item[a].linked
  BY <1>1, <1>2
<1>5. item \in [Addr -> ItemSet]
  BY <1>1, <1>2
<1>6. Ring(q, desc, item)
  <2> HIDE DEF q
  <2>1. 0 .. desc.items - 1 = {}
    BY <1>1
  <2>2. 0 \in Int /\ desc.items - 1 \in Int
    BY <1>1
  <2> QED BY <1>1, <1>3, <1>4, <2>1, <2>2 DEF Ring
<1>7. curs \in [Curs -> CursorSet]
  BY <1>1, BlankTyped
<1>8. Sound(q)
  BY <1>1, <1>4, <1>5, <1>6, <1>7 DEF Sound, Typed, NamesKnown
<1>9. JobSound(q)
  BY <1>1 DEF JobSound
<1> QED BY <1>8, <1>9 DEF DescInv

\* The invariant is inductive.
LEMMA DescStep ==
  ASSUME Apart, Duplicates = FALSE PROVE DescInv /\ [Next]_vars => DescInv'
<1> SUFFICES ASSUME DescInv, [Next]_vars PROVE DescInv'
  OBVIOUS
<1>1. PICK q : Sound(q) /\ JobSound(q)
  BY DEF DescInv
<1>2. Reaches(q) \/ Swapping
  BY <1>1, StepOrCall
<1>3. \E r : Sound(r)' /\ JobSound(r)'
  BY <1>1, <1>2, SwappingKeeps DEF Reaches
<1> QED BY <1>3 DEF DescInv

\* It holds the soundness of the chain,
LEMMA ChainHere == DescInv => ChainSound
<1> SUFFICES ASSUME NEW q, Sound(q), JobSound(q) PROVE ChainSound
  BY DEF DescInv
<1> DEFINE n == desc.items
<1>1. Ring(q, desc, item) /\ Typed /\ n \in Nat /\ Cardinality(Addr) \in Nat
  BY ArenaIsFinite DEF Sound, Typed, DescSet
<1>2. /\ n \in Steps /\ Cardinality(Linked) = n
      /\ \A k \in Steps : FromFirst[k] = q[k] /\ FromLast[k] = q[n - 1 - k]
      /\ \A a \in Linked : \E k \in 0 .. n - 1 : q[k] = a
  BY <1>1, Walked
<1>3. \A k \in 0 .. n : k \in Steps
  BY <1>1, <1>2 DEF Steps
<1>4. \A k \in 0 .. n - 1 : q[k] \in Linked
  BY <1>1, OnRing DEF Linked
<1>5. Threaded
  <2>1. Linked = {FromFirst[k] : k \in 0 .. n - 1}
    BY <1>1, <1>2, <1>3, <1>4
  <2>2. FromFirst[n] = None /\ FromLast[n] = None
    <3>1. q[n] = None /\ q[n - 1 - n] = None
      BY <1>1, OnRing
    <3> QED BY <1>2, <3>1
  <2>3. \A k \in 0 .. n - 1 : FromFirst[k] = FromLast[n - 1 - k]
    <3> TAKE k \in 0 .. n - 1
    <3>1. n - 1 - k \in Steps /\ k \in Steps /\ n - 1 - (n - 1 - k) = k
      BY <1>1, <1>3
    <3> QED BY <1>2, <3>1
  <2> QED BY <1>2, <2>1, <2>2, <2>3 DEF Threaded
<1>6. TypeOK
  <2>1. desc \in [first : DescLink, last : DescLink, items : 0 .. Cardinality(Addr), sorted : BOOLEAN]
    BY <1>1, <1>2 DEF Typed, DescSet, Steps
  <2>2. item \in [Addr -> ItemSet]
    BY <1>1 DEF Typed
  <2>3. curs \in [Curs -> [n : -1 .. Cardinality(Addr) \cup {Beyond}, at : DescLink]]
    BY DEF Sound, CursorSet
  <2>4. job.op \in {"idle", "wild", "truncate", "delete", "sort"}
    BY DEF JobSound, Idle, WildJob, DeleteJob, SortJob
  <2> QED BY <2>1, <2>2, <2>3, <2>4 DEF TypeOK, DescLink, ItemSet
<1> QED BY <1>5, <1>6 DEF ChainSound

\* And the other way.
LEMMA ExactThere ==
  ASSUME NEW q, Sound(q), NEW r, r.at # None => r.n \in 0 .. desc.items - 1 /\ r.at = q[r.n]
  PROVE  Exact(r)
<1> SUFFICES ASSUME r.at # None
             PROVE  r.at \in Linked /\ r.n \in 0 .. desc.items - 1 /\ FromFirst[r.n] = r.at
  BY DEF Exact
<1>1. /\ Ring(q, desc, item) /\ Typed /\ desc.items \in Steps
      /\ \A k \in Steps : FromFirst[k] = q[k]
  BY Walked DEF Sound
<1>2. PICK k : k = r.n
  OBVIOUS
<1>3. k \in 0 .. desc.items - 1 /\ r.at = q[k]
  BY <1>2
<1>4. k \in Steps
  BY <1>1, <1>3, ArenaIsFinite DEF Steps
<1>5. q[k] \in Addr /\ item[q[k]].linked
  BY <1>1, <1>3, OnRing
<1> QED BY <1>1, <1>2, <1>3, <1>4, <1>5 DEF Linked

\* and the rightness of what a true cursor is asked.
LEMMA GotoHere == DescInv => GotoRight
<1> SUFFICES ASSUME NEW q, Sound(q), NEW c \in Curs, Exact(curs[c])
             PROVE
    /\ \A i \in 0 .. Cardinality(Addr) :
         Indexed(curs[c], i) = IF i < desc.items THEN [n |-> i, at |-> FromFirst[i]]
                                                 ELSE [n |-> desc.items, at |-> None]
    /\ \A nm \in Name : LET r == NamedItem(curs[c], nm) IN
         /\ Exact(r) /\ (r.at # None => item[r.at].name = nm)
         /\ r.at = None => \A a \in Linked : item[a].name # nm
  BY DEF DescInv, GotoRight
<1>1. /\ Ring(q, desc, item) /\ Typed /\ desc.items \in Steps /\ desc.items \in Nat
      /\ \A k \in Steps : FromFirst[k] = q[k]
  BY Walked DEF Sound, Typed, DescSet
<1>2. PICK r \in CursorSet : r = curs[c]
  BY DEF Sound
<1>3. Exact(r) /\ ExactOn(q, r)
  BY <1>2, ExactHere
<1>4. ASSUME NEW i \in 0 .. Cardinality(Addr)
      PROVE  Indexed(r, i) = IF i < desc.items THEN [n |-> i, at |-> FromFirst[i]]
                                               ELSE [n |-> desc.items, at |-> None]
  <2>1. i \in Nat /\ i \in Steps /\ FromFirst[i] = q[i]
    BY <1>1, ArenaIsFinite DEF Steps
  <2>2. Indexed(r, i) = IF r.n = i /\ r.at # None THEN r
                        ELSE IF i < desc.items THEN [n |-> i, at |-> q[i]]
                        ELSE [n |-> desc.items, at |-> None]
    BY <1>1, <2>1, IndexedIs
  <2>3. CASE r.n = i /\ r.at # None
    <3>1. i < desc.items /\ q[i] = r.at
      BY <1>1, <1>3, <2>3 DEF ExactOn
    <3>2. r = [n |-> r.n, at |-> r.at]
      BY DEF CursorSet
    <3>3. r = [n |-> i, at |-> q[i]]
      BY <2>3, <3>1, <3>2
    <3> QED BY <2>1, <2>2, <2>3, <3>1, <3>3
  <2> QED BY <2>1, <2>2, <2>3
<1>5. ASSUME NEW nm \in Name, NEW s, s = NamedItem(r, nm)
      PROVE  /\ Exact(s) /\ (s.at # None => item[s.at].name = nm)
             /\ s.at = None => \A a \in Linked : item[a].name # nm
  <2>1. FoundBy(q, r, nm, s)
    BY <1>1, <1>5, NamedIs
  <2>2. CASE s = r /\ r.at # None /\ item[r.at].name = nm
    BY <2>2, <1>3
  <2>3. CASE s = Blank /\ \A a \in Addr : item[a].linked => item[a].name # nm
    BY <2>3 DEF Exact, Blank, Linked
  <2>4. ASSUME NEW k \in 0 .. desc.items - 1, s = [n |-> k, at |-> q[k]], item[q[k]].name = nm
        PROVE  /\ Exact(s) /\ (s.at # None => item[s.at].name = nm)
               /\ s.at = None => \A a \in Linked : item[a].name # nm
    <3>1. s.n = k /\ s.at = q[k] /\ q[k] # None
      BY <1>1, <2>4, OnRing, CursAssumption
    <3>2. Exact(s)
      BY <3>1, ExactThere
    <3> QED BY <2>4, <3>1, <3>2
  <2> QED BY <2>1, <2>2, <2>3, <2>4 DEF FoundBy
<1> QED BY <1>2, <1>4, <1>5

\* What SortedIn asks of a step.
LEMMA OrderKept ==
  ASSUME Apart, Duplicates = FALSE, DescInv, [Next]_vars
  PROVE  (desc.sorted /\ Ascending /\ ~ \E a, b \in Addr : Swap(a, b)) => Ascending'
<1> SUFFICES ASSUME desc.sorted, Ascending, ~ \E a, b \in Addr : Swap(a, b) PROVE Ascending'
  OBVIOUS
<1>1. PICK q : Sound(q) /\ JobSound(q)
  BY DEF DescInv
<1>2. PICK r : Leads(q, r)
  BY <1>1, StepOrCall DEF Reaches, Swapping
<1>3. Ring(r, desc', item') /\ Typed'
  BY <1>2 DEF Leads
<1>4. InOrder(q, item, desc.items)
  BY <1>1, AscendingIs DEF Sound
<1> QED BY <1>2, <1>3, <1>4, AscendingNext DEF Leads

\* What LoopsDeliver asks of a step.
LEMMA LoopDelivers ==
  ASSUME Apart, Duplicates = FALSE, DescInv, [Next]_vars PROVE DeliversNow
<1>1. PICK q : Sound(q) /\ JobSound(q)
  BY DEF DescInv
<1>2. Swapping => DeliversNow
  BY DEF Swapping, DeliversNow
<1> QED BY <1>1, <1>2, StepOrCall

\* The invariant holds always.
LEMMA DescAlways == ASSUME Apart, Duplicates = FALSE PROVE Spec => []DescInv
BY DescStart, DescStep, PTL DEF Spec

\* For every arena, all names and all cursors the chain of a collection stays one ring of the
\* linked blocks, read alike from both ends and as long as the count says, whatever sequence of
\* pushes, deletions, swaps and loops is run on it (P2PmsgDesc_LinkinItem, UnLinkItem and Swap).
THEOREM ChainIsSound == ASSUME Apart, Duplicates = FALSE PROVE Spec => []ChainSound
BY DescAlways, ChainHere, PTL

\* P3PmsgCurs::Goto answers an ordinal or a name rightly through every cursor still true to the
\* chain: the cache and the walks from either end agree.
THEOREM GotoIsRight == ASSUME Apart, Duplicates = FALSE PROVE Spec => []GotoRight
BY DescAlways, GotoHere, PTL

\* P2PmsgDesc_SortinItem keeps a sorted collection sorted: the place its narrowing search ends at
\* is between the names before and the names after the new one.
THEOREM SortedInHolds == ASSUME Apart, Duplicates = FALSE PROVE Spec => SortedIn
BY DescAlways, OrderKept, PTL DEF Spec, SortedIn

\* Each loop has done its work when it ends: P3PmsgDesc::Truncate, P2PmsgMgr_Sort and
\* P3PmsgDesc::Delete(item), each restarted from what its own changes left of the chain.
THEOREM LoopsDeliverHolds == ASSUME Apart, Duplicates = FALSE PROVE Spec => LoopsDeliver
BY DescAlways, LoopDelivers, PTL DEF Spec, LoopsDeliver, DeliversNow
=============================================================================
