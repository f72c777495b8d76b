---------------------------- MODULE ImageFields ----------------------------
(***************************************************************************)
(* The numbers an image is made of: links, counts, sizes and slots.  The   *)
(* addressing mode of the image fixes the width each is stored in, and     *)
(* every field has a pair of functions, one that stores and one that       *)
(* reads.  A store either fits, or throws and leaves the field alone; the  *)
(* test differs from one family of fields to the next, and so does the     *)
(* type the value has on its way in and out.                               *)
(*                                                                         *)
(* The state is one block of one kind: its fields as the image holds them, *)
(* and what the callers were told they hold.                               *)
(***************************************************************************)
EXTENDS Integers

CONSTANTS
    Small,      \* one past the largest value of a 16-bit field
    Full,       \* of a 32-bit field, and of UINT
    Wide,       \* of the 48 bits the setters of a 64-bit link accept
    Word,       \* of a 64-bit field, VBLaddr and VBLsize
    FieldValue,      \* the values callers pass to a setter that tests
    FieldSize,       \* the sizes of blocks charged to a heap
    MaxItems    \* the largest count the model goes up to

Half == Full \div 2       \* one past the largest int

ASSUME FieldWidths ==
    /\ {Small, Full, Wide, Word, MaxItems} \subseteq Nat \ {0}
    /\ Full = 2 * Half /\ Small <= Half /\ Full <= Wide /\ 2 * Wide <= Word
    /\ FieldValue \subseteq 0..(Word - 1)
    /\ FieldSize \subseteq 1..(Full - 1)
    /\ MaxItems < Small

Mode == {16, 32, 64}

(***************************************************************************)
(* The fields, by the rule their setter follows.                           *)
(***************************************************************************)
\* Links whose setter accepts 16, 32 or 48 bits.
RootLinks  == {"root first", "root last"}
ListLinks  == {"list first", "list last"}
AttrLinks  == {"attr first", "attr last"}
AttrParent == {"attr parent"}
DescLinks  == {"desc first", "desc last"}
DescParent == {"desc parent"}
ItemLinks  == {"item prev", "item next"}
ItemExtra  == {"item extra"}
ItemOwners == {"item stack", "item parent"}
NameChain  == {"name chain"}
BlockSize  == {"block size"}
Tested == RootLinks \cup ListLinks \cup AttrLinks \cup AttrParent \cup DescLinks
            \cup DescParent \cup ItemLinks \cup ItemExtra \cup ItemOwners
            \cup NameChain \cup BlockSize

\* Links whose setter accepts whatever the field can hold.  ("item descn" is
\* tested against 56 bits, which no address reaches.)
HeapLinks == {"heap prev", "heap next"}
KeysAlloc == {"keys alloc"}
KeysFree  == {"keys free", "keys free last"}
ItemDescn == {"item descn"}
FieldHeld == HeapLinks \cup KeysAlloc \cup KeysFree \cup ItemDescn

\* Fields whose setter tests nothing.
VectSlots == {"vect slot", "vect extra"}

\* Counts: a signed int that is refused below zero ...
ListItems == {"list items"}
AttrItems == {"attr items"}
DescItems == {"desc items"}
Counts == ListItems \cup AttrItems \cup DescItems

\* ... or cast to UINT and tested as that.
AllocItems == {"keys alloc items"}
FreeItems  == {"keys free items"}
Tallies == AllocItems \cup FreeItems

\* Sums of block sizes, in VBLsize.
AllocSize == {"keys alloc size"}
FreeSize  == {"keys free size"}
Sizes == AllocSize \cup FreeSize

Field == Tested \cup FieldHeld \cup VectSlots \cup Counts \cup Tallies \cup Sizes

FieldKind == { RootLinks, ListLinks \cup ListItems,
          AttrLinks \cup AttrParent \cup AttrItems,
          DescLinks \cup DescParent \cup DescItems,
          ItemLinks \cup ItemExtra \cup ItemDescn \cup ItemOwners,
          NameChain, BlockSize, VectSlots, HeapLinks,
          KeysAlloc \cup KeysFree \cup AllocItems \cup FreeItems
            \cup AllocSize \cup FreeSize }

----------------------------------------------------------------------------
VARIABLES
    mode,       \* the addressing mode in the block's header
    image,      \* the fields of the block, as stored
    meant       \* what the accepted calls add up to

fieldVars == <<mode, image, meant>>

\* One past the largest value the field has room for.
FieldRoom == CASE mode = 16 -> Small [] mode = 32 -> Full [] mode = 64 -> Word

\* One past the largest address, and size, of a heap of this mode.
HeapMax == IF mode = 16 THEN Small ELSE Full

\* One past the largest value the setter of f accepts.
Limit(f) == IF f \in Tested /\ mode = 64 THEN Wide ELSE FieldRoom

\* A value as an int, and the argument `-(int)n' once it is a VBLsize.
AsInt(x) == IF x % Full >= Half THEN (x % Full) - Full ELSE x % Full
Negated(n) == IF n < Half THEN Word - n ELSE Full - n

\* What the getter of f returns: a count comes back as an int, the size in a
\* block's header as a UINT.
Get(f) == CASE f \in Counts \cup Tallies -> AsInt(image[f])
            [] f \in BlockSize -> image[f] % Full
            [] OTHER -> image[f]

Store(f, v, m) == /\ image' = [image EXCEPT ![f] = v]
                  /\ meant' = [meant EXCEPT ![f] = m]
                  /\ UNCHANGED mode

FieldThrow == UNCHANGED fieldVars

----------------------------------------------------------------------------
\* A new block: its fields are zero.
FieldInit == /\ mode \in Mode
        /\ \E k \in FieldKind : image = [f \in k |-> 0]
        /\ meant = image

\* A list of parts is made with the address of its owner, which is stored
\* with a test in the debugging build only.
NewPart(f) ==
    /\ f \in (AttrParent \cup DescParent) \cap DOMAIN image
    /\ \E a \in {v \in FieldValue : v < HeapMax} :
         /\ image' = [g \in DOMAIN image |-> IF g = f THEN a % FieldRoom ELSE 0]
         /\ meant' = [g \in DOMAIN image |-> IF g = f THEN a ELSE 0]
         /\ UNCHANGED mode

\* The setter of a link: any address may be passed.
SetLinkUnchecked(f) ==
    /\ f \in (Tested \ BlockSize) \cap DOMAIN image
    /\ \E v \in FieldValue : Store(f, v % FieldRoom, v)

SetLink(f) ==
    /\ f \in (Tested \ BlockSize) \cap DOMAIN image
    /\ \E v \in FieldValue : IF v < Limit(f) THEN Store(f, v, v) ELSE FieldThrow

SetHeld(f) ==
    /\ f \in FieldHeld \cap DOMAIN image
    /\ \E v \in FieldValue : IF v < Limit(f) THEN Store(f, v, v) ELSE FieldThrow

\* The size of a block is the heap's own, and so below the heap's ceiling.
SetBlockSize(f) ==
    /\ f \in BlockSize \cap DOMAIN image
    /\ \E v \in {w \in FieldValue : w < Full} :
         IF v < Limit(f) THEN Store(f, v, v) ELSE FieldThrow

\* A slot is given the address of an element of the same heap.
FieldSetSlot(f) ==
    /\ f \in VectSlots \cap DOMAIN image
    /\ \E v \in {w \in FieldValue : w < HeapMax} : Store(f, v % FieldRoom, v)

\* Adding to a count, or taking from it: also from a list that is empty.
AddItemsSigned(f) ==
    /\ f \in Counts \cap DOMAIN image
    /\ \E d \in {-1, 1} :
         LET n == AsInt(Get(f) + d)
         IN  /\ meant[f] + d <= MaxItems
             /\ IF mode = 16 => n < Small
                THEN Store(f, n % FieldRoom, meant[f] + d) ELSE FieldThrow

FieldAddItems(f) ==
    /\ f \in Counts \cap DOMAIN image
    /\ \E d \in {-1, 1} :
         LET n == AsInt(Get(f) + d)
         IN  /\ meant[f] + d <= MaxItems
             /\ IF n >= 0 /\ (mode = 16 => n < Small)
                THEN Store(f, n, meant[f] + d) ELSE FieldThrow

Tally(f) ==
    /\ f \in Tallies \cap DOMAIN image
    /\ \E d \in {-1, 1} :
         LET n == AsInt(Get(f) + d) % Full
         IN  /\ meant[f] + d \in (-MaxItems)..MaxItems
             /\ IF mode = 16 => n < Small THEN Store(f, n, meant[f] + d) ELSE FieldThrow

\* Charging a block to a heap, and taking it off: the heap never takes off
\* what it did not charge, and its blocks lie below its ceiling.
Charged(f, delta, total) ==
    LET sum == (image[f] + delta) % Word
    IN  IF sum < FieldRoom THEN Store(f, sum, total) ELSE FieldThrow

Charge(f) ==
    /\ f \in Sizes \cap DOMAIN image
    /\ \E n \in FieldSize : /\ meant[f] + n < HeapMax
                       /\ Charged(f, n, meant[f] + n)

Discharge(f) ==
    /\ f \in Sizes \cap DOMAIN image
    /\ \E n \in FieldSize : /\ n <= meant[f]
                       /\ Charged(f, Negated(n), meant[f] - n)

FieldNext == \E f \in Field :
          \/ NewPart(f) \/ SetLink(f) \/ SetHeld(f) \/ SetBlockSize(f)
          \/ FieldSetSlot(f) \/ FieldAddItems(f) \/ Tally(f) \/ Charge(f) \/ Discharge(f)

FieldSpec == FieldInit /\ [][FieldNext]_fieldVars

----------------------------------------------------------------------------
\* Every number is in the range of the field that holds it.
FieldTypeOK == /\ mode \in Mode
          /\ DOMAIN image \in FieldKind
          /\ image \in [DOMAIN image -> 0..(FieldRoom - 1)]
          /\ meant \in [DOMAIN image -> Int]

\* What a getter returns is what the accepted calls of its setter add up to,
\* in every mode, and whatever the calls to the other fields of the block
\* did: no field keeps a part of a number, turns a sign or spills into a
\* neighbour.
FieldReadsBack == FieldTypeOK /\ \A f \in DOMAIN image : Get(f) = meant[f]

============================================================================
