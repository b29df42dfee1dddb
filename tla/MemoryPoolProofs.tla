-------------------------- MODULE MemoryPoolProofs --------------------------
(***************************************************************************)
(* Safety of MemoryPool for every block, slot and pointer size that the    *)
(* static_assert admits and every supply of blocks.                        *)
(***************************************************************************)
EXTENDS MemoryPool, FiniteSetTheorems, TLAPS

(* What pushing and popping does to a Chain. *)

(* An empty list is the null pointer. *)
LEMMA ChainEmpty ==
  ASSUME NEW next, NEW null
  PROVE  Chain({}, null, next, null)
<1>1. IsFiniteSet({}) /\ Cardinality({}) = 0
  BY FS_EmptySet
<1>2. [i \in 1..0 |-> i] \in [1..0 -> {}]
  OBVIOUS
<1>3. Lists([i \in 1..0 |-> i], 0, {}, null, next, null)
  BY <1>2 DEF Lists
<1> QED
  BY <1>1, <1>2, <1>3 DEF Chain

(* The head of a list is null exactly when the list has no cell. *)
LEMMA ChainHead ==
  ASSUME NEW S, NEW head, NEW next, NEW null, null \notin S,
         Chain(S, head, next, null)
  PROVE  /\ (head = null) <=> (S = {})
         /\ head # null => head \in S
<1> DEFINE n == Cardinality(S)
<1>1. PICK f : Lists(f, n, S, head, next, null)
  BY DEF Chain
<1>2. n \in Nat /\ (n = 0 <=> S = {})
  BY FS_CardinalityType, FS_EmptySet DEF Chain
<1> QED
  BY <1>1, <1>2 DEF Lists

(* A list is not disturbed by writes to the links of other cells. *)
LEMMA ChainFrame ==
  ASSUME NEW S, NEW head, NEW next, NEW null, NEW next2,
         Chain(S, head, next, null),
         \A s \in S : next2[s] = next[s]
  PROVE  Chain(S, head, next2, null)
<1> DEFINE n == Cardinality(S)
<1>1. PICK f \in [1..n -> S] : Lists(f, n, S, head, next, null)
  BY DEF Chain
<1>2. Lists(f, n, S, head, next2, null)
  BY <1>1 DEF Lists
<1> QED
  BY <1>2 DEF Chain

(* A new cell whose link is the old head becomes the head. *)
LEMMA ChainPush ==
  ASSUME NEW S, NEW head, NEW next, NEW null, NEW next2, NEW p,
         Chain(S, head, next, null), p \notin S,
         \A s \in S : next2[s] = next[s],
         next2[p] = head
  PROVE  Chain(S \cup {p}, p, next2, null)
<1> DEFINE n == Cardinality(S)
           T == S \cup {p}
<1>1. IsFiniteSet(S) /\ n \in Nat
  BY FS_CardinalityType DEF Chain
<1>2. IsFiniteSet(T) /\ Cardinality(T) = n + 1
  BY <1>1, FS_AddElement
<1>3. PICK f : Lists(f, n, S, head, next, null)
  BY DEF Chain
<1> DEFINE g == [i \in 1..(n + 1) |-> IF i = n + 1 THEN p ELSE f[i]]
<1>4. Lists(g, n + 1, T, p, next2, null)
  <2>1. g \in [1..(n + 1) -> T]
    BY <1>1, <1>3 DEF Lists
  <2>2. \A s \in T : \E i \in 1..(n + 1) : g[i] = s
    BY <1>1, <1>3 DEF Lists
  <2>3. \A i, j \in 1..(n + 1) : g[i] = g[j] => i = j
    BY <1>1, <1>3 DEF Lists
  <2>4. \A i \in 1..(n + 1) : next2[g[i]] = IF i = 1 THEN null ELSE g[i - 1]
    BY <1>1, <1>3 DEF Lists
  <2> QED
    BY <1>1, <2>1, <2>2, <2>3, <2>4 DEF Lists
<1>5. g \in [1..(n + 1) -> T]
  BY <1>4 DEF Lists
<1> HIDE DEF g
<1> QED
  BY <1>2, <1>4, <1>5 DEF Chain

(* Without its head a list starts where the head's link points. *)
LEMMA ChainPop ==
  ASSUME NEW S, NEW head, NEW next, NEW null,
         Chain(S, head, next, null), S # {}
  PROVE  head \in S /\ Chain(S \ {head}, next[head], next, null)
<1> DEFINE n == Cardinality(S)
           T == S \ {head}
<1>1. IsFiniteSet(S) /\ n \in Nat /\ n # 0
  BY FS_CardinalityType, FS_EmptySet DEF Chain
<1>2. PICK f : Lists(f, n, S, head, next, null)
  BY DEF Chain
<1>3. head \in S /\ head = f[n]
  BY <1>1, <1>2 DEF Lists
<1>4. IsFiniteSet(T) /\ Cardinality(T) = n - 1
  BY <1>1, <1>3, FS_RemoveElement
<1> DEFINE g == [i \in 1..(n - 1) |-> f[i]]
<1>5. Lists(g, n - 1, T, next[head], next, null)
  <2>1. g \in [1..(n - 1) -> T]
    BY <1>1, <1>2, <1>3 DEF Lists
  <2>2. \A s \in T : \E i \in 1..(n - 1) : g[i] = s
    BY <1>1, <1>2, <1>3 DEF Lists
  <2>3. \A i, j \in 1..(n - 1) : g[i] = g[j] => i = j
    BY <1>1, <1>2 DEF Lists
  <2>4. \A i \in 1..(n - 1) : next[g[i]] = IF i = 1 THEN null ELSE g[i - 1]
    BY <1>1, <1>2 DEF Lists
  <2>5. next[head] = IF n - 1 = 0 THEN null ELSE g[n - 1]
    BY <1>1, <1>2, <1>3 DEF Lists
  <2> QED
    BY <2>1, <2>2, <2>3, <2>4, <2>5 DEF Lists
<1>6. g \in [1..(n - 1) -> T]
  BY <1>5 DEF Lists
<1> HIDE DEF g
<1> QED
  BY <1>3, <1>4, <1>5, <1>6 DEF Chain
-----------------------------------------------------------------------------
(* What is left of the current block: a whole number of slots, none of     *)
(* which has been cut yet.  This makes the geometry inductive.             *)
Uncut ==
  /\ \E n \in Nat : lastSlot_ = currentSlot_ + n * SlotSize
  /\ currentBlock_ = NULL => currentSlot_ = 0 /\ lastSlot_ = 0
  /\ currentBlock_ # NULL => PtrSize <= currentSlot_ /\ lastSlot_ <= BlockSize
  /\ alive /\ currentBlock_ # NULL => currentBlock_ \in heap
  /\ \A s \in carved : s[1] = currentBlock_ => s[2] + SlotSize <= currentSlot_

Inv == /\ TypeOK /\ InBounds /\ Disjoint /\ Uncut
       /\ FreeListExact /\ BlockListExact

(* The room behind the header holds at least one slot, and SlotCount slots *)
(* fit into it.                                                            *)
LEMMA SlotCountFits ==
  /\ SlotCount \in Nat
  /\ SlotCount >= 1
  /\ PtrSize + SlotCount * SlotSize <= BlockSize
<1> DEFINE room == BlockSize - PtrSize
<1>1. room \in Nat /\ SlotSize \in Nat \ {0} /\ room >= SlotSize
  BY PoolAssumption
<1>2. /\ SlotCount \in Int
      /\ SlotCount * SlotSize <= room
      /\ room < (SlotCount + 1) * SlotSize
  BY <1>1 DEF SlotCount
<1>3. SlotCount >= 1
  <2>1. SUFFICES ASSUME SlotCount <= 0 PROVE FALSE
    BY <1>2
  <2>2. (SlotCount + 1) * SlotSize <= SlotSize
    BY <2>1, <1>1, <1>2
  <2> QED
    BY <2>2, <1>1, <1>2
<1> QED
  BY <1>1, <1>2, <1>3, PoolAssumption

(* An empty pool has empty lists. *)
LEMMA InitInv == Init => Inv
<1> SUFFICES ASSUME Init PROVE Inv
  OBVIOUS
<1> USE DEF Init
<1>1. TypeOK
  BY PoolAssumption DEF TypeOK, Slot
<1>2. InBounds /\ Disjoint
  BY DEF InBounds, Disjoint
<1>3. Uncut
  <2>1. lastSlot_ = currentSlot_ + 0 * SlotSize
    BY PoolAssumption
  <2> QED
    BY <2>1 DEF Uncut
<1>4. Free = {}
  BY DEF Free
<1>5. FreeListExact /\ BlockListExact
  BY <1>4, ChainEmpty DEF FreeListExact, BlockListExact
<1> QED
  BY <1>1, <1>2, <1>3, <1>5 DEF Inv

(* The free list is empty exactly when no carved slot is free. *)
LEMMA FreeHead ==
  ASSUME TypeOK, FreeListExact, alive
  PROVE  /\ freeSlots_ = NULL <=> Free = {}
         /\ freeSlots_ # NULL => freeSlots_ \in Free
<1>1. NULL \notin Free
  BY NamesAssumption DEF TypeOK, Free, Slot
<1> QED
  BY <1>1, ChainHead DEF FreeListExact

(* allocate() from the free list *)
LEMMA TakeFreeInv ==
  ASSUME Inv, NEW p \in Slot, alive, TakeFree(p), UNCHANGED <<alive, curr>>
  PROVE  Inv'
<1> USE DEF TakeFree, NextFree
<1>0. TypeOK /\ InBounds /\ Disjoint /\ Uncut /\ FreeListExact /\ BlockListExact
  BY DEF Inv
<1>1. p \in Free /\ p \in carved
  BY <1>0, FreeHead DEF Free
<1>2. Chain(Free \ {p}, Links[p], Links, NULL)
  BY <1>0, <1>1, ChainPop DEF FreeListExact
<1>3. Free' = Free \ {p} /\ Links' = Links /\ freeSlots_' = Links[p]
  BY <1>1 DEF Free, Links
<1>4. FreeListExact'
  BY <1>2, <1>3 DEF FreeListExact
<1>5. freeSlots_' \in Slot \cup {NULL}
  <2>1. NULL \notin Free'
    BY <1>0, <1>3, NamesAssumption DEF TypeOK, Free, Slot
  <2>2. freeSlots_' # NULL => freeSlots_' \in Free'
    BY <2>1, <1>2, <1>3, ChainHead
  <2> QED
    BY <2>2, <1>0 DEF TypeOK, Free
<1>6. TypeOK'
  BY <1>0, <1>1, <1>5 DEF TypeOK
<1>7. InBounds' /\ Disjoint' /\ Uncut' /\ BlockListExact'
  BY <1>0 DEF InBounds, Disjoint, Uncut, BlockListExact
<1> QED
  BY <1>4, <1>6, <1>7 DEF Inv

(* What a slot cut from a block does to the invariant, for either case of  *)
(* allocate() that cuts one: the slot lies in a block of the new heap,     *)
(* behind every slot cut from that block before, and n slots still fit.    *)
LEMMA CutInv ==
  ASSUME Inv, alive, freeSlots_ = NULL, UNCHANGED <<alive, curr>>,
         NEW p, NEW b \in Blocks, NEW off \in Nat, NEW last \in Nat, NEW n \in Nat,
         Cut(p, b, off, last),
         heap \subseteq heap', b \in heap', heap' \subseteq Blocks,
         header' \in [heap' -> Blocks \cup {NULL}],
         PtrSize <= off, last <= BlockSize, last = off + SlotSize + n * SlotSize,
         \A s \in carved : s[1] = b => s[2] + SlotSize <= off,
         Chain(heap', b, header', NULL)
  PROVE  Inv'
<1> USE DEF Cut, Past
<1>0. TypeOK /\ InBounds /\ Disjoint /\ Uncut /\ FreeListExact /\ BlockListExact
  BY DEF Inv
<1>1. /\ SlotSize \in Nat \ {0} /\ BlockSize \in Nat /\ PtrSize \in Nat
      /\ off + SlotSize <= last
  <2>1. n * SlotSize \in Nat
    BY PoolAssumption
  <2> QED
    BY <2>1, PoolAssumption
<1>2. p \in Slot /\ p[1] = b /\ p[2] = off
  BY <1>1 DEF Slot
<1>3. p \notin carved
  BY <1>1, <1>2
<1>4. TypeOK'
  <2>1. mem' \in [carved' -> Cell]
    BY <1>0 DEF TypeOK, Cell, Raw
  <2> QED
    BY <2>1, <1>0, <1>1, <1>2 DEF TypeOK
<1>5. InBounds'
  BY <1>0, <1>1, <1>2 DEF InBounds
<1>6. Disjoint'
  BY <1>0, <1>1, <1>2 DEF Disjoint, TypeOK, Slot
<1>7. Uncut'
  <2>1. \A s \in carved' : s[1] = b => s[2] + SlotSize <= off + SlotSize
    BY <1>0, <1>1, <1>2 DEF TypeOK, Slot
  <2> QED
    BY <2>1, <1>1, NamesAssumption DEF Uncut
<1>8. FreeListExact'
  <2>1. Free' = Free
    BY <1>0, <1>3 DEF Free, TypeOK
  <2>2. \A s \in Free : Links'[s] = Links[s]
    BY <1>3 DEF Free, Links
  <2> QED
    BY <2>1, <2>2, <1>0, ChainFrame DEF FreeListExact
<1>9. BlockListExact'
  BY DEF BlockListExact
<1> QED
  BY <1>4, <1>5, <1>6, <1>7, <1>8, <1>9 DEF Inv

(* allocate() from the current block *)
LEMMA CarveInv ==
  ASSUME Inv, NEW p \in Slot, alive, Carve(p), UNCHANGED <<alive, curr>>
  PROVE  Inv'
<1> USE DEF Carve, Exhausted
<1>0. TypeOK /\ Uncut /\ BlockListExact
  BY DEF Inv
<1>1. currentBlock_ # NULL /\ currentBlock_ \in Blocks
  BY <1>0 DEF TypeOK, Uncut
<1>2. PICK m \in Nat : lastSlot_ = currentSlot_ + m * SlotSize
  BY <1>0 DEF Uncut
<1>3. m # 0
  BY <1>2, <1>0, PoolAssumption DEF TypeOK
<1> DEFINE n == m - 1
<1>4. n \in Nat /\ lastSlot_ = currentSlot_ + SlotSize + n * SlotSize
  BY <1>2, <1>3, <1>0, PoolAssumption DEF TypeOK
<1>5. Chain(heap', currentBlock_, header', NULL)
  BY <1>0 DEF BlockListExact
<1>6. /\ currentSlot_ \in Nat /\ lastSlot_ \in Nat
      /\ heap' \subseteq Blocks /\ currentBlock_ \in heap'
      /\ header' \in [heap' -> Blocks \cup {NULL}]
      /\ PtrSize <= currentSlot_ /\ lastSlot_ <= BlockSize
      /\ \A s \in carved : s[1] = currentBlock_ => s[2] + SlotSize <= currentSlot_
  BY <1>0, <1>1 DEF TypeOK, Uncut
<1> HIDE DEF n
<1> QED
  BY <1>1, <1>4, <1>5, <1>6, CutInv

(* allocate() from a new block *)
LEMMA NewBlockInv ==
  ASSUME Inv, NEW p \in Slot, alive, NewBlock(p), UNCHANGED <<alive, curr>>
  PROVE  Inv'
<1>0. TypeOK /\ InBounds /\ BlockListExact /\ freeSlots_ = NULL
  BY DEF Inv, NewBlock, Linking, Exhausted
<1>1. PICK b \in Blocks \ heap :
        /\ heap' = heap \cup {b}
        /\ header' = [c \in heap' |-> IF c = b THEN currentBlock_ ELSE header[c]]
        /\ Cut(p, b, PtrSize, PtrSize + SlotCount * SlotSize)
  BY DEF NewBlock, Linking, Exhausted
<1>2. Chain(heap', b, header', NULL)
  BY <1>0, <1>1, ChainPush DEF BlockListExact
<1> DEFINE n == SlotCount - 1
           last == PtrSize + SlotCount * SlotSize
<1>3. n \in Nat /\ last \in Nat /\ last = PtrSize + SlotSize + n * SlotSize
  <2>1. SlotCount * SlotSize \in Nat
    BY SlotCountFits, PoolAssumption
  <2> QED
    BY <2>1, SlotCountFits, PoolAssumption
<1>4. /\ heap \subseteq heap' /\ b \in heap' /\ heap' \subseteq Blocks
      /\ header' \in [heap' -> Blocks \cup {NULL}]
      /\ \A s \in carved : s[1] = b => s[2] + SlotSize <= PtrSize
  BY <1>0, <1>1 DEF TypeOK, InBounds
<1>5. PtrSize \in Nat /\ PtrSize <= PtrSize /\ last <= BlockSize
  BY SlotCountFits, PoolAssumption
<1>6. Cut(p, b, PtrSize, last)
  BY <1>1
<1> HIDE DEF n, last
<1> QED
  BY <1>0, <1>1, <1>2, <1>3, <1>4, <1>5, <1>6, CutInv

(* The client writes an element into a slot it holds. *)
LEMMA ConstructInv ==
  ASSUME Inv, NEW p \in live, NEW e \in Element, Construct(p, e)
  PROVE  Inv'
<1> USE DEF Construct
<1>0. TypeOK /\ InBounds /\ Disjoint /\ Uncut /\ FreeListExact /\ BlockListExact
  BY DEF Inv
<1>1. TypeOK'
  <2>1. mem' \in [carved' -> Cell]
    BY <1>0 DEF TypeOK, Cell, Holding
  <2> QED
    BY <2>1, <1>0 DEF TypeOK
<1>2. FreeListExact'
  <2>1. Free' = Free /\ \A s \in Free : Links'[s] = Links[s]
    BY <1>0 DEF Free, Links, TypeOK
  <2> QED
    BY <2>1, <1>0, ChainFrame DEF FreeListExact
<1>3. InBounds' /\ Disjoint' /\ Uncut' /\ BlockListExact'
  BY <1>0 DEF InBounds, Disjoint, Uncut, BlockListExact
<1> QED
  BY <1>1, <1>2, <1>3 DEF Inv

(* The client gives a slot back, which becomes the head of the free list. *)
LEMMA DeallocateInv ==
  ASSUME Inv, NEW p \in live, Deallocate(p)
  PROVE  Inv'
<1> USE DEF Deallocate
<1>0. TypeOK /\ InBounds /\ Disjoint /\ Uncut /\ FreeListExact /\ BlockListExact
  BY DEF Inv
<1>1. p \in carved /\ p \in Slot /\ p \notin Free
  BY <1>0 DEF TypeOK, Free
<1>2. TypeOK'
  <2>1. mem' \in [carved' -> Cell]
    BY <1>0 DEF TypeOK, Cell, Linked
  <2> QED
    BY <2>1, <1>0, <1>1 DEF TypeOK
<1>3. FreeListExact'
  <2>1. Free' = Free \cup {p} /\ freeSlots_' = p
    BY <1>1 DEF Free
  <2>2. \A s \in Free : Links'[s] = Links[s]
    BY <1>0, <1>1 DEF Links, TypeOK, Free
  <2>3. Links'[p] = freeSlots_
    BY <1>0, <1>1 DEF Links, TypeOK, Linked
  <2>4. Chain(Free, freeSlots_, Links, NULL)
    BY <1>0 DEF FreeListExact
  <2>5. Chain(Free \cup {p}, p, Links', NULL)
    BY <1>1, <2>2, <2>3, <2>4, ChainPush
  <2> QED
    BY <2>1, <2>5 DEF FreeListExact
<1>4. InBounds' /\ Disjoint' /\ Uncut' /\ BlockListExact'
  BY <1>0 DEF InBounds, Disjoint, Uncut, BlockListExact
<1> QED
  BY <1>2, <1>3, <1>4 DEF Inv

(* The destructor is entered. *)
LEMMA DestroyInv ==
  ASSUME Inv, Destroy
  PROVE  Inv'
BY DEF Inv, Destroy, TypeOK, InBounds, Disjoint, Uncut, FreeListExact, BlockListExact

(* The destructor reads the link of a block and deletes it. *)
LEMMA DeleteBlockInv ==
  ASSUME Inv, DeleteBlock
  PROVE  Inv'
<1> USE DEF DeleteBlock
<1>0. TypeOK /\ InBounds /\ Disjoint /\ Uncut /\ FreeListExact /\ BlockListExact
  BY DEF Inv
<1>1. Chain(heap, curr, header, NULL) /\ NULL \notin heap
  BY <1>0, NamesAssumption DEF BlockListExact, TypeOK
<1>2. curr \in heap /\ Chain(heap \ {curr}, header[curr], header, NULL)
  <2>1. curr # NULL
    OBVIOUS
  <2>2. heap # {}
    BY <1>1, <2>1, ChainHead
  <2> HIDE DEF DeleteBlock
  <2> QED
    BY <1>1, <2>2, ChainPop
<1>3. BlockListExact'
  <2>1. \A b \in heap' : header'[b] = header[b]
    OBVIOUS
  <2> QED
    BY <2>1, <1>2, ChainFrame DEF BlockListExact
<1>4. TypeOK'
  BY <1>0, <1>2 DEF TypeOK
<1>5. InBounds' /\ Disjoint' /\ Uncut' /\ FreeListExact'
  BY <1>0 DEF InBounds, Disjoint, Uncut, FreeListExact
<1> QED
  BY <1>3, <1>4, <1>5 DEF Inv

(* Every step of the pool and its client *)
LEMMA NextInv == Inv /\ [Next]_vars => Inv'
<1> SUFFICES ASSUME Inv, [Next]_vars PROVE Inv'
  OBVIOUS
<1>1. ASSUME NEW p \in Slot, Allocate(p) PROVE Inv'
  BY <1>1, TakeFreeInv, CarveInv, NewBlockInv DEF Allocate
<1>2. CASE UNCHANGED vars
  BY <1>2 DEF vars, Inv, TypeOK, InBounds, Disjoint, Uncut, FreeListExact,
              BlockListExact, Free, Links
<1>3. CASE AllocateThrows
  BY <1>2, <1>3 DEF AllocateThrows
<1>4. ASSUME NEW p \in live, Deallocate(p) PROVE Inv'
  BY <1>4, DeallocateInv
<1>5. ASSUME NEW p \in live, NEW e \in Element, Construct(p, e) PROVE Inv'
  BY <1>5, ConstructInv
<1>6. CASE Destroy
  BY <1>6, DestroyInv
<1>7. CASE DeleteBlock
  BY <1>7, DeleteBlockInv
<1> QED
  BY <1>1, <1>2, <1>3, <1>4, <1>5, <1>6, <1>7 DEF Next

(* allocate() returns a slot the client does not hold, and leaves what is  *)
(* in the ones it holds.                                                   *)
LEMMA FreshSlot ==
  Inv => \A p : Allocate(p) =>
           /\ p \in Slot /\ p \notin live /\ live' = live \cup {p}
           /\ \A s \in live : mem'[s] = mem[s]
<1> SUFFICES ASSUME Inv, NEW p, Allocate(p)
             PROVE  /\ p \in Slot /\ p \notin live /\ live' = live \cup {p}
                    /\ \A s \in live : mem'[s] = mem[s]
  OBVIOUS
<1>0. TypeOK /\ InBounds /\ Uncut /\ FreeListExact /\ alive
  BY DEF Inv, Allocate
<1>1. CASE TakeFree(p)
  <2>1. p \in Free
    BY <1>0, <1>1, FreeHead DEF TakeFree
  <2> QED
    BY <1>0, <1>1, <2>1 DEF TakeFree, Free, TypeOK
<1>2. ASSUME NEW b \in Blocks, NEW off \in 0..BlockSize, NEW last, p = <<b, off>>,
             \A s \in carved : s[1] = b => s[2] # off, Cut(p, b, off, last)
      PROVE  /\ p \in Slot /\ p \notin live /\ live' = live \cup {p}
             /\ \A s \in live : mem'[s] = mem[s]
  <2>1. p \in Slot /\ p \notin carved
    BY <1>2 DEF Slot
  <2> QED
    BY <1>0, <1>2, <2>1 DEF Cut, TypeOK
<1>3. CASE Carve(p)
  <2>1. /\ currentBlock_ \in Blocks
        /\ currentSlot_ \in Nat /\ lastSlot_ \in Nat
        /\ currentSlot_ < lastSlot_ /\ lastSlot_ <= BlockSize
    BY <1>0, <1>3 DEF Carve, Exhausted, TypeOK, Uncut
  <2>2. currentSlot_ \in 0..BlockSize
    BY <2>1, PoolAssumption
  <2>3. \A s \in carved : s[1] = currentBlock_ => s[2] # currentSlot_
    BY <1>0, <2>1, PoolAssumption DEF Uncut, TypeOK, Slot
  <2> QED
    BY <1>2, <1>3, <2>1, <2>2, <2>3 DEF Carve, Cut
<1>4. CASE NewBlock(p)
  <2>1. PICK b \in Blocks \ heap : Cut(p, b, PtrSize, PtrSize + SlotCount * SlotSize)
    BY <1>4 DEF NewBlock
  <2>2. PtrSize \in 0..BlockSize
    BY PoolAssumption
  <2>3. \A s \in carved : s[1] # b
    BY <1>0, <2>1 DEF InBounds
  <2> QED
    BY <1>2, <2>1, <2>2, <2>3 DEF Cut
<1> QED
  BY <1>1, <1>3, <1>4 DEF Allocate

(* Every variable keeps its type; in particular no pointer the pool keeps  *)
(* is ever JUNK read from the storage of an element.                       *)
THEOREM TypeCorrect == Spec => []TypeOK
<1>1. Inv => TypeOK
  BY DEF Inv
<1> QED
  BY <1>1, InitInv, NextInv, PTL DEF Spec

(* The slots allocate() returns lie inside blocks the pool owns, behind    *)
(* their headers, and no two of them share a byte, whatever the sizes.     *)
THEOREM StorageSafe == Spec => []SlotsApart
<1>1. Inv => SlotsApart
  BY DEF Inv, SlotsApart
<1> QED
  BY <1>1, InitInv, NextInv, PTL DEF Spec

(* No slot given back is lost or can be handed out twice. *)
THEOREM FreeListSafe == Spec => []FreeListExact
<1>1. Inv => FreeListExact
  BY DEF Inv
<1> QED
  BY <1>1, InitInv, NextInv, PTL DEF Spec

(* ~MemoryPool() deletes every block it owns, each exactly once. *)
THEOREM BlockListSafe == Spec => []BlockListExact
<1>1. Inv => BlockListExact
  BY DEF Inv
<1> QED
  BY <1>1, InitInv, NextInv, PTL DEF Spec
-----------------------------------------------------------------------------
(* When a new block is asked for: how many slots each block has been cut   *)
(* into.                                                                   *)

CutOf(b) == {s \in carved : s[1] = b}

(* Every block but the current one is used up, and what is left of the     *)
(* current one is what has not been cut of it.                             *)
Filled ==
  alive => \A b \in heap :
    /\ IsFiniteSet(CutOf(b))
    /\ IF b = currentBlock_
       THEN \E n \in Nat : /\ lastSlot_ = currentSlot_ + n * SlotSize
                           /\ Cardinality(CutOf(b)) + n = SlotCount
       ELSE Cardinality(CutOf(b)) = SlotCount

(* There is no block at first. *)
LEMMA FilledInit == Init => Filled
BY DEF Init, Filled

(* One slot is cut from block b. *)
LEMMA CutCounts ==
  ASSUME NEW p \in Slot, NEW b, p[1] = b, p \notin carved,
         carved' = carved \cup {p}, IsFiniteSet(CutOf(b))
  PROVE  /\ IsFiniteSet(CutOf(b)')
         /\ Cardinality(CutOf(b)') = Cardinality(CutOf(b)) + 1
         /\ Cardinality(CutOf(b)) \in Nat
         /\ \A c : c # b => CutOf(c)' = CutOf(c)
<1>1. p \notin CutOf(b) /\ CutOf(b)' = CutOf(b) \cup {p}
  BY DEF CutOf
<1>2. \A c : c # b => CutOf(c)' = CutOf(c)
  BY DEF CutOf
<1> QED
  BY <1>1, <1>2, FS_AddElement, FS_CardinalityType

(* A slot cut from the current block is held by the client. *)
LEMMA CarveFills ==
  ASSUME Inv, Filled, alive, UNCHANGED alive, NEW p \in Slot, Carve(p)
  PROVE  Filled'
<1> DEFINE b == currentBlock_
<1>1. /\ p = <<b, currentSlot_>> /\ carved' = carved \cup {p}
      /\ UNCHANGED <<currentBlock_, lastSlot_, heap>>
      /\ currentSlot_' = currentSlot_ + SlotSize /\ currentSlot_ < lastSlot_
      /\ currentSlot_ \in Nat /\ lastSlot_ \in Nat /\ SlotSize \in Nat \ {0}
  BY PoolAssumption DEF Carve, Cut, Past, Exhausted, Inv, TypeOK
<1>2. p[1] = b /\ p \notin carved
  BY <1>1 DEF Inv, Uncut
<1>3. CASE b \in heap
  <2>1. PICK n \in Nat : /\ lastSlot_ = currentSlot_ + n * SlotSize
                         /\ Cardinality(CutOf(b)) + n = SlotCount
    BY <1>3 DEF Filled
  <2>2. n # 0
    BY <1>1, <2>1
  <2>3. n - 1 \in Nat /\ lastSlot_' = currentSlot_' + (n - 1) * SlotSize
    BY <1>1, <2>1, <2>2
  <2>4. /\ IsFiniteSet(CutOf(b)')
        /\ Cardinality(CutOf(b)') = Cardinality(CutOf(b)) + 1
        /\ Cardinality(CutOf(b)) \in Nat
        /\ \A c : c # b => CutOf(c)' = CutOf(c)
    BY <1>1, <1>2, <1>3, CutCounts DEF Filled
  <2>5. Cardinality(CutOf(b)') + (n - 1) = SlotCount
    BY <2>1, <2>3, <2>4
  <2> HIDE DEF b
  <2>6. \A c \in heap \ {b} : CutOf(c)' = CutOf(c)
    BY <2>4
  <2>7. ASSUME NEW c \in heap \ {b}
        PROVE  IsFiniteSet(CutOf(c)') /\ Cardinality(CutOf(c)') = SlotCount
    BY <2>6 DEF Filled, b
  <2> QED
    BY <1>1, <2>3, <2>4, <2>5, <2>7 DEF Filled, b
<1>4. CASE b \notin heap
  BY <1>4, NamesAssumption, <1>1 DEF Inv, Uncut, Filled
<1> QED
  BY <1>3, <1>4

(* The slots of the block that was current are all cut, *)
LEMMA AllCut ==
  ASSUME Inv, Filled, alive, Exhausted
  PROVE  \A b \in heap : /\ IsFiniteSet(CutOf(b))
                         /\ Cardinality(CutOf(b)) = SlotCount
<1> SUFFICES ASSUME NEW b \in heap, b = currentBlock_
             PROVE  Cardinality(CutOf(b)) = SlotCount
  BY DEF Filled
<1>1. PICK n \in Nat : /\ lastSlot_ = currentSlot_ + n * SlotSize
                       /\ Cardinality(CutOf(b)) + n = SlotCount
  BY DEF Filled
<1>2. n = 0
  BY <1>1, PoolAssumption DEF Exhausted, Inv, TypeOK
<1>3. Cardinality(CutOf(b)) \in Nat
  BY FS_CardinalityType DEF Filled
<1> QED
  BY <1>1, <1>2, <1>3

(* and of the new block there is the first. *)
LEMMA NewBlockFills ==
  ASSUME Inv, Filled, alive, UNCHANGED alive, NEW p \in Slot, NewBlock(p)
  PROVE  Filled'
<1>1. PICK b \in Blocks \ heap :
        /\ heap' = heap \cup {b}
        /\ Cut(p, b, PtrSize, PtrSize + SlotCount * SlotSize)
  BY DEF NewBlock
<1>2. /\ p = <<b, PtrSize>> /\ currentBlock_' = b /\ carved' = carved \cup {p}
      /\ currentSlot_' = PtrSize + SlotSize
      /\ lastSlot_' = PtrSize + SlotCount * SlotSize
  BY <1>1 DEF Cut, Past
<1>3. CutOf(b) = {} /\ p \notin carved /\ p[1] = b
  BY <1>1, <1>2 DEF Inv, InBounds, CutOf
<1>4. IsFiniteSet(CutOf(b)) /\ Cardinality(CutOf(b)) = 0
  BY <1>3, FS_EmptySet
<1>5. /\ IsFiniteSet(CutOf(b)') /\ Cardinality(CutOf(b)') = 1
      /\ \A c : c # b => CutOf(c)' = CutOf(c)
  <2>1. carved' = carved \cup {p}
    BY <1>2
  <2>2. /\ IsFiniteSet(CutOf(b)')
        /\ Cardinality(CutOf(b)') = Cardinality(CutOf(b)) + 1
        /\ \A c : c # b => CutOf(c)' = CutOf(c)
    BY <2>1, <1>3, <1>4, CutCounts
  <2> QED
    BY <2>2, <1>4
<1>6. /\ SlotCount - 1 \in Nat /\ 1 + (SlotCount - 1) = SlotCount
      /\ lastSlot_' = currentSlot_' + (SlotCount - 1) * SlotSize
  <2>1. SlotCount * SlotSize \in Nat
    BY SlotCountFits, PoolAssumption
  <2>2. PtrSize + SlotCount * SlotSize = PtrSize + SlotSize + (SlotCount - 1) * SlotSize
    BY <2>1, SlotCountFits, PoolAssumption
  <2> QED
    BY <1>2, <2>2, SlotCountFits
<1>7. ASSUME NEW c \in heap
      PROVE  c # b /\ IsFiniteSet(CutOf(c)') /\ Cardinality(CutOf(c)') = SlotCount
  <2>1. c # b /\ CutOf(c)' = CutOf(c)
    BY <1>1, <1>5
  <2> QED
    BY <2>1, AllCut DEF NewBlock
<1> QED
  BY <1>1, <1>2, <1>5, <1>6, <1>7 DEF Filled

(* No step leaves a block behind that has room. *)
LEMMA FilledStep == Inv /\ Filled /\ [Next]_vars => Filled'
<1> SUFFICES ASSUME Inv, Filled, [Next]_vars PROVE Filled'
  OBVIOUS
<1>1. ASSUME UNCHANGED <<carved, heap, alive, currentBlock_, currentSlot_, lastSlot_>>
      PROVE  Filled'
  BY <1>1 DEF Filled, CutOf
<1>2. ASSUME NEW p \in Slot, Allocate(p) PROVE Filled'
  <2>1. alive /\ UNCHANGED alive
    BY <1>2 DEF Allocate
  <2>2. CASE TakeFree(p)
    BY <2>1, <2>2, <1>1 DEF TakeFree
  <2> QED
    BY <1>2, <2>1, <2>2, CarveFills, NewBlockFills DEF Allocate
<1>3. CASE Destroy \/ DeleteBlock
  BY <1>3 DEF Destroy, DeleteBlock, Filled
<1>4. CASE \E p \in live : Deallocate(p) \/ \E e \in Element : Construct(p, e)
  BY <1>1, <1>4 DEF Deallocate, Construct
<1>5. CASE UNCHANGED vars
  BY <1>1, <1>5 DEF vars
<1> QED
  BY <1>2, <1>3, <1>4, <1>5 DEF Next, AllocateThrows

(* Storage is asked of operator new only when there is none left: no slot  *)
(* is free, and every block is cut into as many slots as fit.              *)
THEOREM BlocksFilledFirst == Spec => NewBlockOnlyWhenFull
<1>1. Inv /\ Filled /\ [Next]_vars =>
        [heap' \ heap # {} =>
           /\ Free = {}
           /\ \A b \in heap : Cardinality({s \in carved : s[1] = b}) = SlotCount]_vars
  <2> SUFFICES ASSUME Inv, Filled, Next, heap' \ heap # {}
               PROVE  /\ Free = {}
                      /\ \A b \in heap : Cardinality(CutOf(b)) = SlotCount
    BY DEF vars, CutOf
  <2>1. PICK p \in Slot : alive /\ NewBlock(p)
    BY DEF Next, Allocate, TakeFree, Carve, AllocateThrows, Deallocate, Construct,
           Destroy, DeleteBlock, vars
  <2>2. Free = {}
    BY <2>1, FreeHead DEF Inv, NewBlock
  <2> QED
    BY <2>1, <2>2, AllCut DEF NewBlock
<1> QED
  BY <1>1, InitInv, NextInv, FilledInit, FilledStep, PTL DEF Spec, NewBlockOnlyWhenFull
=============================================================================
