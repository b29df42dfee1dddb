----------------------------- MODULE MemoryPool -----------------------------
(***************************************************************************)
(* MemoryPool<T, BlockSize> (MemoryPool.hpp) under its most general        *)
(* client: one that constructs elements in, and gives back, only slots it  *)
(* holds, and holds no slot any more once it has destroyed the pool.       *)
(*                                                                         *)
(* A block is a name for what operator new(BlockSize) answers and a slot   *)
(* is <<block, byte offset>>.  currentSlot_ and lastSlot_ are offsets into *)
(* currentBlock_, 0 for nullptr.  A slot is a union: writing one member    *)
(* leaves JUNK in the other.                                               *)
(***************************************************************************)
EXTENDS Chains

CONSTANTS
  BlockSize,  \* bytes of a block
  SlotSize,   \* sizeof(Slot_)
  PtrSize,    \* sizeof(Slot_*)
  Blocks,     \* what operator new can answer; it throws when all are in use
  Element,    \* the values of type T
  NULL, JUNK

(* static_assert(BlockSize >= 2 * sizeof(slot_type_)); Slot_ is a union    *)
(* with a pointer in it, so it is not smaller than one.                    *)
ASSUME PoolAssumption ==
  /\ BlockSize \in Nat /\ SlotSize \in Nat /\ PtrSize \in Nat \ {0}
  /\ SlotSize >= PtrSize
  /\ BlockSize >= 2 * SlotSize

ASSUME NamesAssumption ==
  /\ NULL \notin Blocks /\ NULL \notin Blocks \X Nat
  /\ JUNK \notin Blocks \X Nat /\ JUNK # NULL

VARIABLES
  currentBlock_, currentSlot_, lastSlot_, freeSlots_,
  heap,     \* the blocks obtained from operator new and not deleted
  header,   \* header[b]: the next pointer at the start of block b
  mem,      \* mem[s]: the union at slot s
  carved,   \* history: the slots ever cut from a block of heap
  live,     \* history: the slots the client holds
  alive,    \* FALSE once ~MemoryPool() has begun
  curr      \* the local variable of ~MemoryPool()

vars == <<currentBlock_, currentSlot_, lastSlot_, freeSlots_,
          heap, header, mem, carved, live, alive, curr>>

Slot == Blocks \X (0..BlockSize)

Cell == [next : Slot \cup {NULL, JUNK}, element : Element \cup {JUNK}]

(* the union before, and after a write of the one member or of the other *)
Raw == [next |-> JUNK, element |-> JUNK]
NotLinked(p) == Raw                               \* mutant of Linked
Linked(p) == [next |-> p, element |-> JUNK]
Holding(e) == [next |-> JUNK, element |-> e]

Free == carved \ live
Links == [s \in carved |-> mem[s].next]

Init ==
  /\ currentBlock_ = NULL /\ freeSlots_ = NULL /\ curr = NULL
  /\ currentSlot_ = 0 /\ lastSlot_ = 0
  /\ heap = {} /\ carved = {} /\ live = {} /\ alive = TRUE
  /\ header = [b \in heap |-> NULL]
  /\ mem = [s \in carved |-> Raw]
-----------------------------------------------------------------------------
(* allocate(), in its three cases; p is the pointer it returns. *)

SameFree == freeSlots_                            \* mutant of NextFree
NextFree == mem[freeSlots_].next

TakeFree(p) ==
  /\ freeSlots_ # NULL
  /\ p = freeSlots_
  /\ freeSlots_' = NextFree
  /\ live' = live \cup {p}
  /\ UNCHANGED <<currentBlock_, currentSlot_, lastSlot_, heap, header, mem, carved>>

SlotCount == (BlockSize - PtrSize) \div SlotSize

PastPointer(off) == off + PtrSize                 \* mutant of Past
Past(off) == off + SlotSize

(* return currentSlot_++, in block b at offset off, below the offset last *)
Cut(p, b, off, last) ==
  /\ p = <<b, off>>
  /\ currentBlock_' = b
  /\ currentSlot_' = Past(off)
  /\ lastSlot_' = last
  /\ mem' = [s \in carved \cup {p} |-> IF s = p THEN Raw ELSE mem[s]]
  /\ carved' = carved \cup {p}
  /\ live' = live \cup {p}
  /\ UNCHANGED freeSlots_

AlmostExhausted == currentSlot_ + SlotSize >= lastSlot_  \* mutant of Exhausted
Exhausted == currentSlot_ >= lastSlot_

Carve(p) ==
  /\ freeSlots_ = NULL
  /\ ~Exhausted
  /\ Cut(p, currentBlock_, currentSlot_, lastSlot_)
  /\ UNCHANGED <<heap, header>>

NotLinking(b) ==                                  \* mutant of Linking
  [c \in heap \cup {b} |-> IF c = b THEN NULL ELSE header[c]]
Linking(b) ==
  [c \in heap \cup {b} |-> IF c = b THEN currentBlock_ ELSE header[c]]

NewBlock(p) ==
  /\ freeSlots_ = NULL
  /\ Exhausted
  /\ \E b \in Blocks \ heap :
       /\ heap' = heap \cup {b}
       /\ header' = Linking(b)
       /\ Cut(p, b, PtrSize, PtrSize + SlotCount * SlotSize)

Allocate(p) == /\ alive
               /\ TakeFree(p) \/ Carve(p) \/ NewBlock(p)
               /\ UNCHANGED <<alive, curr>>

(* operator new throws std::bad_alloc: allocate() has changed nothing *)
AllocateThrows == /\ alive
                  /\ freeSlots_ = NULL
                  /\ Exhausted
                  /\ Blocks \subseteq heap
                  /\ UNCHANGED vars

(* construct(): new (p) U(...) *)
Construct(p, e) ==
  /\ alive /\ p \in live
  /\ mem' = [mem EXCEPT ![p] = Holding(e)]
  /\ UNCHANGED <<currentBlock_, currentSlot_, lastSlot_, freeSlots_,
                 heap, header, carved, live, alive, curr>>

(* deallocate(), after destroy() has ended the element's life *)
Deallocate(p) ==
  /\ alive /\ p \in live
  /\ mem' = [mem EXCEPT ![p] = Linked(freeSlots_)]
  /\ freeSlots_' = p
  /\ live' = live \ {p}
  /\ UNCHANGED <<currentBlock_, currentSlot_, lastSlot_, heap, header,
                 carved, alive, curr>>

(* ~MemoryPool(): enter the loop, then one turn of it per step *)
Destroy ==
  /\ alive
  /\ alive' = FALSE
  /\ curr' = currentBlock_
  /\ UNCHANGED <<currentBlock_, currentSlot_, lastSlot_, freeSlots_,
                 heap, header, mem, carved, live>>

DeleteBlock ==
  /\ ~alive /\ curr # NULL
  /\ curr' = header[curr]
  /\ heap' = heap \ {curr}
  /\ header' = [b \in heap' |-> header[b]]
  /\ carved' = {s \in carved : s[1] # curr}
  /\ live' = live \cap carved'
  /\ mem' = [s \in carved' |-> mem[s]]
  /\ UNCHANGED <<currentBlock_, currentSlot_, lastSlot_, freeSlots_, alive>>

Next == \/ \E p \in Slot : Allocate(p)
        \/ AllocateThrows
        \/ \E p \in live : Deallocate(p) \/ \E e \in Element : Construct(p, e)
        \/ Destroy \/ DeleteBlock

Spec == Init /\ [][Next]_vars
-----------------------------------------------------------------------------
TypeOK ==
  /\ currentBlock_ \in Blocks \cup {NULL} /\ curr \in Blocks \cup {NULL}
  /\ currentSlot_ \in Nat /\ lastSlot_ \in Nat
  /\ freeSlots_ \in Slot \cup {NULL}
  /\ heap \subseteq Blocks
  /\ header \in [heap -> Blocks \cup {NULL}]
  /\ carved \subseteq Slot /\ live \subseteq carved
  /\ mem \in [carved -> Cell]
  /\ alive \in BOOLEAN

(* Every slot ever returned lies inside a block of the heap, behind the    *)
(* block's header.                                                         *)
InBounds ==
  \A s \in carved : /\ s[1] \in heap
                    /\ PtrSize <= s[2] /\ s[2] + SlotSize <= BlockSize

(* No byte belongs to two slots. *)
Disjoint ==
  \A s, t \in carved : s[1] = t[1] /\ s # t =>
                         s[2] + SlotSize <= t[2] \/ t[2] + SlotSize <= s[2]

(* allocate() never hands out storage it does not own, or owns twice.      *)
SlotsApart == InBounds /\ Disjoint

(* The free list, threaded through the storage of the elements, holds each *)
(* slot that was given back exactly once, and no slot the client holds:    *)
(* no slot is lost and none is handed out twice.                           *)
FreeListExact ==
  alive => Chain(Free, freeSlots_, Links, NULL)

(* The headers chain exactly the blocks of the heap, also between the      *)
(* deletions of the destructor: each block is deleted once, none is read   *)
(* after its deletion, and none is left when the destructor returns.       *)
BlockListExact == Chain(heap, IF alive THEN currentBlock_ ELSE curr, header, NULL)

(* operator new is asked for a block only when no slot is free and every   *)
(* block has been cut into all the slots it has room for.                  *)
NewBlockOnlyWhenFull ==
  [][heap' \ heap # {} =>
       /\ Free = {}
       /\ \A b \in heap : Cardinality({s \in carved : s[1] = b}) = SlotCount]_vars
=============================================================================
