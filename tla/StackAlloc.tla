----------------------------- MODULE StackAlloc -----------------------------
(***************************************************************************)
(* StackAlloc<T, MemoryPool<T>> (StackAlloc.hpp): a linked stack whose     *)
(* nodes live in the slots of its own pool, allocator_.  push() is two     *)
(* steps, because the copy of the element between them may throw; clear()  *)
(* is one step per turn of its loop, and ends by handing over to           *)
(* ~MemoryPool() when it was ~StackAlloc() that called it.                 *)
(***************************************************************************)
EXTENDS Chains, Sequences

CONSTANTS
  BlockSize, SlotSize, PtrSize, Blocks, NULL, JUNK,
  Data,        \* the values of the type T of the stack
  EMPTY, NONE,
  MaxThrows    \* how often copying an element may throw

VARIABLES
  currentBlock_, currentSlot_, lastSlot_, freeSlots_,
  heap, header, mem, carved, live, alive, curr,
  head_,
  pc,          \* "client", "construct" in push(), "clear" or "~clear" in
               \* clear(), "gone" once ~StackAlloc() is past it
  temp,        \* the local variable of push()
  element,     \* the parameter of push()
  returned,    \* what the last pop() or top() returned
  throws       \* the times a copy has thrown

poolVars == <<currentBlock_, currentSlot_, lastSlot_, freeSlots_,
              heap, header, mem, carved, live, alive, curr>>
vars == <<poolVars, head_, pc, temp, element, returned, throws>>

(* StackNode_ *)
Node == [data : Data, prev : (Blocks \X (0..BlockSize)) \cup {NULL}]

Pool == INSTANCE MemoryPool WITH Element <- Node

ASSUME StackAssumption ==
  MaxThrows \in Nat /\ Pool!PoolAssumption /\ Pool!NamesAssumption

NodeAt(p) == mem[p].element

Init == /\ Pool!Init
        /\ head_ = NULL /\ pc = "client" /\ temp = NULL /\ element = NONE
        /\ returned = NONE /\ throws = 0

(* push(), up to the allocation *)
Push(d) == /\ pc = "client"
           /\ Pool!Allocate(temp')
           /\ pc' = "construct" /\ element' = d
           /\ UNCHANGED <<head_, returned, throws>>

PushBadAlloc == /\ pc = "client"
                /\ Pool!AllocateThrows
                /\ UNCHANGED <<head_, pc, temp, element, returned, throws>>

UnlinkedNode == [data |-> element, prev |-> NULL]   \* mutant of NewNode
NewNode == [data |-> element, prev |-> head_]

(* construct(temp, Node{element, head_}); head_ = temp *)
PushConstruct ==
  /\ pc = "construct"
  /\ Pool!Construct(temp, NewNode)
  /\ head_' = temp
  /\ pc' = "client" /\ temp' = NULL /\ element' = NONE
  /\ UNCHANGED <<returned, throws>>

(* The copy into the node throws: push() leaves and nothing gives the      *)
(* slot back.                                                              *)
PushThrows ==
  /\ pc = "construct" /\ throws < MaxThrows
  /\ throws' = throws + 1
  /\ pc' = "client" /\ temp' = NULL /\ element' = NONE
  /\ UNCHANGED <<poolVars, head_, returned>>

NotReleased(p) == UNCHANGED poolVars                \* mutant of Releases

DestroyedLast(p) ==                                 \* mutant of Releases
  /\ mem' = [mem EXCEPT ![p] = Pool!Raw]
  /\ freeSlots_' = p /\ live' = live \ {p}
  /\ UNCHANGED <<currentBlock_, currentSlot_, lastSlot_, heap, header,
                 carved, alive, curr>>

(* destroy() and deallocate() *)
Releases(p) == Pool!Deallocate(p)

Below == NodeAt(head_).prev

DropHead == /\ head_ # NULL
            /\ head_' = Below
            /\ Releases(head_)

Pop == /\ pc = "client"
       /\ IF head_ = NULL
          THEN returned' = EMPTY /\ UNCHANGED <<poolVars, head_>>
          ELSE returned' = NodeAt(head_).data /\ DropHead
       /\ UNCHANGED <<pc, temp, element, throws>>

(* top(), of a stack that is not empty *)
Top == /\ pc = "client" /\ head_ # NULL
       /\ returned' = NodeAt(head_).data
       /\ UNCHANGED <<poolVars, head_, pc, temp, element, throws>>

(* A call of clear(), or of ~StackAlloc(), which starts with clear() *)
Clear == /\ pc = "client"
         /\ pc' \in {"clear", "~clear"}
         /\ UNCHANGED <<poolVars, head_, temp, element, returned, throws>>

ClearLoop == /\ pc \in {"clear", "~clear"}
             /\ DropHead
             /\ UNCHANGED <<pc, temp, element, returned, throws>>

ClearReturns == /\ pc = "clear" /\ head_ = NULL
                /\ pc' = "client"
                /\ UNCHANGED <<poolVars, head_, temp, element, returned, throws>>

Unused == live = {}                                 \* mutant of Cleared
Cleared == head_ = NULL

DestroyPool == /\ pc = "~clear" /\ Cleared
               /\ Pool!Destroy
               /\ pc' = "gone"
               /\ UNCHANGED <<head_, temp, element, returned, throws>>

DeletePool == /\ pc = "gone"
              /\ Pool!DeleteBlock
              /\ UNCHANGED <<head_, pc, temp, element, returned, throws>>

Running == PushConstruct \/ PushThrows \/ ClearLoop \/ ClearReturns
             \/ DestroyPool \/ DeletePool

Next == (\E d \in Data : Push(d)) \/ PushBadAlloc \/ Pop \/ Top \/ Clear \/ Running

Spec == Init /\ [][Next]_vars

(* A member function that was entered runs to its end. *)
FairSpec == Spec /\ WF_vars(Running)
-----------------------------------------------------------------------------
Built == {p \in live : NodeAt(p) \in Node}

(* From head_ each node links the next, and the last of them nothing. *)
Descends(s, n) ==
  /\ head_ = IF n = 0 THEN NULL ELSE s[1]
  /\ \A i \in 1..n : NodeAt(s[i]).prev = IF i = n THEN NULL ELSE s[i + 1]

(* The nodes of the stack, top first. *)
Nodes == CHOOSE s \in UNION {[1..n -> Built] : n \in 0..Cardinality(Built)} :
           Descends(s, Len(s))

NodeSet == {Nodes[i] : i \in 1..Len(Nodes)}

Contents == [i \in 1..Len(Nodes) |-> NodeAt(Nodes[i]).data]

TypeOK == /\ Pool!TypeOK
          /\ head_ \in live \cup {NULL}
          /\ pc \in {"client", "construct", "clear", "~clear", "gone"}
          /\ temp \in live \cup {NULL} /\ element \in Data \cup {NONE}
          /\ returned \in Data \cup {EMPTY, NONE}
          /\ throws \in 0..MaxThrows

(* push(), pop(), top() and clear() are those of a stack, although the     *)
(* pool writes its links into the storage of popped nodes; from the moment *)
(* clear() is entered the stack counts as empty.                           *)
Lifo == INSTANCE LifoStack WITH
          stack <- IF pc \in {"clear", "~clear"} THEN << >> ELSE Contents
RefinesLifo == Lifo!Spec

(* The stack is a proper client of its pool: it constructs only in slots   *)
(* it was given, never gives one back twice, and destroys the pool last.   *)
RefinesPool == Pool!Spec

(* Every slot out of the pool is a node of the stack, the node push() is   *)
(* about to fill, or was lost by one of the copies that threw.             *)
OnlyThrowsLeak ==
  /\ TypeOK
  /\ alive => Cardinality(live \ (NodeSet \cup {temp})) = throws

(* ~StackAlloc() returns, and then every block is given back. *)
DestructorFreesAll == pc = "~clear" ~> heap = {}
=============================================================================
