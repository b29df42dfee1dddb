-------------------------- MODULE ContainerProofs --------------------------
(***************************************************************************)
(* The two containers.  StackAlloc over MemoryPool is a stack and a proper *)
(* client of the pool, for any sizes, blocks and elements.  RadixTree is   *)
(* an ordered dictionary, linked and compressed, whose matches find what   *)
(* they should, for any set of keys.                                       *)
(***************************************************************************)
EXTENDS StackAlloc, RadixTree, SequenceTheorems, FiniteSetTheorems, WellFoundedInduction, TLAPS

Safe == INSTANCE MemoryPoolProofs WITH Element <- Node

(* The nodes from the top, f[1], to the last, each in a slot of its own. *)
Stacked(f, n) ==
  /\ f \in [1..n -> Built]
  /\ \A i, j \in 1..n : f[i] = f[j] => i = j
  /\ Descends(f, n)

Places(f, n) == {f[i] : i \in 1..n}

(* The slots that are out of the pool and not of these nodes, nor the one  *)
(* that push() is about to fill                                            *)
Lost(f, n) == live \ (Places(f, n) \cup {temp})

Accounted(f, n) ==
  /\ Stacked(f, n)
  /\ temp \notin Places(f, n)
  /\ Cardinality(Lost(f, n)) = throws

Locals ==
  /\ head_ \in live \cup {NULL}
  /\ pc \in {"client", "construct", "clear", "~clear", "gone"}
  /\ pc = "construct" => temp \in live /\ element \in Data
  /\ pc # "construct" => temp = NULL
  /\ element \in Data \cup {NONE} /\ returned \in Data \cup {EMPTY, NONE}
  /\ throws \in 0..MaxThrows
  /\ IF pc = "gone" THEN ~alive /\ head_ = NULL ELSE alive

Inv == /\ Safe!Inv /\ Locals /\ IsFiniteSet(live)
       /\ alive => \E n \in Nat : \E f : Accounted(f, n)
-----------------------------------------------------------------------------
(* The pool *)

(* The assumptions on the stack's constants are those on its pool's. *)
LEMMA Sizes ==
  /\ NULL \notin Blocks /\ NULL \notin Blocks \X Nat
  /\ JUNK \notin Blocks \X Nat /\ JUNK # NULL
  /\ BlockSize \in Nat /\ SlotSize \in Nat /\ PtrSize \in Nat \ {0}
  /\ SlotSize >= PtrSize /\ BlockSize >= 2 * SlotSize
BY StackAssumption DEF Pool!PoolAssumption, Pool!NamesAssumption

(* The pool of the proofs is that of the stack. *)
LEMMA SamePool ==
  /\ Pool!Init <=> Safe!Init
  /\ Pool!vars = Safe!vars /\ Pool!vars = poolVars
  /\ \A p : Pool!Allocate(p) <=> Safe!Allocate(p)
  /\ Pool!AllocateThrows <=> Safe!AllocateThrows
  /\ \A p : Pool!Deallocate(p) <=> Safe!Deallocate(p)
  /\ \A p, e : Pool!Construct(p, e) <=> Safe!Construct(p, e)
  /\ Pool!Destroy <=> Safe!Destroy
  /\ Pool!DeleteBlock <=> Safe!DeleteBlock
  /\ Pool!Slot = Safe!Slot
  /\ Pool!TypeOK <=> Safe!TypeOK
<1>1. Pool!Init <=> Safe!Init
  BY DEF Pool!Init, Safe!Init, Pool!Raw, Safe!Raw
<1>2. Pool!vars = Safe!vars /\ Pool!vars = poolVars
  BY DEF Pool!vars, Safe!vars, poolVars
<1>3. \A p : Pool!Allocate(p) <=> Safe!Allocate(p)
  <2>1. \A p : Pool!TakeFree(p) <=> Safe!TakeFree(p)
    BY DEF Pool!TakeFree, Safe!TakeFree, Pool!NextFree, Safe!NextFree
  <2>2. \A p, b, off, last : Pool!Cut(p, b, off, last) <=> Safe!Cut(p, b, off, last)
    BY DEF Pool!Cut, Safe!Cut, Pool!Past, Safe!Past, Pool!Raw, Safe!Raw
  <2>3. \A p : Pool!Carve(p) <=> Safe!Carve(p)
    BY <2>2 DEF Pool!Carve, Safe!Carve, Pool!Exhausted, Safe!Exhausted
  <2>4. \A b : Pool!Linking(b) = Safe!Linking(b)
    BY DEF Pool!Linking, Safe!Linking
  <2>5. \A p : Pool!NewBlock(p) <=> Safe!NewBlock(p)
    BY <2>2, <2>4 DEF Pool!NewBlock, Safe!NewBlock, Pool!Exhausted, Safe!Exhausted,
                      Pool!SlotCount, Safe!SlotCount
  <2> QED
    BY <2>1, <2>3, <2>5 DEF Pool!Allocate, Safe!Allocate
<1>4. Pool!AllocateThrows <=> Safe!AllocateThrows
  BY <1>2 DEF Pool!AllocateThrows, Safe!AllocateThrows, Pool!Exhausted, Safe!Exhausted,
              Pool!vars, Safe!vars
<1>5. \A p : Pool!Deallocate(p) <=> Safe!Deallocate(p)
  BY DEF Pool!Deallocate, Safe!Deallocate, Pool!Linked, Safe!Linked
<1>6. \A p, e : Pool!Construct(p, e) <=> Safe!Construct(p, e)
  BY DEF Pool!Construct, Safe!Construct, Pool!Holding, Safe!Holding
<1>7. (Pool!Destroy <=> Safe!Destroy) /\ (Pool!DeleteBlock <=> Safe!DeleteBlock)
  BY DEF Pool!Destroy, Safe!Destroy, Pool!DeleteBlock, Safe!DeleteBlock
<1>8. Pool!Slot = Safe!Slot
  BY DEF Pool!Slot, Safe!Slot
<1>9. Pool!TypeOK <=> Safe!TypeOK
  BY <1>8 DEF Pool!TypeOK, Safe!TypeOK, Pool!Cell, Safe!Cell
<1> QED
  BY <1>1, <1>2, <1>3, <1>4, <1>5, <1>6, <1>7, <1>8, <1>9

(* What its theorems say of it *)
LEMMA PoolSafe ==
  /\ Pool!Init => Safe!Inv
  /\ Safe!Inv /\ [Pool!Next]_(Pool!vars) => Safe!Inv'
  /\ Safe!Inv => Pool!TypeOK
<1>1. Pool!Next <=> Safe!Next
  BY SamePool DEF Pool!Next, Safe!Next
<1>2. Pool!Init => Safe!Inv
  BY Sizes, SamePool, Safe!InitInv
<1>3. Safe!Inv /\ [Pool!Next]_(Pool!vars) => Safe!Inv'
  <2>1. [Pool!Next]_(Pool!vars) => [Safe!Next]_(Safe!vars)
    BY <1>1, SamePool DEF Pool!vars, Safe!vars
  <2> QED
    BY <2>1, Sizes, Safe!NextInv
<1>4. Safe!Inv => Pool!TypeOK
  BY SamePool DEF Safe!Inv
<1> QED
  BY <1>2, <1>3, <1>4

(* A step that leaves the pool alone keeps its invariant. *)
LEMMA PoolStays ==
  ASSUME Safe!Inv, UNCHANGED poolVars
  PROVE  Safe!Inv'
<1>1. UNCHANGED Pool!vars
  BY DEF Pool!vars, poolVars
<1> QED
  BY <1>1, PoolSafe

(* The slots a client holds are well-formed, and none of them is NULL. *)
LEMMA Held ==
  ASSUME Safe!Inv
  PROVE  /\ live \subseteq carved /\ live \subseteq Pool!Slot
         /\ NULL \notin Pool!Slot /\ NULL \notin live
         /\ mem \in [carved -> Pool!Cell]
<1>1. Pool!TypeOK
  BY PoolSafe
<1>2. NULL \notin Pool!Slot
  BY Sizes DEF Pool!Slot
<1> QED
  BY <1>1, <1>2 DEF Pool!TypeOK

(* allocate() answers a slot that was not held, and writes to none that    *)
(* is.                                                                     *)
LEMMA Allocated ==
  ASSUME Safe!Inv, NEW p, Pool!Allocate(p)
  PROVE  /\ p \in Pool!Slot /\ p \notin live /\ live' = live \cup {p}
         /\ \A s \in live : mem'[s] = mem[s]
         /\ alive /\ alive'
BY Sizes, SamePool, Safe!FreshSlot DEF Pool!Allocate
-----------------------------------------------------------------------------
(* The nodes *)

(* Every set of numbers has a least one. *)
LEMMA Least ==
  ASSUME NEW S, S \subseteq Nat, S # {}
  PROVE  \E n \in S : \A m \in S : n <= m
<1> DEFINE R == OpToRel(<, Nat)
<1>1. IsWellFoundedOn(R, Nat)
  BY NatLessThanWellFounded
<1> HIDE DEF R
<1>2. PICK n \in S : \A m \in S : ~(<<m, n>> \in R)
  BY <1>1, WFMin
<1>3. \A m \in S : ~(m < n)
  BY <1>2 DEF R, OpToRel
<1> QED
  BY <1>2, <1>3

(* Whoever follows prev from head_ meets the same nodes. *)
LEMMA Follows ==
  ASSUME NULL \notin live, NEW m \in Nat, NEW n \in Nat,
         NEW s \in [1..m -> Built], NEW t \in [1..n -> Built],
         Descends(s, m), Descends(t, n)
  PROVE  \A i \in 1..m : i <= n /\ s[i] = t[i]
<1> DEFINE bad == {i \in 1..m : ~(i <= n /\ s[i] = t[i])}
<1> SUFFICES ASSUME bad # {} PROVE FALSE
  OBVIOUS
<1>1. PICK i \in bad : \A j \in bad : i <= j
  <2>1. bad \subseteq Nat
    OBVIOUS
  <2> HIDE DEF bad
  <2> QED
    BY <2>1, Least
<1>2. s[i] # NULL /\ i \in 1..m /\ ~(i <= n /\ s[i] = t[i])
  BY <1>1 DEF Built
<1>3. CASE i = 1
  BY <1>2, <1>3 DEF Descends
<1>4. CASE i # 1
  <2>1. i - 1 \in 1..m /\ i - 1 # m /\ (i - 1) + 1 = i /\ i - 1 \notin bad
    BY <1>1, <1>2, <1>4
  <2>2. i - 1 <= n /\ s[i - 1] = t[i - 1] /\ i - 1 \in 1..n
    BY <2>1
  <2>3. NodeAt(s[i - 1]).prev = s[i]
    BY <2>1 DEF Descends
  <2>4. NodeAt(t[i - 1]).prev = IF i - 1 = n THEN NULL ELSE t[i]
    BY <2>1, <2>2 DEF Descends
  <2> QED
    BY <1>2, <2>2, <2>3, <2>4
<1> QED
  BY <1>3, <1>4

(* There is only one way to follow the nodes from head_ to the last. *)
LEMMA OneList ==
  ASSUME NULL \notin live, NEW m \in Nat, NEW n \in Nat,
         NEW s \in [1..m -> Built], NEW t \in [1..n -> Built],
         Descends(s, m), Descends(t, n)
  PROVE  m = n /\ s = t
<1>1. /\ \A i \in 1..m : i <= n /\ s[i] = t[i]
      /\ \A i \in 1..n : i <= m /\ t[i] = s[i]
  BY Follows
<1>2. m = n
  <2>1. CASE m = 0 \/ n = 0
    BY <1>1, <2>1
  <2>2. CASE m # 0 /\ n # 0
    <3>1. m \in 1..m /\ n \in 1..n
      BY <2>2
    <3> QED
      BY <3>1, <1>1
  <2> QED
    BY <2>1, <2>2
<1> QED
  BY <1>1, <1>2

(* There are no more nodes than slots: the nodes are those of Nodes. *)
LEMMA NodesAre ==
  ASSUME NULL \notin live, IsFiniteSet(live), NEW n \in Nat, NEW f, Stacked(f, n)
  PROVE  Nodes = f /\ Len(Nodes) = n
<1> DEFINE All == UNION {[1..k -> Built] : k \in 0..Cardinality(Built)}
<1>1. IsFiniteSet(Built) /\ Cardinality(Built) \in Nat
  <2>1. Built \subseteq live
    BY DEF Built
  <2> QED
    BY <2>1, FS_Subset, FS_CardinalityType
<1>2. ASSUME NEW k \in Nat, NEW s \in [1..k -> Built]
      PROVE  Len(s) = k
  <2>1. s \in Seq(Built)
    BY SeqDef
  <2>2. Len(s) \in Nat /\ DOMAIN s = 1..Len(s)
    BY <2>1, LenProperties
  <2>3. 1..k = 1..Len(s)
    BY <2>2
  <2> QED
    BY <2>2, <2>3
<1>3. f \in [1..n -> Built] /\ Descends(f, n) /\ Len(f) = n
  BY <1>2 DEF Stacked
<1>4. n <= Cardinality(Built)
  <2>1. IsFiniteSet(1..n) /\ Cardinality(1..n) = n
    BY FS_Interval
  <2> SUFFICES ASSUME Cardinality(Built) < n PROVE FALSE
    BY <1>1
  <2>2. \E i, j \in 1..n : i # j /\ f[i] = f[j]
    BY <1>1, <1>3, <2>1, FS_PigeonHole
  <2> QED
    BY <2>2 DEF Stacked
<1>5. f \in All /\ Descends(f, Len(f))
  BY <1>1, <1>3, <1>4
<1>6. ASSUME NEW s \in All, Descends(s, Len(s)) PROVE s = f
  <2>1. PICK k \in 0..Cardinality(Built) : s \in [1..k -> Built]
    OBVIOUS
  <2>2. k \in Nat /\ Len(s) = k
    BY <1>1, <1>2, <2>1
  <2> QED
    BY <1>3, <1>6, <2>1, <2>2, OneList
<1> HIDE DEF All
<1>7. Nodes = CHOOSE s \in All : Descends(s, Len(s))
  BY DEF Nodes, All
<1>8. Nodes = f
  BY <1>5, <1>6, <1>7
<1> QED
  BY <1>3, <1>8

(* Hence Nodes and Contents are those of any such list. *)
LEMMA ContentsAre ==
  NULL \notin live /\ IsFiniteSet(live) =>
    \A n \in Nat : \A f : Stacked(f, n) =>
      /\ Contents = [i \in 1..n |-> NodeAt(f[i]).data]
      /\ NodeSet = Places(f, n)
BY NodesAre DEF Contents, NodeSet, Places
-----------------------------------------------------------------------------
(* The steps *)

(* An empty stack has no nodes. *)
LEMMA InitInv == Init => Inv
<1> SUFFICES ASSUME Init PROVE Inv
  OBVIOUS
<1>1. Pool!Init /\ live = {} /\ alive = TRUE /\ head_ = NULL
  BY DEF Init, Pool!Init
<1>2. Safe!Inv
  BY <1>1, PoolSafe
<1>3. Locals
  BY <1>1, StackAssumption DEF Init, Locals
<1>4. IsFiniteSet({}) /\ Cardinality({}) = 0
  BY FS_EmptySet
<1> DEFINE f == [i \in 1..0 |-> NULL]
<1>5. Stacked(f, 0) /\ Places(f, 0) = {}
  BY <1>1 DEF Stacked, Places, Descends
<1>6. Lost(f, 0) = {}
  BY <1>1 DEF Lost
<1>7. Accounted(f, 0)
  BY <1>4, <1>5, <1>6 DEF Accounted, Init
<1> QED
  BY <1>1, <1>2, <1>3, <1>4, <1>7 DEF Inv

(* A step that leaves the nodes alone leaves them where they are. *)
LEMMA NodesStay ==
  ASSUME NEW n \in Nat, NEW f, Stacked(f, n), UNCHANGED head_,
         live \subseteq live' \/ \A i \in 1..n : f[i] \in live',
         \A i \in 1..n : mem'[f[i]] = mem[f[i]]
  PROVE  Stacked(f, n)' /\ Places(f, n)' = Places(f, n)
<1>1. \A i \in 1..n : f[i] \in Built /\ NodeAt(f[i])' = NodeAt(f[i])
  BY DEF Stacked, NodeAt
<1>2. \A i \in 1..n : f[i] \in Built'
  BY <1>1 DEF Built
<1>3. f \in [1..n -> Built']
  BY <1>2 DEF Stacked
<1>4. Descends(f, n)'
  BY <1>1 DEF Stacked, Descends
<1> QED
  BY <1>3, <1>4 DEF Stacked, Places

(* push(), until the copy: one more slot, which belongs to no node *)
LEMMA PushStep ==
  ASSUME Inv, NEW d \in Data, Push(d)
  PROVE  Inv' /\ Pool!Next /\ UNCHANGED <<head_, returned>>
         /\ \A n \in Nat : \A f : Stacked(f, n) =>
              Stacked(f, n)' /\ \A i \in 1..n : mem'[f[i]] = mem[f[i]]
<1>1. /\ pc = "client" /\ pc' = "construct" /\ element' = d
      /\ UNCHANGED <<head_, returned, throws>> /\ Pool!Allocate(temp')
  BY DEF Push
<1>2. /\ temp' \in Pool!Slot /\ temp' \notin live /\ live' = live \cup {temp'}
      /\ \A s \in live : mem'[s] = mem[s]
      /\ alive /\ alive'
  BY <1>1, Allocated DEF Inv
<1>3. Pool!Next
  BY <1>1, <1>2 DEF Pool!Next
<1>4. Safe!Inv'
  BY <1>3, PoolSafe DEF Inv
<1>5. Locals'
  BY <1>1, <1>2 DEF Inv, Locals
<1>6. IsFiniteSet(live)'
  BY <1>2, FS_AddElement DEF Inv
<1>7. ASSUME NEW n \in Nat, NEW f, Stacked(f, n)
      PROVE  /\ Stacked(f, n)' /\ Places(f, n)' = Places(f, n)
             /\ \A i \in 1..n : f[i] \in live /\ mem'[f[i]] = mem[f[i]]
  <2>1. \A i \in 1..n : f[i] \in live
    BY <1>7 DEF Stacked, Built
  <2> QED
    BY <1>1, <1>2, <1>7, <2>1, NodesStay
<1>n. PICK n \in Nat : \E f : Accounted(f, n)
  BY <1>2 DEF Inv
<1>8. PICK f : Accounted(f, n)
  BY <1>n
<1>9. Accounted(f, n)'
  <2>1. Stacked(f, n)' /\ Places(f, n)' = Places(f, n) /\ Places(f, n) \subseteq live
    BY <1>7, <1>8 DEF Accounted, Places
  <2>2. temp = NULL /\ NULL \notin live
    BY <1>1, Held DEF Inv, Locals
  <2>3. Lost(f, n)' = Lost(f, n)
    BY <1>2, <2>1, <2>2 DEF Lost
  <2> QED
    BY <1>1, <1>2, <1>8, <2>1, <2>3 DEF Accounted
<1> QED
  BY <1>1, <1>3, <1>4, <1>5, <1>6, <1>7, <1>8, <1>9 DEF Inv

(* The new node is the head, and links the one that was. *)
LEMMA ConstructStep ==
  ASSUME Inv, PushConstruct
  PROVE  /\ Inv' /\ Pool!Next
         /\ \A n \in Nat : \A f : Stacked(f, n) =>
              \E g : /\ Stacked(g, n + 1)'
                    /\ NodeAt(g[1])' = [data |-> element, prev |-> head_]
                    /\ \A i \in 1..n : g[i + 1] = f[i] /\ mem'[f[i]] = mem[f[i]]
<1>1. /\ pc = "construct" /\ pc' = "client" /\ temp' = NULL /\ element' = NONE
      /\ head_' = temp /\ UNCHANGED <<returned, throws>>
      /\ Pool!Construct(temp, NewNode)
  BY DEF PushConstruct
<1>2. /\ temp \in live /\ element \in Data /\ head_ \in live \cup {NULL}
      /\ alive /\ alive' /\ UNCHANGED live
      /\ live \subseteq carved /\ live \subseteq Pool!Slot /\ NULL \notin live
      /\ mem \in [carved -> Pool!Cell]
  BY <1>1, Held DEF Inv, Locals, Pool!Construct
<1>3. NewNode \in Node
  BY <1>2 DEF NewNode, Node, Pool!Slot
<1>4. Pool!Next
  BY <1>1, <1>2, <1>3 DEF Pool!Next
<1>5. Safe!Inv'
  BY <1>4, PoolSafe DEF Inv
<1>6. mem'[temp].element = NewNode /\ \A s \in live \ {temp} : mem'[s] = mem[s]
  BY <1>1, <1>2 DEF Pool!Construct, Pool!Holding
<1>7. Locals' /\ IsFiniteSet(live)'
  BY <1>1, <1>2 DEF Inv, Locals
<1>8. ASSUME NEW n \in Nat, NEW f, Stacked(f, n), temp \notin Places(f, n)
      PROVE  \E g : /\ Stacked(g, n + 1)'
                   /\ Places(g, n + 1)' = Places(f, n) \cup {temp}
                   /\ NodeAt(g[1])' = NewNode
                   /\ \A i \in 1..n : g[i + 1] = f[i] /\ mem'[f[i]] = mem[f[i]]
  <2>0. PICK g : g = [i \in 1..n + 1 |-> IF i = 1 THEN temp ELSE f[i - 1]]
    OBVIOUS
  <2>1. g[1] = temp /\ \A i \in 1..n : g[i + 1] = f[i]
    BY <2>0
  <2>2. \A i \in 2..n + 1 : i - 1 \in 1..n /\ g[i] = f[i - 1]
    BY <2>0
  <2>3. ASSUME NEW i \in 1..n
        PROVE  f[i] \in live /\ f[i] \in Built /\ f[i] # temp /\ mem'[f[i]] = mem[f[i]]
    <3>1. f[i] \in Built /\ f[i] # temp
      BY <1>8 DEF Stacked, Places
    <3> QED
      BY <3>1, <1>6 DEF Built
  <2>4. temp \in Built' /\ \A i \in 1..n : f[i] \in Built'
    BY <1>2, <1>3, <1>6, <2>3 DEF Built, NodeAt
  <2>5. g \in [1..n + 1 -> Built']
    BY <2>0, <2>1, <2>2, <2>4
  <2>6. \A i, j \in 1..n + 1 : g[i] = g[j] => i = j
    <3> SUFFICES ASSUME NEW i \in 1..n + 1, NEW j \in 1..n + 1, g[i] = g[j] PROVE i = j
      OBVIOUS
    <3>1. CASE i = 1 \/ j = 1
      BY <3>1, <2>1, <2>2, <2>3
    <3>2. CASE i # 1 /\ j # 1
      <4>1. i - 1 \in 1..n /\ j - 1 \in 1..n /\ f[i - 1] = f[j - 1]
        BY <3>2, <2>2
      <4>2. i - 1 = j - 1
        BY <4>1, <1>8 DEF Stacked
      <4> QED
        BY <4>2
    <3> QED
      BY <3>1, <3>2
  <2>7. Descends(g, n + 1)'
    <3>1. head_' = g[1] /\ n + 1 # 0
      BY <1>1, <2>1
    <3>2. head_ = IF n = 0 THEN NULL ELSE f[1]
      BY <1>8 DEF Stacked, Descends
    <3>3. mem'[g[1]].element.prev = IF 1 = n + 1 THEN NULL ELSE g[1 + 1]
      BY <1>6, <2>1, <3>2 DEF NewNode
    <3>4. ASSUME NEW i \in 2..n + 1
          PROVE  mem'[g[i]].element.prev = IF i = n + 1 THEN NULL ELSE g[i + 1]
      <4>1. i - 1 \in 1..n /\ g[i] = f[i - 1]
        BY <2>2
      <4>2. mem[f[i - 1]].element.prev = IF i - 1 = n THEN NULL ELSE f[(i - 1) + 1]
        BY <4>1, <1>8 DEF Stacked, Descends, NodeAt
      <4>3. i # n + 1 => g[i + 1] = f[i] /\ (i - 1) + 1 = i
        BY <2>1
      <4> QED
        BY <4>1, <4>2, <4>3, <2>3
    <3> QED
      BY <3>1, <3>3, <3>4 DEF Descends, NodeAt
  <2>8. Places(g, n + 1)' = Places(f, n) \cup {temp}
    <3>1. \A i \in 1..n + 1 : g[i] \in Places(f, n) \cup {temp}
      BY <2>1, <2>2 DEF Places
    <3>2. \A i \in 1..n : i + 1 \in 1..n + 1 /\ g[i + 1] = f[i]
      BY <2>1
    <3>3. 1 \in 1..n + 1
      OBVIOUS
    <3> QED
      BY <2>1, <3>1, <3>2, <3>3 DEF Places
  <2>9. NodeAt(g[1])' = NewNode
    BY <1>6, <2>1 DEF NodeAt
  <2> QED
    BY <2>1, <2>3, <2>5, <2>6, <2>7, <2>8, <2>9 DEF Stacked
<1>n. PICK n \in Nat : \E f : Accounted(f, n)
  BY <1>2 DEF Inv
<1>9. PICK f : Accounted(f, n)
  BY <1>n
<1>10. PICK g : Stacked(g, n + 1)' /\ Places(g, n + 1)' = Places(f, n) \cup {temp}
  BY <1>8, <1>9 DEF Accounted
<1>11. Accounted(g, n + 1)'
  <2>1. NULL \notin Places(f, n) \cup {temp}
    BY <1>2, <1>9 DEF Accounted, Stacked, Places, Built
  <2>2. Lost(g, n + 1)' = Lost(f, n)
    BY <1>1, <1>2, <1>10 DEF Lost
  <2> QED
    BY <1>1, <1>9, <1>10, <2>1, <2>2 DEF Accounted
<1>12. Inv'
  <2>1. n + 1 \in Nat
    OBVIOUS
  <2> QED
    BY <1>5, <1>7, <1>11, <2>1 DEF Inv
<1>13. ASSUME NEW m \in Nat, NEW h, Stacked(h, m) PROVE temp \notin Places(h, m)
  <2>1. h = f /\ m = n
    BY <1>2, <1>9, <1>13, OneList DEF Accounted, Stacked
  <2> QED
    BY <1>9, <2>1 DEF Accounted
<1>14. ASSUME NEW m \in Nat, NEW h, Stacked(h, m)
       PROVE  \E u : /\ Stacked(u, m + 1)'
                    /\ NodeAt(u[1])' = [data |-> element, prev |-> head_]
                    /\ \A i \in 1..m : u[i + 1] = h[i] /\ mem'[h[i]] = mem[h[i]]
  <2>1. temp \notin Places(h, m)
    BY <1>13, <1>14
  <2>2. NewNode = [data |-> element, prev |-> head_]
    BY DEF NewNode
  <2>3. PICK u : /\ Stacked(u, m + 1)' /\ NodeAt(u[1])' = NewNode
                 /\ \A i \in 1..m : u[i + 1] = h[i] /\ mem'[h[i]] = mem[h[i]]
    BY <2>1, <1>8, <1>14
  <2> QED
    BY <2>2, <2>3
<1> QED
  BY <1>4, <1>12, <1>14

(* The slot of a copy that throws is lost. *)
LEMMA ThrowsStep ==
  ASSUME Inv, PushThrows
  PROVE  Inv' /\ UNCHANGED <<poolVars, head_, returned>>
<1>1. /\ pc = "construct" /\ pc' = "client" /\ temp' = NULL /\ element' = NONE
      /\ throws < MaxThrows /\ throws' = throws + 1
      /\ UNCHANGED <<poolVars, head_, returned>>
  BY DEF PushThrows
<1>2. /\ UNCHANGED <<live, mem, alive>> /\ alive /\ temp \in live
      /\ throws \in 0..MaxThrows /\ NULL \notin live
  BY <1>1, Held DEF poolVars, Inv, Locals
<1>3. Safe!Inv'
  BY <1>1, PoolStays DEF Inv
<1>4. Locals' /\ IsFiniteSet(live)'
  BY <1>1, <1>2, StackAssumption DEF Inv, Locals
<1>n. PICK n \in Nat : \E f : Accounted(f, n)
  BY <1>2 DEF Inv
<1>5. PICK f : Accounted(f, n)
  BY <1>n
<1>6. Stacked(f, n)' /\ Places(f, n)' = Places(f, n) /\ NULL \notin Places(f, n)
  <2>1. NULL \notin Places(f, n)
    BY <1>2, <1>5 DEF Accounted, Stacked, Places, Built
  <2>2. Stacked(f, n)
    BY <1>5 DEF Accounted
  <2> QED
    BY <1>1, <1>2, <2>1, <2>2, NodesStay
<1>7. Lost(f, n)' = Lost(f, n) \cup {temp} /\ temp \notin Lost(f, n)
  BY <1>1, <1>2, <1>5, <1>6 DEF Lost, Accounted
<1>8. IsFiniteSet(Lost(f, n))
  BY FS_Subset DEF Lost, Inv
<1>9. Cardinality(Lost(f, n)') = Cardinality(Lost(f, n)) + 1
  BY <1>7, <1>8, FS_AddElement
<1>10. Accounted(f, n)'
  BY <1>1, <1>5, <1>6, <1>9 DEF Accounted
<1> QED
  BY <1>1, <1>3, <1>4, <1>10 DEF Inv

(* The head goes back to the pool, after its link was read. *)
LEMMA DropStep ==
  ASSUME Inv, pc \in {"client", "clear", "~clear"}, DropHead,
         UNCHANGED <<pc, temp, element, throws>>, returned' \in Data \cup {EMPTY, NONE}
  PROVE  /\ Inv' /\ Pool!Next
         /\ \A n \in Nat : \A f : Stacked(f, n) =>
              /\ n # 0 /\ head_ = f[1] /\ f[1] \in Built
              /\ \E g : /\ Stacked(g, n - 1)'
                       /\ \A i \in 1..n - 1 :
                            g[i] = f[i + 1] /\ mem'[g[i]] = mem[g[i]]
<1>1. /\ head_ # NULL /\ head_' = NodeAt(head_).prev
      /\ Pool!Deallocate(head_)
  BY DEF DropHead, Below, Releases
<1>2. /\ head_ \in live /\ alive /\ alive' /\ live' = live \ {head_} /\ temp = NULL
      /\ live \subseteq carved /\ NULL \notin live /\ mem \in [carved -> Pool!Cell]
      /\ \A s \in live' : mem'[s] = mem[s]
  BY <1>1, Held DEF Inv, Locals, Pool!Deallocate
<1>3. Pool!Next
  BY <1>1, <1>2 DEF Pool!Next
<1>4. Safe!Inv'
  BY <1>3, PoolSafe DEF Inv
<1>5. ASSUME NEW n \in Nat, NEW f, Stacked(f, n)
      PROVE  /\ n # 0 /\ head_ = f[1] /\ f[1] \in Built
             /\ \E g : /\ Stacked(g, n - 1)'
                      /\ Places(g, n - 1)' = Places(f, n) \ {head_}
                      /\ head_' \in live' \cup {NULL}
                      /\ \A i \in 1..n - 1 : g[i] = f[i + 1] /\ mem'[g[i]] = mem[g[i]]
  <2>1. n # 0 /\ head_ = f[1] /\ f[1] \in Built /\ 1 \in 1..n
    BY <1>1, <1>5 DEF Stacked, Descends
  <2>2. PICK g : g = [i \in 1..n - 1 |-> f[i + 1]]
    OBVIOUS
  <2>3. \A i \in 1..n - 1 : i + 1 \in 1..n /\ g[i] = f[i + 1]
    BY <2>2
  <2>4. ASSUME NEW i \in 1..n - 1
        PROVE  g[i] \in Built /\ g[i] \in live' /\ mem'[g[i]] = mem[g[i]]
    <3>1. g[i] \in Built /\ g[i] # head_
      BY <1>5, <2>1, <2>3 DEF Stacked
    <3> QED
      BY <1>2, <3>1 DEF Built
  <2>5. \A i \in 1..n - 1 : g[i] \in Built'
    BY <2>4 DEF Built, NodeAt
  <2>6. g \in [1..n - 1 -> Built']
    BY <2>2, <2>3, <2>5
  <2>7. \A i, j \in 1..n - 1 : g[i] = g[j] => i = j
    <3> SUFFICES ASSUME NEW i \in 1..n - 1, NEW j \in 1..n - 1, g[i] = g[j] PROVE i = j
      OBVIOUS
    <3>1. i + 1 = j + 1
      BY <1>5, <2>3 DEF Stacked
    <3> QED
      BY <3>1
  <2>8. \A i \in 1..n : mem[f[i]].element.prev = IF i = n THEN NULL ELSE f[i + 1]
    BY <1>5 DEF Stacked, Descends, NodeAt
  <2>9. head_' = IF n - 1 = 0 THEN NULL ELSE g[1]
    <3>1. head_' = IF 1 = n THEN NULL ELSE f[1 + 1]
      BY <1>1, <2>1, <2>8 DEF NodeAt
    <3>2. n # 1 => 1 \in 1..n - 1
      BY <2>1
    <3> QED
      BY <2>3, <3>1, <3>2
  <2>10. \A i \in 1..n - 1 :
           mem'[g[i]].element.prev = IF i = n - 1 THEN NULL ELSE g[i + 1]
    <3> SUFFICES ASSUME NEW i \in 1..n - 1
                 PROVE  mem'[g[i]].element.prev = IF i = n - 1 THEN NULL ELSE g[i + 1]
      OBVIOUS
    <3>1. mem'[g[i]].element.prev = IF i + 1 = n THEN NULL ELSE f[(i + 1) + 1]
      BY <2>3, <2>4, <2>8
    <3>2. i # n - 1 => i + 1 \in 1..n - 1
      OBVIOUS
    <3> QED
      BY <2>3, <3>1, <3>2
  <2>11. Descends(g, n - 1)'
    BY <2>9, <2>10 DEF Descends, NodeAt
  <2>12. Places(g, n - 1)' = Places(f, n) \ {head_}
    <3>1. \A i \in 1..n - 1 : g[i] \in Places(f, n) \ {head_}
      BY <2>3, <2>4, <1>2 DEF Places
    <3>2. \A i \in 1..n : f[i] # head_ => i - 1 \in 1..n - 1 /\ f[i] = g[i - 1]
      <4> SUFFICES ASSUME NEW i \in 1..n, f[i] # head_
                   PROVE  i - 1 \in 1..n - 1 /\ f[i] = g[i - 1]
        OBVIOUS
      <4>1. i # 1
        BY <2>1
      <4>2. i - 1 \in 1..n - 1 /\ (i - 1) + 1 = i
        BY <4>1
      <4> QED
        BY <4>2, <2>3
    <3> QED
      BY <3>1, <3>2 DEF Places
  <2>13. head_' \in live' \cup {NULL}
    <3>1. n - 1 # 0 => 1 \in 1..n - 1
      BY <2>1
    <3> QED
      BY <2>4, <2>9, <3>1
  <2>14. Stacked(g, n - 1)'
    BY <2>6, <2>7, <2>11 DEF Stacked
  <2> QED
    BY <2>1, <2>3, <2>4, <2>12, <2>13, <2>14
<1>n. PICK n \in Nat : \E f : Accounted(f, n)
  BY <1>2 DEF Inv
<1>6. PICK f : Accounted(f, n)
  BY <1>n
<1>7. PICK g : /\ Stacked(g, n - 1)' /\ Places(g, n - 1)' = Places(f, n) \ {head_}
               /\ head_' \in live' \cup {NULL}
  BY <1>5, <1>6 DEF Accounted
<1>8. Accounted(g, n - 1)'
  <2>1. head_ \in Places(f, n) /\ NULL \notin Places(f, n)
    <3>1. 1 \in 1..n /\ head_ = f[1]
      BY <1>5, <1>6 DEF Accounted
    <3> QED
      BY <1>2, <1>6, <3>1 DEF Accounted, Stacked, Places, Built
  <2>2. Lost(g, n - 1)' = Lost(f, n)
    BY <1>2, <1>7, <2>1 DEF Lost
  <2> QED
    BY <1>2, <1>6, <1>7, <2>1, <2>2 DEF Accounted
<1>9. Locals'
  BY <1>2, <1>7 DEF Inv, Locals
<1>10. IsFiniteSet(live)' /\ n - 1 \in Nat
  <2>1. n # 0
    BY <1>5, <1>6 DEF Accounted
  <2> QED
    BY <1>2, <2>1, FS_RemoveElement DEF Inv
<1> QED
  BY <1>3, <1>4, <1>5, <1>8, <1>9, <1>10 DEF Inv

(* Steps that touch neither the pool nor the nodes *)
LEMMA IdleStep ==
  ASSUME Inv, UNCHANGED <<poolVars, head_, temp, element, throws>>,
         pc # "construct", pc' \notin {"construct", "gone"}, pc # "gone",
         pc' \in {"client", "clear", "~clear"}, returned' \in Data \cup {EMPTY, NONE}
  PROVE  Inv'
<1>1. UNCHANGED <<live, mem, alive>>
  BY DEF poolVars
<1>2. Safe!Inv' /\ Locals' /\ IsFiniteSet(live)'
  BY <1>1, PoolStays DEF Inv, Locals
<1>3. ASSUME NEW n \in Nat, NEW f, Accounted(f, n) PROVE Accounted(f, n)'
  BY <1>1, <1>3 DEF Accounted, Stacked, Places, Lost, Built, Descends, NodeAt
<1> QED
  BY <1>1, <1>2, <1>3 DEF Inv

(* ~MemoryPool(): the stack is empty by then. *)
LEMMA EndStep ==
  ASSUME Inv, DestroyPool \/ DeletePool
  PROVE  Inv' /\ Pool!Next /\ head_ = NULL /\ UNCHANGED <<head_, returned>>
         /\ pc \in {"~clear", "gone"} /\ pc' = "gone"
<1>1. /\ Pool!Next /\ head_ = NULL /\ pc' = "gone" /\ alive' = FALSE
      /\ pc \in {"~clear", "gone"} /\ live' \subseteq live
      /\ UNCHANGED <<head_, temp, element, returned, throws>>
  <2>1. CASE DestroyPool
    BY <2>1 DEF DestroyPool, Cleared, Pool!Destroy, Pool!Next
  <2>2. CASE DeletePool
    BY <2>2 DEF DeletePool, Pool!DeleteBlock, Pool!Next, Inv, Locals
  <2> QED
    BY <2>1, <2>2
<1>2. Safe!Inv'
  BY <1>1, PoolSafe DEF Inv
<1>3. IsFiniteSet(live)'
  BY <1>1, FS_Subset DEF Inv
<1>4. Locals'
  BY <1>1 DEF Inv, Locals
<1> QED
  BY <1>1, <1>2, <1>3, <1>4 DEF Inv

(* What pop() and top() answer is an element. *)
LEMMA TopIs ==
  ASSUME Inv, head_ # NULL
  PROVE  NodeAt(head_).data \in Data
<1>n. PICK n \in Nat : \E f : Stacked(f, n)
  BY DEF Inv, Locals, Accounted
<1>1. PICK f : Stacked(f, n)
  BY <1>n
<1>2. n # 0 /\ head_ = f[1] /\ f[1] \in Built
  BY <1>1 DEF Stacked, Descends
<1> QED
  BY <1>2 DEF Built, Node

(* Each step keeps the invariant, and is one the pool's client may take. *)
LEMMA Steps ==
  ASSUME Inv, [Next]_vars
  PROVE  Inv' /\ [Pool!Next]_(Pool!vars)
<1>0. ASSUME UNCHANGED poolVars PROVE UNCHANGED Pool!vars
  BY <1>0 DEF poolVars, Pool!vars
<1>1. ASSUME NEW d \in Data, Push(d) PROVE Inv' /\ [Pool!Next]_(Pool!vars)
  BY <1>1, PushStep
<1>2. CASE PushBadAlloc
  <2>1. UNCHANGED Pool!vars /\ alive
    BY <1>2 DEF PushBadAlloc, Pool!AllocateThrows
  <2>2. UNCHANGED <<poolVars, head_, pc, temp, element, returned, throws>>
    BY <1>2, <2>1 DEF PushBadAlloc, Pool!vars, poolVars
  <2>3. pc = "client"
    BY <1>2 DEF PushBadAlloc
  <2> QED
    BY <2>1, <2>2, <2>3, IdleStep DEF Inv, Locals
<1>3. CASE Pop
  <2>1. CASE head_ = NULL
    BY <1>0, <1>3, <2>1, IdleStep DEF Pop
  <2>2. CASE head_ # NULL
    <3>1. /\ DropHead /\ UNCHANGED <<pc, temp, element, throws>>
          /\ pc \in {"client", "clear", "~clear"}
          /\ returned' \in Data \cup {EMPTY, NONE}
      BY <1>3, <2>2, TopIs DEF Pop
    <3> QED
      BY <3>1, DropStep
  <2> QED
    BY <2>1, <2>2
<1>4. CASE Top
  BY <1>0, <1>4, TopIs, IdleStep DEF Top
<1>5. CASE Clear
  BY <1>0, <1>5, IdleStep DEF Clear, Inv, Locals
<1>6. CASE PushConstruct
  BY <1>6, ConstructStep
<1>7. CASE PushThrows
  BY <1>0, <1>7, ThrowsStep
<1>8. CASE ClearLoop
  <2>1. returned' \in Data \cup {EMPTY, NONE}
    BY <1>8 DEF ClearLoop, Inv, Locals
  <2> QED
    BY <1>8, <2>1, DropStep DEF ClearLoop
<1>9. CASE ClearReturns
  BY <1>0, <1>9, IdleStep DEF ClearReturns, Inv, Locals
<1>10. CASE DestroyPool \/ DeletePool
  BY <1>10, EndStep
<1>11. CASE UNCHANGED vars
  <2>1. /\ UNCHANGED <<poolVars, head_, pc, temp, element, returned, throws>>
        /\ UNCHANGED <<live, mem, alive>>
    BY <1>11 DEF vars, poolVars
  <2>2. Safe!Inv' /\ Locals' /\ IsFiniteSet(live)'
    BY <2>1, PoolStays DEF Inv, Locals
  <2>3. ASSUME NEW n \in Nat, NEW f, Accounted(f, n) PROVE Accounted(f, n)'
    BY <2>1, <2>3 DEF Accounted, Stacked, Places, Lost, Built, Descends, NodeAt
  <2> QED
    BY <1>0, <2>1, <2>2, <2>3 DEF Inv
<1> QED
  BY <1>1, <1>2, <1>3, <1>4, <1>5, <1>6, <1>7, <1>8, <1>9, <1>10, <1>11 DEF Next, Running

(* The invariant holds always. *)
LEMMA Invariance == Spec => []Inv
BY InitInv, Steps, PTL DEF Spec
-----------------------------------------------------------------------------
(* Whatever the sizes, and whichever allocation or copy throws, the stack  *)
(* is a proper client of its pool: push() constructs only in a slot it was *)
(* given, pop() and clear() give back only slots that are held, each once, *)
(* and ~StackAlloc() destroys the pool after its last node.                *)
THEOREM ProperClient == Spec => RefinesPool
<1>1. Init => Pool!Init
  BY DEF Init
<1>2. Inv /\ [Next]_vars => [Pool!Next]_(Pool!vars)
  BY Steps
<1> QED
  BY <1>1, <1>2, Invariance, PTL DEF Spec, RefinesPool, Pool!Spec

(* Whatever the sizes: the slots that are lost are those of copies that    *)
(* threw, one for each.                                                    *)
THEOREM LeaksAreThrows == Spec => []OnlyThrowsLeak
<1>1. Inv => OnlyThrowsLeak
  <2> SUFFICES ASSUME Inv PROVE OnlyThrowsLeak
    OBVIOUS
  <2>1. Pool!TypeOK /\ NULL \notin live
    BY PoolSafe, Held DEF Inv
  <2>2. TypeOK
    BY <2>1 DEF TypeOK, Inv, Locals
  <2>3. ASSUME alive PROVE Cardinality(live \ (NodeSet \cup {temp})) = throws
    <3>n. PICK n \in Nat : \E f : Accounted(f, n)
      BY <2>3 DEF Inv
    <3>1. PICK f : Accounted(f, n)
      BY <3>n
    <3>2. NodeSet = Places(f, n)
      BY <2>1, <3>1, ContentsAre DEF Inv, Accounted
    <3> QED
      BY <3>1, <3>2 DEF Accounted, Lost
  <2> QED
    BY <2>2, <2>3 DEF OnlyThrowsLeak
<1> QED
  BY <1>1, Invariance, PTL
-----------------------------------------------------------------------------
(* The stack *)

(* An element on top of a sequence, *)
LEMMA OnTop ==
  ASSUME NEW S, NEW e \in S, NEW s \in Seq(S), NEW n \in Nat, Len(s) = n,
         NEW t \in [1..n + 1 -> S],
         t[1] = e, \A i \in 2..n + 1 : t[i] = s[i - 1]
  PROVE  <<e>> \o s = t
<1>3. t \in Seq(S) /\ Len(t) = n + 1
  OBVIOUS
<1> DEFINE one == <<e>>
<1> DEFINE all == one \o s
<1>4. one \in Seq(S) /\ Len(one) = 1 /\ one[1] = e
  OBVIOUS
<1> HIDE DEF one
<1>5. /\ all \in Seq(S) /\ Len(all) = 1 + n
      /\ \A i \in 1..1 + n : all[i] = IF i <= 1 THEN one[i] ELSE s[i - 1]
  <2>1. /\ all \in Seq(S) /\ Len(all) = Len(one) + Len(s)
        /\ \A i \in 1..Len(one) + Len(s) :
             all[i] = IF i <= Len(one) THEN one[i] ELSE s[i - Len(one)]
    BY <1>4, ConcatProperties, Zenon
  <2> HIDE DEF all
  <2> QED
    BY <1>4, <2>1
<1> HIDE DEF all
<1>6. \A i \in 1..Len(all) : all[i] = t[i]
  <2>1. ASSUME NEW i \in 1..n + 1 PROVE all[i] = t[i]
    <3>1. CASE i = 1
      BY <1>4, <1>5, <3>1
    <3>2. CASE i # 1
      <4>1. i \in 2..n + 1 /\ i \in 1..1 + n /\ ~(i <= 1)
        BY <3>2
      <4> QED
        BY <1>5, <4>1
    <3> QED
      BY <3>1, <3>2
  <2> QED
    BY <1>5, <2>1
<1>7. Len(all) = Len(t)
  BY <1>3, <1>5
<1>8. all = t
  BY <1>3, <1>5, <1>6, <1>7, SeqEqual
<1> QED
  BY <1>8 DEF all, one

(* and the sequence without its first. *)
LEMMA Beneath ==
  ASSUME NEW S, NEW s \in Seq(S), NEW n \in Nat \ {0}, Len(s) = n,
         NEW t \in [1..n - 1 -> S],
         \A i \in 1..n - 1 : t[i] = s[i + 1]
  PROVE  s # << >> /\ Head(s) = s[1] /\ Tail(s) = t
<1>1. s # << >> /\ Head(s) = s[1]
  OBVIOUS
<1>2. /\ Tail(s) \in Seq(S) /\ Len(Tail(s)) = n - 1
      /\ \A i \in 1..n - 1 : Tail(s)[i] = s[i + 1]
  BY <1>1, HeadTailProperties
<1>3. t \in Seq(S) /\ Len(t) = n - 1
  OBVIOUS
<1> QED
  BY <1>1, <1>2, <1>3, SeqEqual

Shown(f, n) == [i \in 1..n |-> NodeAt(f[i]).data]

(* There are nodes, and the stack shows their elements. *)
LEMMA Shows ==
  Inv => /\ \E n \in Nat : \E f : Stacked(f, n)
         /\ \A n \in Nat : \A f : Stacked(f, n) => Contents = Shown(f, n)
         /\ head_ = NULL => Contents = << >>
<1> SUFFICES ASSUME Inv
             PROVE  /\ \E n \in Nat : \E f : Stacked(f, n)
                    /\ \A n \in Nat : \A f : Stacked(f, n) => Contents = Shown(f, n)
                    /\ head_ = NULL => Contents = << >>
  OBVIOUS
<1>1. NULL \notin live /\ IsFiniteSet(live)
  BY Held DEF Inv
<1>2. \A n \in Nat : \A f : Stacked(f, n) => Contents = Shown(f, n)
  BY <1>1, ContentsAre DEF Shown
<1>3. ASSUME head_ = NULL
      PROVE  Stacked([i \in 1..0 |-> NULL], 0)
  BY <1>3 DEF Stacked, Descends
<1>4. \E n \in Nat : \E f : Stacked(f, n)
  <2>1. CASE alive
    BY <2>1 DEF Inv, Accounted
  <2>2. CASE ~alive
    BY <2>2, <1>3 DEF Inv, Locals
  <2> QED
    BY <2>1, <2>2
<1>5. ASSUME head_ = NULL PROVE Contents = << >>
  <2>1. Contents = Shown([i \in 1..0 |-> NULL], 0)
    BY <1>2, <1>3, <1>5
  <2> QED
    BY <2>1 DEF Shown
<1> QED
  BY <1>2, <1>4, <1>5

(* The same of the next state *)
LEMMA ShowsAfter ==
  ASSUME Inv'
  PROVE  /\ \A n \in Nat : \A f : Stacked(f, n)' => Contents' = Shown(f, n)'
         /\ head_' = NULL => Contents' = << >>
<1>1. (Inv => /\ \E n \in Nat : \E f : Stacked(f, n)
              /\ \A n \in Nat : \A f : Stacked(f, n) => Contents = Shown(f, n)
              /\ head_ = NULL => Contents = << >>)'
  BY Shows, PTL
<1> QED
  BY <1>1

(* Until the copy the stack is as it was; *)
LEMMA PushShows ==
  ASSUME Inv, NEW d \in Data, Push(d)
  PROVE  Contents' = Contents
<1>n. PICK n \in Nat : \E f : Stacked(f, n)
  BY Shows
<1>1. PICK f : Stacked(f, n)
  BY <1>n
<1>2. /\ Inv' /\ Stacked(f, n)' /\ \A i \in 1..n : mem'[f[i]] = mem[f[i]]
  BY <1>1, PushStep
<1>3. Contents = Shown(f, n) /\ Contents' = Shown(f, n)'
  BY <1>1, <1>2, Shows, ShowsAfter
<1> QED
  BY <1>2, <1>3 DEF Shown, NodeAt

(* with it the element comes on top, *)
LEMMA ConstructShows ==
  ASSUME Inv, PushConstruct
  PROVE  element \in Data /\ Contents' = <<element>> \o Contents
<1>n. PICK n \in Nat : \E f : Stacked(f, n)
  BY Shows
<1>1. PICK f : Stacked(f, n)
  BY <1>n
<1>2. PICK g : /\ Inv' /\ Stacked(g, n + 1)'
               /\ NodeAt(g[1])' = [data |-> element, prev |-> head_]
               /\ \A i \in 1..n : g[i + 1] = f[i] /\ mem'[f[i]] = mem[f[i]]
  BY <1>1, ConstructStep
<1>3. n + 1 \in Nat
  OBVIOUS
<1>4. Contents = Shown(f, n) /\ Contents' = Shown(g, n + 1)'
  BY <1>1, <1>2, <1>3, Shows, ShowsAfter
<1>5. element \in Data
  BY DEF PushConstruct, Inv, Locals
<1>6. \A i \in 1..n : NodeAt(f[i]).data \in Data
  BY <1>1 DEF Stacked, Built, Node
<1>7. Shown(f, n) \in Seq(Data) /\ Len(Shown(f, n)) = n
  BY <1>6 DEF Shown
<1>8. Shown(g, n + 1)' = [i \in 1..n + 1 |-> mem'[g[i]].element.data]
  BY DEF Shown, NodeAt
<1>9. mem'[g[1]].element.data = element
  BY <1>2 DEF NodeAt
<1>10. ASSUME NEW i \in 2..n + 1 PROVE mem'[g[i]].element.data = Shown(f, n)[i - 1]
  <2>1. i - 1 \in 1..n /\ (i - 1) + 1 = i
    OBVIOUS
  <2>2. g[i] = f[i - 1] /\ mem'[f[i - 1]] = mem[f[i - 1]]
    BY <1>2, <2>1
  <2>3. Shown(f, n)[i - 1] = NodeAt(f[i - 1]).data
    BY <2>1 DEF Shown
  <2> QED
    BY <2>2, <2>3 DEF NodeAt
<1> DEFINE t == [i \in 1..n + 1 |-> mem'[g[i]].element.data]
<1>11. /\ t[1] = element
       /\ \A i \in 2..n + 1 : t[i] = Shown(f, n)[i - 1]
  BY <1>9, <1>10
<1>12. \A i \in 1..n : Shown(f, n)[i] \in Data
  BY <1>6 DEF Shown
<1>13. t \in [1..n + 1 -> Data]
  <2>1. ASSUME NEW i \in 1..n + 1 PROVE mem'[g[i]].element.data \in Data
    <3>1. CASE i = 1
      BY <1>5, <1>9, <3>1
    <3>2. CASE i # 1
      <4>1. i \in 2..n + 1 /\ i - 1 \in 1..n
        BY <3>2
      <4> QED
        BY <1>10, <1>12, <4>1
    <3> QED
      BY <3>1, <3>2
  <2> QED
    BY <2>1
<1>14. Contents' = t
  BY <1>4, <1>8
<1> HIDE DEF t
<1>15. <<element>> \o Shown(f, n) = t
  BY <1>5, <1>7, <1>11, <1>13, OnTop
<1> QED
  BY <1>4, <1>5, <1>14, <1>15

(* and pop() takes the one on top. *)
LEMMA DropShows ==
  ASSUME Inv, pc \in {"client", "clear", "~clear"}, DropHead,
         UNCHANGED <<pc, temp, element, throws>>, returned' \in Data \cup {EMPTY, NONE}
  PROVE  /\ Contents # << >> /\ Contents' = Tail(Contents)
         /\ NodeAt(head_).data = Head(Contents)
<1>n. PICK n \in Nat : \E f : Stacked(f, n)
  BY Shows
<1>1. PICK f : Stacked(f, n)
  BY <1>n
<1>2. /\ Inv' /\ n # 0 /\ head_ = f[1]
      /\ \E g : /\ Stacked(g, n - 1)'
               /\ \A i \in 1..n - 1 : g[i] = f[i + 1] /\ mem'[g[i]] = mem[g[i]]
  BY <1>1, DropStep
<1>3. PICK g : /\ Stacked(g, n - 1)'
               /\ \A i \in 1..n - 1 : g[i] = f[i + 1] /\ mem'[g[i]] = mem[g[i]]
  BY <1>2
<1>4. n - 1 \in Nat
  BY <1>2
<1>5. Contents = Shown(f, n) /\ Contents' = Shown(g, n - 1)'
  BY <1>1, <1>2, <1>3, <1>4, Shows, ShowsAfter
<1>6. \A i \in 1..n : NodeAt(f[i]).data \in Data
  BY <1>1 DEF Stacked, Built, Node
<1>7. Shown(f, n) \in Seq(Data) /\ Len(Shown(f, n)) = n
  BY <1>6 DEF Shown
<1>8. Shown(g, n - 1)' = [i \in 1..n - 1 |-> mem'[g[i]].element.data]
  BY DEF Shown, NodeAt
<1>9. ASSUME NEW i \in 1..n - 1 PROVE mem'[g[i]].element.data = Shown(f, n)[i + 1]
  <2>1. i + 1 \in 1..n
    BY <1>4
  <2>2. g[i] = f[i + 1] /\ mem'[g[i]] = mem[g[i]]
    BY <1>3
  <2>3. Shown(f, n)[i + 1] = NodeAt(f[i + 1]).data
    BY <2>1 DEF Shown
  <2> QED
    BY <2>2, <2>3 DEF NodeAt
<1>10. Shown(f, n)[1] = NodeAt(head_).data
  BY <1>2 DEF Shown
<1> DEFINE t == [i \in 1..n - 1 |-> mem'[g[i]].element.data]
<1>11. \A i \in 1..n - 1 : t[i] = Shown(f, n)[i + 1]
  BY <1>9
<1>12. \A i \in 1..n : Shown(f, n)[i] \in Data
  BY <1>6 DEF Shown
<1>13. t \in [1..n - 1 -> Data]
  <2>1. ASSUME NEW i \in 1..n - 1 PROVE mem'[g[i]].element.data \in Data
    <3>1. i + 1 \in 1..n
      BY <1>4
    <3> QED
      BY <1>9, <1>12, <3>1
  <2> QED
    BY <2>1
<1>14. Contents' = t
  BY <1>5, <1>8
<1> HIDE DEF t
<1>15. /\ Shown(f, n) # << >> /\ Head(Shown(f, n)) = Shown(f, n)[1]
       /\ Tail(Shown(f, n)) = t
  BY <1>2, <1>7, <1>11, <1>13, Beneath
<1> QED
  BY <1>5, <1>10, <1>14, <1>15

(* A step that touches no node leaves the stack as it is, *)
LEMMA SameShows ==
  ASSUME Inv, Inv', UNCHANGED <<live, mem, head_>>
  PROVE  Contents' = Contents
<1>n. PICK n \in Nat : \E f : Stacked(f, n)
  BY Shows
<1>1. PICK f : Stacked(f, n)
  BY <1>n
<1>2. Stacked(f, n)'
  BY <1>1 DEF Stacked, Built, Descends, NodeAt
<1>3. Contents = Shown(f, n) /\ Contents' = Shown(f, n)'
  BY <1>1, <1>2, Shows, ShowsAfter
<1> QED
  BY <1>3 DEF Shown, NodeAt

(* and a stack that has a head shows its element first. *)
LEMMA TopShows ==
  ASSUME Inv, head_ # NULL
  PROVE  Contents # << >> /\ Head(Contents) = NodeAt(head_).data
<1>n. PICK n \in Nat : \E f : Stacked(f, n)
  BY Shows
<1>1. PICK f : Stacked(f, n)
  BY <1>n
<1>2. n # 0 /\ head_ = f[1] /\ Contents = Shown(f, n)
  BY <1>1, Shows DEF Stacked, Descends
<1>3. \A i \in 1..n : NodeAt(f[i]).data \in Data
  BY <1>1 DEF Stacked, Built, Node
<1>4. Shown(f, n) \in Seq(Data) /\ Len(Shown(f, n)) = n
  BY <1>3 DEF Shown
<1>5. Shown(f, n)[1] = NodeAt(head_).data
  BY <1>2 DEF Shown
<1>6. Shown(f, n) # << >> /\ Head(Shown(f, n)) = Shown(f, n)[1]
  BY <1>2, <1>4
<1> QED
  BY <1>2, <1>5, <1>6

(* Each step is one of a stack, or none. *)
LEMMA StackSteps ==
  ASSUME Inv, Inv', [Next]_vars
  PROVE  [Lifo!Next]_(Lifo!vars)
<1> USE DEF Lifo!vars
<1>0. head_ = NULL => Contents = << >>
  BY Shows
<1>1. ASSUME NEW d \in Data, Push(d) PROVE UNCHANGED Lifo!vars
  <2>1. Contents' = Contents
    BY <1>1, PushShows
  <2> QED
    BY <1>1, <2>1 DEF Push
<1>2. CASE PushBadAlloc
  <2>1. UNCHANGED <<live, mem, head_>>
    BY <1>2 DEF PushBadAlloc, Pool!AllocateThrows, Pool!vars
  <2> QED
    BY <1>2, <2>1, SameShows DEF PushBadAlloc
<1>3. CASE Pop
  <2>1. CASE head_ = NULL
    <3>1. UNCHANGED <<live, mem, head_>>
      BY <1>3, <2>1 DEF Pop, poolVars
    <3>2. Contents' = Contents
      BY <3>1, SameShows
    <3> QED
      BY <1>0, <1>3, <2>1, <3>2 DEF Pop, Lifo!Next, Lifo!Pop
  <2>2. CASE head_ # NULL
    <3>1. /\ DropHead /\ UNCHANGED <<pc, temp, element, throws>>
          /\ pc = "client" /\ returned' = NodeAt(head_).data
      BY <1>3, <2>2 DEF Pop
    <3>2. /\ Contents # << >> /\ Contents' = Tail(Contents)
          /\ returned' = Head(Contents)
      BY <2>2, <3>1, TopIs, DropShows
    <3> QED
      BY <3>1, <3>2 DEF Lifo!Next, Lifo!Pop
  <2> QED
    BY <2>1, <2>2
<1>4. CASE Top
  <2>1. UNCHANGED <<live, mem, head_>>
    BY <1>4 DEF Top, poolVars
  <2>2. Contents' = Contents
    BY <2>1, SameShows
  <2> QED
    BY <1>4, <2>2, TopShows DEF Top, Lifo!Next, Lifo!Top
<1>5. CASE Clear
  BY <1>5 DEF Clear, Lifo!Next, Lifo!Clear
<1>6. CASE PushConstruct
  <2>1. element \in Data /\ Contents' = <<element>> \o Contents
    BY <1>6, ConstructShows
  <2> QED
    BY <1>6, <2>1 DEF PushConstruct, Lifo!Next, Lifo!Push
<1>7. CASE PushThrows
  <2>1. UNCHANGED <<live, mem, head_>>
    BY <1>7 DEF PushThrows, poolVars
  <2> QED
    BY <1>7, <2>1, SameShows DEF PushThrows
<1>8. CASE ClearLoop
  BY <1>8 DEF ClearLoop
<1>9. CASE ClearReturns
  <2>1. head_' = NULL
    BY <1>9 DEF ClearReturns
  <2>2. Contents' = << >>
    BY <2>1, ShowsAfter
  <2> QED
    BY <1>9, <2>2 DEF ClearReturns
<1>10. CASE DestroyPool \/ DeletePool
  <2>1. head_ = NULL /\ head_' = NULL /\ UNCHANGED returned
    BY <1>10, EndStep
  <2>2. Contents = << >> /\ Contents' = << >>
    BY <1>0, <2>1, ShowsAfter
  <2> QED
    BY <2>1, <2>2
<1>11. CASE UNCHANGED vars
  <2>1. UNCHANGED <<live, mem, head_, pc, returned>>
    BY <1>11 DEF vars, poolVars
  <2> QED
    BY <2>1, SameShows
<1> QED
  BY <1>1, <1>2, <1>3, <1>4, <1>5, <1>6, <1>7, <1>8, <1>9, <1>10, <1>11 DEF Next, Running

(* Whatever the sizes, and whichever allocation or copy throws: push(),    *)
(* pop(), top() and clear() answer as those of a last-in first-out stack,  *)
(* although the nodes share the pool's storage with its free list.         *)
THEOREM ImplementsStack == Spec => RefinesLifo
<1>1. Init => Lifo!Init
  <2> SUFFICES ASSUME Init PROVE Lifo!Init
    OBVIOUS
  <2>1. head_ = NULL /\ returned = NONE /\ pc = "client"
    BY DEF Init
  <2>2. Contents = << >>
    BY <2>1, InitInv, Shows
  <2> QED
    BY <2>1, <2>2 DEF Lifo!Init
<1>2. Inv /\ Inv' /\ [Next]_vars => [Lifo!Next]_(Lifo!vars)
  BY StackSteps
<1> QED
  BY <1>1, <1>2, Invariance, PTL DEF Spec, RefinesLifo, Lifo!Spec

-----------------------------------------------------------------------------
(***************************************************************************)
(* The radix tree.  First strings and recursion in general; then what a    *)
(* Tree is and where find_node() stops in one; that insert() and erase()   *)
(* lead from compressed trees to compressed trees with the leaves they     *)
(* should have; the order of the leaves, and with it begin(), ++ and       *)
(* longest_match(); at last the invariant TreeInv, what follows from it,   *)
(* and the refinement of RadixMap.                                         *)
(***************************************************************************)

(* Strings. *)

Str == Seq(Nat)

(* s is the beginning of u, character by character. *)
Begins(s, u) == Len(s) <= Len(u) /\ \A i \in 1..Len(s) : s[i] = u[i]

(* The smaller of two numbers. *)
LEMMA MinOfTwo ==
  ASSUME NEW a \in Nat, NEW b \in Nat
  PROVE  Min({a, b}) = IF a <= b THEN a ELSE b
<1> DEFINE m == IF a <= b THEN a ELSE b
<1>1. m \in {a, b} /\ \A y \in {a, b} : m <= y
  OBVIOUS
<1>2. \A x \in {a, b} : (\A y \in {a, b} : x <= y) => x = m
  OBVIOUS
<1> HIDE DEF m
<1>3. Min({a, b}) = m
  BY <1>1, <1>2 DEF Min
<1> QED  BY <1>3 DEF m

(* The least of a set of numbers. *)
LEMMA LeastOf ==
  ASSUME NEW S \in SUBSET Nat, NEW e \in S
  PROVE  Min(S) \in S /\ \A y \in S : Min(S) <= y
<1>1. \E n \in S : \A m \in S : n <= m
  BY Least
<1> QED  BY <1>1 DEF Min

(* What two strings with the same characters are. *)
LEMMA SameString ==
  ASSUME NEW a \in Str, NEW b \in Str, Len(a) = Len(b), \A i \in 1..Len(a) : a[i] = b[i]
  PROVE  a = b
BY SeqEqual DEF Str

(* substr(begin, num) *)
LEMMA SubstrFacts ==
  ASSUME NEW s \in Str, NEW b \in 0..Len(s), NEW n \in Nat
  PROVE  /\ Substr(s, b, n) \in Str
         /\ Len(Substr(s, b, n)) = IF b + n <= Len(s) THEN n ELSE Len(s) - b
         /\ \A i \in 1..Len(Substr(s, b, n)) : Substr(s, b, n)[i] = s[b + i]
<1> DEFINE e == IF b + n <= Len(s) THEN b + n ELSE Len(s)
<1>1. Len(s) \in Nat
  BY DEF Str
<1>2. Min({b + n, Len(s)}) = e
  BY <1>1, MinOfTwo
<1>3. Substr(s, b, n) = SubSeq(s, b + 1, e)
  BY <1>2 DEF Substr
<1>4. e \in Nat /\ e <= Len(s) /\ b <= e
  BY <1>1
<1> HIDE DEF e
<1>5. /\ SubSeq(s, b + 1, e) \in Seq(Nat) /\ Len(SubSeq(s, b + 1, e)) = e - b
      /\ \A i \in 1..e - b : SubSeq(s, b + 1, e)[i] = s[b + i]
  <2>1. b + 1 \in 1..Len(s) + 1 /\ e \in b..Len(s)
    BY <1>1, <1>4
  <2>2. s \in Seq(Nat)
    BY DEF Str
  <2>3. \A i \in b + 1..e : s[i] \in Nat
    BY <1>1, <1>4, <2>2
  <2>4. /\ SubSeq(s, b + 1, e) \in Seq(Nat)
        /\ Len(SubSeq(s, b + 1, e)) = IF b + 1 <= e THEN e - (b + 1) + 1 ELSE 0
        /\ \A i \in 1..e - (b + 1) + 1 : SubSeq(s, b + 1, e)[i] = s[b + 1 + i - 1]
    BY <2>2, <2>3, <2>1, <1>1, <1>4, SubSeqProperties
  <2>5. \A i \in 1..e - b : b + 1 + i - 1 = b + i
    BY <1>4
  <2>6. e - (b + 1) + 1 = e - b
    BY <1>4
  <2> QED  BY <2>1, <2>4, <2>5, <2>6, <1>4
<1> QED  BY <1>1, <1>3, <1>4, <1>5 DEF Str, e

(* Two strings in a row. *)
LEMMA Joined ==
  ASSUME NEW a \in Str, NEW b \in Str
  PROVE  /\ a \o b \in Str /\ Len(a \o b) = Len(a) + Len(b)
         /\ \A i \in 1..Len(a) : (a \o b)[i] = a[i]
         /\ \A i \in 1..Len(b) : (a \o b)[Len(a) + i] = b[i]
<1>1. a \in Seq(Nat) /\ b \in Seq(Nat) /\ Len(a) \in Nat /\ Len(b) \in Nat
  BY DEF Str
<1>2. /\ a \o b \in Seq(Nat) /\ Len(a \o b) = Len(a) + Len(b)
      /\ \A i \in 1..Len(a) + Len(b) : (a \o b)[i] = IF i <= Len(a) THEN a[i] ELSE b[i - Len(a)]
  BY <1>1, ConcatProperties
<1>3. \A i \in 1..Len(a) : i \in 1..Len(a) + Len(b) /\ i <= Len(a)
  BY <1>1
<1>4. \A i \in 1..Len(b) : /\ Len(a) + i \in 1..Len(a) + Len(b) /\ ~(Len(a) + i <= Len(a))
                           /\ Len(a) + i - Len(a) = i
  BY <1>1
<1> QED  BY <1>2, <1>3, <1>4 DEF Str

(* The characters two strings share. *)
LEMMA CommonFacts ==
  ASSUME NEW a \in Str, NEW b \in Str
  PROVE  /\ CommonLen(a, b) \in Nat /\ CommonLen(a, b) <= Len(a) /\ CommonLen(a, b) <= Len(b)
         /\ \A i \in 1..CommonLen(a, b) : a[i] = b[i]
         /\ CommonLen(a, b) < Len(a) /\ CommonLen(a, b) < Len(b)
              => a[CommonLen(a, b) + 1] # b[CommonLen(a, b) + 1]
<1>1. Len(a) \in Nat /\ Len(b) \in Nat
  BY DEF Str
<1> DEFINE len == IF Len(a) <= Len(b) THEN Len(a) ELSE Len(b)
           S == {i \in 1..len : a[i] # b[i]} \cup {len + 1}
           m == Min(S)
<1>2. Min({Len(a), Len(b)}) = len
  BY <1>1, MinOfTwo
<1>3. CommonLen(a, b) = m - 1
  BY <1>2 DEF CommonLen
<1>4. len \in Nat /\ len <= Len(a) /\ len <= Len(b) /\ (len = Len(a) \/ len = Len(b))
  BY <1>1
<1> HIDE DEF len
<1>5. S \in SUBSET Nat /\ len + 1 \in S
  BY <1>4
<1>6. m \in S /\ \A y \in S : m <= y
  BY <1>5, LeastOf
<1>7. m \in 1..len + 1 /\ (m <= len => a[m] # b[m])
  BY <1>6, <1>4
<1>8. \A i \in 1..m - 1 : a[i] = b[i]
  <2> SUFFICES ASSUME NEW i \in 1..m - 1, a[i] # b[i]
               PROVE  FALSE
    OBVIOUS
  <2>1. i \in S
    BY <1>7, <1>4
  <2> QED  BY <2>1, <1>6, <1>7, <1>4
<1> HIDE DEF m, S
<1> QED  BY <1>1, <1>3, <1>4, <1>7, <1>8
-----------------------------------------------------------------------------
Recurses(f, D, stop, val, next) ==
  f = [x \in D |-> IF stop[x] THEN val[x] ELSE f[next[x]]]

(* A function by recursion that ends: from x it goes on at next[x], whose  *)
(* rank is lower, or stops with val[x].                                    *)
LEMMA Recursion ==
  ASSUME NEW D, NEW stop, NEW val, NEW next, NEW rank \in [D -> Nat],
         \A x \in D : ~stop[x] => next[x] \in D /\ rank[next[x]] < rank[x]
  PROVE  \E f : Recurses(f, D, stop, val, next)
<1> DEFINE Upto(k) == {x \in D : rank[x] < k}
           Fits(f, k) == f = [x \in Upto(k) |-> IF stop[x] THEN val[x] ELSE f[next[x]]]
           Bad == {k \in Nat : ~\E f : Fits(f, k)}
<1>1. Bad = {}
  <2> SUFFICES ASSUME Bad # {} PROVE FALSE
    OBVIOUS
  <2>1. PICK k \in Bad : \A m \in Bad : k <= m
    <3>1. Bad \subseteq Nat
      OBVIOUS
    <3> HIDE DEF Bad
    <3> QED  BY <3>1, Least
  <2>2. k # 0
    <3>1. Upto(0) = {}
      OBVIOUS
    <3> DEFINE f == [x \in {} |-> 0]
    <3>2. Fits(f, 0)
      BY <3>1
    <3> QED  BY <3>2, <2>1
  <2>3. k - 1 \in Nat /\ k - 1 \notin Bad
    <3>1. k \in Nat
      BY <2>1
    <3> HIDE DEF Bad
    <3> QED  BY <3>1, <2>1, <2>2
  <2>4. PICK f : Fits(f, k - 1)
    BY <2>3
  <2> DEFINE g == [x \in Upto(k) |-> IF stop[x] THEN val[x] ELSE f[next[x]]]
  <2>5. \A x \in Upto(k - 1) : g[x] = f[x]
    <3>1. \A x \in Upto(k - 1) : x \in Upto(k)
      BY <2>1
    <3>2. \A x \in Upto(k - 1) : f[x] = IF stop[x] THEN val[x] ELSE f[next[x]]
      BY <2>4, Zenon
    <3> QED  BY <3>1, <3>2
  <2>6. \A x \in Upto(k) : ~stop[x] => next[x] \in Upto(k - 1)
    BY <2>1
  <2>7. Fits(g, k)
    <3>1. \A x \in Upto(k) : ~stop[x] => g[next[x]] = f[next[x]]
      BY <2>5, <2>6
    <3> QED  BY <3>1, Zenon
  <2> QED  BY <2>7, <2>1
<1>2. \A k \in Nat : \E f : Fits(f, k)
  BY <1>1
<1> DEFINE F == [k \in Nat |-> CHOOSE f : Fits(f, k)]
<1>3. \A k \in Nat : Fits(F[k], k)
  <2> HIDE DEF Fits
  <2> QED  BY <1>2
<1>4. \A k \in Nat : \A x \in Upto(k) :
        F[k][x] = IF stop[x] THEN val[x] ELSE F[k][next[x]]
  <2> HIDE DEF F
  <2> TAKE k \in Nat
  <2> TAKE x \in Upto(k)
  <2>1. Fits(F[k], k)
    BY <1>3
  <2> DEFINE G == F[k]
  <2>2. Fits(G, k)
    BY <2>1
  <2> HIDE DEF G
  <2>3. G[x] = IF stop[x] THEN val[x] ELSE G[next[x]]
    BY <2>2, Zenon
  <2> QED  BY <2>3 DEF G
<1> HIDE DEF F
<1>5. \A x \in D : \A j, k \in Nat : rank[x] < j /\ rank[x] < k => F[j][x] = F[k][x]
  <2> DEFINE Odd == {rank[x] : x \in {y \in D : \E j, k \in Nat : /\ rank[y] < j /\ rank[y] < k
                                                                 /\ F[j][y] # F[k][y]}}
  <2>1. Odd = {}
    <3> SUFFICES ASSUME Odd # {} PROVE FALSE
      OBVIOUS
    <3>1. PICK r \in Odd : \A m \in Odd : r <= m
      <4>1. Odd \subseteq Nat
        OBVIOUS
      <4> HIDE DEF Odd
      <4> QED  BY <4>1, Least
    <3>2. PICK x \in D, j \in Nat, k \in Nat :
            rank[x] = r /\ rank[x] < j /\ rank[x] < k /\ F[j][x] # F[k][x]
      BY <3>1
    <3>3. /\ F[j][x] = IF stop[x] THEN val[x] ELSE F[j][next[x]]
          /\ F[k][x] = IF stop[x] THEN val[x] ELSE F[k][next[x]]
      BY <3>2, <1>4
    <3>4. ~stop[x] /\ next[x] \in D /\ rank[next[x]] < rank[x] /\ F[j][next[x]] # F[k][next[x]]
      BY <3>2, <3>3
    <3>5. rank[next[x]] \in Nat /\ rank[x] \in Nat
      BY <3>4
    <3>6. rank[next[x]] < j /\ rank[next[x]] < k
      BY <3>2, <3>4, <3>5
    <3>7. rank[next[x]] \in Odd
      BY <3>4, <3>6
    <3>8. r <= rank[next[x]]
      BY <3>7, <3>1
    <3> QED  BY <3>2, <3>4, <3>5, <3>8
  <2> QED  BY <2>1
<1> DEFINE h == [x \in D |-> F[rank[x] + 1][x]]
<1>6. \A x \in D : h[x] = IF stop[x] THEN val[x] ELSE h[next[x]]
  <2> TAKE x \in D
  <2>1. rank[x] + 1 \in Nat /\ x \in Upto(rank[x] + 1)
    OBVIOUS
  <2>2. h[x] = IF stop[x] THEN val[x] ELSE F[rank[x] + 1][next[x]]
    BY <2>1, <1>4
  <2>3. ASSUME ~stop[x] PROVE F[rank[x] + 1][next[x]] = h[next[x]]
    <3>1. /\ next[x] \in D /\ rank[next[x]] < rank[x]
          /\ rank[next[x]] \in Nat /\ rank[x] \in Nat
      BY <2>3
    <3>2. rank[next[x]] < rank[x] + 1 /\ rank[next[x]] < rank[next[x]] + 1
      BY <3>1
    <3>3. F[rank[x] + 1][next[x]] = F[rank[next[x]] + 1][next[x]]
      BY <3>1, <3>2, <1>5
    <3> QED  BY <3>1, <3>3
  <2> QED  BY <2>2, <2>3
<1>7. h = [x \in D |-> IF stop[x] THEN val[x] ELSE h[next[x]]]
  <2> DEFINE g == [x \in D |-> IF stop[x] THEN val[x] ELSE h[next[x]]]
  <2>1. \A x \in D : h[x] = g[x]
    BY <1>6
  <2> QED  BY <2>1
<1> QED  BY <1>7 DEF Recurses
-----------------------------------------------------------------------------
(* What a tree is. *)

Parent(t, n) == t[n].m_parent
Key(t, n) == t[n].m_key
Kid(t, n, l) == t[n].m_children[l]

Shaped(r) ==
  /\ r = [m_children |-> r.m_children, m_parent |-> r.m_parent, m_value |-> r.m_value,
          m_depth |-> r.m_depth, m_is_leaf |-> r.m_is_leaf, m_key |-> r.m_key]
  /\ r.m_children = [l \in DOMAIN r.m_children |-> r.m_children[l]]
  /\ DOMAIN r.m_children \subseteq Str

Heap(t) == /\ t = [n \in DOMAIN t |-> t[n]]
           /\ \A n \in DOMAIN t : n \in Address /\ Shaped(t[n])

(* Leaves are marked; a leaf holds its key and has nothing below it. *)
LeafOK(t, n) ==
  /\ t[n].m_is_leaf = n[2]
  /\ n[2] => /\ t[n].m_key = Nul /\ Labels(t, n) = {}
             /\ t[n].m_value = Pair(n[1], t[n].m_value.second)

(* A node is the child of its parent under its label, and stands for the   *)
(* parent's string with the label behind it.                               *)
Hangs(t, n) ==
  IF n = Root THEN /\ t[n].m_parent = NullNode /\ t[n].m_depth = 0 /\ t[n].m_key = Nul
  ELSE /\ Parent(t, n) \in DOMAIN t /\ ~Parent(t, n)[2]
       /\ Key(t, n) \in Labels(t, Parent(t, n))
       /\ Kid(t, Parent(t, n), Key(t, n)) = n
       /\ n[1] = Parent(t, n)[1] \o Key(t, n)
       /\ t[n].m_depth = Len(Parent(t, n)[1])
       /\ ~n[2] => Key(t, n) # Nul

(* The children of a node are filed under their labels, which differ in    *)
(* the first character.                                                    *)
Branches(t, n) ==
  /\ IsFiniteSet(Labels(t, n))
  /\ \A l \in Labels(t, n) :
       /\ Kid(t, n, l) \in DOMAIN t \ {Root}
       /\ Parent(t, Kid(t, n, l)) = n /\ Key(t, Kid(t, n, l)) = l
  /\ \A l1, l2 \in Labels(t, n) : l1 # l2 /\ l1 # Nul /\ l2 # Nul => l1[1] # l2[1]

Tree(t) ==
  /\ Heap(t) /\ Root \in DOMAIN t
  /\ \A n \in DOMAIN t : LeafOK(t, n) /\ Hangs(t, n) /\ Branches(t, n)

(* A node that is neither a branching nor the end of a key. *)
Bare(t, n) == /\ n # Root /\ ~n[2] /\ Labels(t, n) # {Nul}
              /\ \A l1, l2 \in Labels(t, n) : l1 = l2
-----------------------------------------------------------------------------
(* The only string without a character. *)
LEMMA NulString == Nul \in Str /\ Len(Nul) = 0 /\ \A s \in Str : Len(s) = 0 => s = Nul
<1>1. Nul \in Seq(Nat) /\ Len(Nul) = 0
  BY EmptySeq DEF Nul
<1>2. \A s \in Seq(Nat) : Len(s) = 0 => s = Nul
  BY EmptySeq DEF Nul
<1> QED  BY <1>1, <1>2 DEF Str

(* A string has a length, and characters up to there. *)
LEMMA StringLength == \A s \in Str : Len(s) \in Nat /\ \A i \in 1..Len(s) : s[i] \in Nat
BY DEF Str

(* An address is a string and a mark. *)
LEMMA AddressFacts ==
  /\ \A n \in Address : n[1] \in Str /\ n[2] \in BOOLEAN /\ n = <<n[1], n[2]>>
  /\ \A s \in Str, b \in BOOLEAN : <<s, b>> \in Address /\ <<s, b>>[1] = s /\ <<s, b>>[2] = b
  /\ Root \in Address /\ Root[1] = Nul /\ Root[2] = FALSE
<1>1. Nul \in Str
  BY NulString
<1>2. \A n \in Address : n[1] \in Str /\ n[2] \in BOOLEAN /\ n = <<n[1], n[2]>>
  BY DEF Address, Str
<1>3. \A s \in Str, b \in BOOLEAN : <<s, b>> \in Address /\ <<s, b>>[1] = s /\ <<s, b>>[2] = b
  BY DEF Address, Str
<1>4. Root \in Address /\ Root[1] = Nul /\ Root[2] = FALSE
  BY <1>1, <1>3 DEF Root
<1> QED  BY <1>2, <1>3, <1>4

(* What every node of a tree is. *)
LEMMA NodeFacts ==
  ASSUME NEW t, Tree(t), NEW n \in DOMAIN t
  PROVE  /\ n \in Address /\ n[1] \in Str /\ n[2] \in BOOLEAN /\ Shaped(t[n])
         /\ t[n].m_is_leaf = n[2] /\ (n[2] => t[n].m_key = Nul /\ Labels(t, n) = {})
         /\ Labels(t, n) \subseteq Str
<1>1. n \in Address /\ Shaped(t[n]) /\ LeafOK(t, n)
  BY DEF Tree, Heap
<1>2. n[1] \in Str /\ n[2] \in BOOLEAN
  BY <1>1, AddressFacts
<1> QED  BY <1>1, <1>2 DEF LeafOK, Shaped, Labels

(* What is known of the node n that p files under l. *)
Filed(t, p, l, n) ==
  /\ p \in DOMAIN t /\ n \in DOMAIN t /\ n # Root /\ ~p[2] /\ p[1] \in Str /\ n[1] \in Str
  /\ l \in Labels(t, p) /\ l \in Str /\ (n[2] <=> l = Nul)
  /\ Kid(t, p, l) = n /\ Parent(t, n) = p /\ Key(t, n) = l
  /\ t[n].m_depth = Len(p[1]) /\ Len(n[1]) = Len(p[1]) + Len(l)
  /\ n[1] = p[1] \o l /\ Begins(p[1], n[1])
  /\ \A i \in 1..Len(l) : n[1][Len(p[1]) + i] = l[i]

(* Every node but the root is filed with its parent, *)
LEMMA ParentFacts ==
  ASSUME NEW t, Tree(t), NEW n \in DOMAIN t, n # Root
  PROVE  Filed(t, Parent(t, n), Key(t, n), n)
<1> DEFINE p == Parent(t, n)
           k == Key(t, n)
<1>1. /\ p \in DOMAIN t /\ ~p[2] /\ k \in Labels(t, p) /\ Kid(t, p, k) = n
      /\ n[1] = p[1] \o k /\ t[n].m_depth = Len(p[1]) /\ (~n[2] => k # Nul)
  BY DEF Tree, Hangs
<1>2. p[1] \in Str /\ k \in Str /\ n[1] \in Str
  BY <1>1, NodeFacts
<1>3. n[2] \in BOOLEAN /\ (n[2] => k = Nul)
  BY NodeFacts DEF Key
<1>a. Parent(t, n) = p /\ Key(t, n) = k
  OBVIOUS
<1> HIDE DEF p, k
<1>4. /\ Len(p[1] \o k) = Len(p[1]) + Len(k)
      /\ \A i \in 1..Len(p[1]) : (p[1] \o k)[i] = p[1][i]
      /\ \A i \in 1..Len(k) : (p[1] \o k)[Len(p[1]) + i] = k[i]
  BY <1>2, Joined
<1>5. Len(p[1]) \in Nat /\ Len(k) \in Nat
  BY <1>2, StringLength
<1>6. Begins(p[1], n[1])
  BY <1>1, <1>4, <1>5 DEF Begins
<1> QED  BY <1>a, <1>1, <1>2, <1>3, <1>4, <1>6 DEF Filed

(* and so is whatever is found under a label. *)
LEMMA KidFacts ==
  ASSUME NEW t, Tree(t), NEW n \in DOMAIN t, NEW l \in Labels(t, n)
  PROVE  Filed(t, n, l, Kid(t, n, l))
<1> DEFINE c == Kid(t, n, l)
<1>1. c \in DOMAIN t /\ c # Root /\ Parent(t, c) = n /\ Key(t, c) = l
  BY DEF Tree, Branches
<1> HIDE DEF c
<1>2. Filed(t, Parent(t, c), Key(t, c), c)
  BY <1>1, ParentFacts
<1> QED  BY <1>1, <1>2 DEF c
-----------------------------------------------------------------------------
(* Beginnings of strings. *)

(* To begin a string is an order, *)
LEMMA BeginsTransitive ==
  ASSUME NEW a \in Str, NEW b \in Str, NEW c \in Str, Begins(a, b), Begins(b, c)
  PROVE  Begins(a, c)
<1>1. Len(a) \in Nat /\ Len(b) \in Nat /\ Len(c) \in Nat
  BY StringLength
<1> QED  BY <1>1 DEF Begins

(* total among the beginnings of one string, *)
LEMMA BeginsBoth ==
  ASSUME NEW a \in Str, NEW b \in Str, NEW c \in Str, Begins(a, c), Begins(b, c),
         Len(a) <= Len(b)
  PROVE  Begins(a, b)
<1>1. Len(a) \in Nat /\ Len(b) \in Nat /\ Len(c) \in Nat
  BY StringLength
<1> QED  BY <1>1 DEF Begins

(* antisymmetric, *)
LEMMA BeginsSame ==
  ASSUME NEW a \in Str, NEW b \in Str, Begins(a, b), Len(a) >= Len(b)
  PROVE  a = b
<1>1. Len(a) \in Nat /\ Len(b) \in Nat
  BY StringLength
<1>2. Len(a) = Len(b) /\ \A i \in 1..Len(a) : a[i] = b[i]
  BY <1>1 DEF Begins
<1> QED  BY <1>2, SameString

(* and reflexive. *)
LEMMA BeginsItself == \A a \in Str : Begins(a, a)
<1> QED  BY StringLength DEF Begins

(* Siblings with the same first character are the same. *)
LEMMA OneSibling ==
  ASSUME NEW t, Tree(t), NEW p, NEW k, NEW l, NEW n, NEW m,
         Filed(t, p, k, n), Filed(t, p, l, m), k # Nul, l # Nul, k[1] = l[1]
  PROVE  k = l /\ n = m
<1>1. /\ p \in DOMAIN t /\ k \in Labels(t, p) /\ l \in Labels(t, p)
      /\ Kid(t, p, k) = n /\ Kid(t, p, l) = m
  BY DEF Filed
<1>2. Branches(t, p)
  BY <1>1 DEF Tree
<1>3. k = l
  BY <1>1, <1>2 DEF Branches
<1> QED  BY <1>1, <1>3

(* Parents come before their children. *)
Rank(n) == IF n[2] THEN 2 * Len(n[1]) + 1 ELSE 2 * Len(n[1])

(* The rank grows on the way down, *)
LEMMA RankFalls ==
  ASSUME NEW t, NEW p, NEW l, NEW n, Filed(t, p, l, n)
  PROVE  Rank(p) \in Nat /\ Rank(n) \in Nat /\ Rank(p) < Rank(n)
<1>1. /\ p[1] \in Str /\ n[1] \in Str /\ l \in Str /\ ~p[2]
      /\ (n[2] <=> l = Nul) /\ Len(n[1]) = Len(p[1]) + Len(l)
  BY DEF Filed
<1>2. Len(p[1]) \in Nat /\ Len(l) \in Nat /\ (l # Nul => Len(l) # 0)
  BY <1>1, StringLength, NulString
<1> QED  BY <1>1, <1>2 DEF Rank

(* from a number. *)
LEMMA RankNat ==
  ASSUME NEW t, Tree(t), NEW n \in DOMAIN t
  PROVE  Rank(n) \in Nat
<1>1. n[1] \in Str
  BY NodeFacts
<1>2. Len(n[1]) \in Nat
  BY <1>1, StringLength
<1> QED  BY <1>2 DEF Rank

(* Whatever extends the string of p is reached through a child of p. *)
Extends(p, x) == /\ ~p[2] /\ Begins(p[1], x[1])
                 /\ Len(x[1]) > Len(p[1]) \/ x[2]

Leads(t, p, l, x) == /\ l \in Labels(t, p) /\ Begins(Kid(t, p, l)[1], x[1])
                     /\ Kid(t, p, l) = x \/ ~Kid(t, p, l)[2]

(* The way down to a node never ends before it. *)
LEMMA TowardNode ==
  ASSUME NEW t, Tree(t)
  PROVE  \A p, x \in DOMAIN t : Extends(p, x) => \E l : Leads(t, p, l, x)
<1> DEFINE Stuck(p, x) == Extends(p, x) /\ ~\E l : Leads(t, p, l, x)
           Bad == {Len(p[1]) : p \in {q \in DOMAIN t : \E x \in DOMAIN t : Stuck(q, x)}}
<1>1. \A n \in DOMAIN t : n[1] \in Str /\ n[2] \in BOOLEAN /\ Len(n[1]) \in Nat /\ n \in Address
  BY NodeFacts, StringLength
<1> SUFFICES ASSUME Bad # {} PROVE FALSE
  OBVIOUS
<1>2. PICK b \in Bad : \A m \in Bad : b <= m
  <2>1. Bad \subseteq Nat
    BY <1>1
  <2> HIDE DEF Bad
  <2> QED  BY <2>1, Least
<1>3. PICK p \in DOMAIN t, x \in DOMAIN t : Stuck(p, x) /\ b = Len(p[1])
  BY <1>2
<1>4. \A q, z \in DOMAIN t : Len(q[1]) < Len(p[1]) => ~Stuck(q, z)
  <2> SUFFICES ASSUME NEW q \in DOMAIN t, NEW z \in DOMAIN t, Len(q[1]) < Len(p[1]), Stuck(q, z)
               PROVE  FALSE
    OBVIOUS
  <2>1. Len(q[1]) \in Bad
    OBVIOUS
  <2>2. Len(p[1]) <= Len(q[1])
    BY <2>1, <1>2, <1>3
  <2> QED  BY <2>2, <1>1
<1> HIDE DEF Bad
<1>5. Extends(p, x) /\ ~\E l : Leads(t, p, l, x)
  BY <1>3
<1> DEFINE A == {y \in DOMAIN t : /\ Begins(y[1], x[1])
                                  /\ y = x \/ (~y[2] /\ Len(y[1]) > Len(p[1]))}
           R == {Rank(y) : y \in A}
<1>6. x \in A
  BY <1>1, BeginsItself
<1>7. PICK r \in R : \A m \in R : r <= m
  <2>1. R \subseteq Nat
    BY RankNat
  <2>2. R # {}
    BY <1>6
  <2> HIDE DEF R
  <2> QED  BY <2>1, <2>2, Least
<1>8. PICK y \in A : \A z \in A : Rank(y) <= Rank(z)
  BY <1>7
<1>9. y # Root
  <2> SUFFICES ASSUME y = Root PROVE FALSE
    OBVIOUS
  <2>1. Len(y[1]) = 0 /\ ~y[2]
    BY AddressFacts, NulString
  <2>2. (Len(x[1]) = 0 /\ ~x[2]) \/ 0 > Len(p[1])
    BY <2>1
  <2> QED  BY <2>2, <1>1, <1>5 DEF Extends
<1> DEFINE q == Parent(t, y)
           k == Key(t, y)
<1>10. Filed(t, q, k, y)
  BY <1>9, ParentFacts
<1> HIDE DEF q, k
<1>11. Begins(q[1], x[1]) /\ q \in DOMAIN t /\ ~q[2]
  <2>1. Begins(q[1], y[1]) /\ q[1] \in Str /\ y[1] \in Str /\ q \in DOMAIN t /\ ~q[2]
    BY <1>10 DEF Filed
  <2> QED  BY <2>1, <1>1, BeginsTransitive
<1>12. Len(q[1]) <= Len(p[1])
  <2> SUFFICES ASSUME Len(q[1]) > Len(p[1]) PROVE FALSE
    BY <1>11, <1>1
  <2>1. q \in A
    BY <1>11
  <2>2. Rank(y) <= Rank(q)
    BY <2>1, <1>8
  <2> QED  BY <2>2, <1>10, RankFalls
<1>13. Begins(q[1], p[1])
  BY <1>12, <1>11, <1>5, <1>1, BeginsBoth DEF Extends
<1>14. CASE Len(q[1]) = Len(p[1])
  <2>1. q[1] = p[1]
    BY <1>14, <1>13, <1>11, <1>1, BeginsSame
  <2>2. q = p
    BY <2>1, <1>11, <1>1, <1>5, AddressFacts DEF Extends
  <2>3. k \in Labels(t, p) /\ Kid(t, p, k) = y
    BY <2>2, <1>10 DEF Filed
  <2>4. Leads(t, p, k, x)
    BY <2>3 DEF Leads
  <2> QED  BY <2>4, <1>5
<1>15. CASE Len(q[1]) < Len(p[1])
  <2>1. Extends(q, p)
    BY <1>15, <1>13, <1>11 DEF Extends
  <2>2. PICK l : Leads(t, q, l, p)
    BY <2>1, <1>4, <1>11, <1>15
  <2> DEFINE c == Kid(t, q, l)
  <2>3. Begins(c[1], p[1]) /\ ~c[2] /\ l \in Labels(t, q)
    BY <2>2, <1>5 DEF Leads, Extends
  <2>4. Filed(t, q, l, c)
    BY <2>3, <1>11, KidFacts
  <2> HIDE DEF c
  <2>5. l # Nul /\ l \in Str /\ Len(l) # 0 /\ c[1] \in Str /\ c \in DOMAIN t
    BY <2>3, <2>4, NulString DEF Filed
  <2>6. k # Nul
    <3> SUFFICES ASSUME k = Nul PROVE FALSE
      OBVIOUS
    <3>1. y[2] /\ Len(y[1]) = Len(q[1]) + 0
      BY <1>10, NulString DEF Filed
    <3>2. y = x
      BY <3>1, <1>1
    <3>3. Len(p[1]) <= Len(x[1])
      BY <1>5 DEF Extends, Begins
    <3> QED  BY <3>1, <3>2, <3>3, <1>15, <1>11, <1>1
  <2>7. k[1] = x[1][Len(q[1]) + 1]
    <3>1. k \in Str /\ y[1][Len(q[1]) + 1] = k[1] /\ Len(y[1]) = Len(q[1]) + Len(k) /\ Len(k) # 0
      <4>1. k \in Str /\ Len(k) # 0 /\ Len(k) \in Nat
        BY <1>10, <2>6, NulString, StringLength DEF Filed
      <4>2. 1 \in 1..Len(k)
        BY <4>1
      <4> QED  BY <4>1, <4>2, <1>10 DEF Filed
    <3>2. Len(k) \in Nat /\ Len(q[1]) \in Nat /\ y \in DOMAIN t
      BY <3>1, <1>1, <1>11, StringLength
    <3>3. Len(q[1]) + 1 \in 1..Len(y[1])
      BY <3>1, <3>2
    <3> QED  BY <3>1, <3>3 DEF Begins
  <2>8. l[1] = x[1][Len(q[1]) + 1] /\ Len(c[1]) <= Len(p[1])
    <3>1. c[1][Len(q[1]) + 1] = l[1] /\ Len(c[1]) = Len(q[1]) + Len(l)
      <4>1. Len(l) \in Nat
        BY <2>5, StringLength
      <4>2. 1 \in 1..Len(l)
        BY <2>5, <4>1
      <4> QED  BY <4>2, <2>4 DEF Filed
    <3>2. Len(l) \in Nat /\ Len(q[1]) \in Nat
      BY <2>5, <1>1, <1>11, StringLength
    <3>3. Len(q[1]) + 1 \in 1..Len(c[1])
      BY <3>1, <3>2, <2>5
    <3>4. Begins(c[1], x[1])
      BY <2>3, <2>5, <1>5, <1>1, BeginsTransitive DEF Extends
    <3> QED  BY <3>1, <3>3, <3>4, <2>3 DEF Begins
  <2>9. y = c
    BY <2>4, <2>5, <2>6, <2>7, <2>8, <1>10, OneSibling
  <2>10. y = x /\ Len(x[1]) <= Len(p[1]) /\ ~x[2]
    BY <2>9, <2>8, <2>3, <1>1
  <2> QED  BY <2>10, <1>5, <1>1 DEF Extends
<1> QED  BY <1>12, <1>14, <1>15, <1>11, <1>1
-----------------------------------------------------------------------------
(* find_node() *)

(* First() of a map with one label. *)
LEMMA FirstOfOne == \A l : First({l}) = l
BY DEF First

(* There is at most one child to go on at. *)
LEMMA HitsFacts ==
  ASSUME NEW t, Tree(t), NEW key \in Str, NEW n \in DOMAIN t, ~n[2], NEW d \in Nat,
         Hits(t, key, n, d) # {}
  PROVE  \E l : /\ First(Hits(t, key, n, d)) = l /\ Filed(t, n, l, Kid(t, n, l))
                /\ Len(key) = d => l = Nul
                /\ Len(key) # d => l # Nul /\ l[1] = key[d + 1]
<1> DEFINE H == Hits(t, key, n, d)
<1>1. \A l \in Labels(t, n) : /\ Filed(t, n, l, Kid(t, n, l))
                              /\ t[t[n].m_children[l]].m_is_leaf <=> l = Nul
  <2> TAKE l \in Labels(t, n)
  <2>1. Filed(t, n, l, Kid(t, n, l))
    BY KidFacts
  <2>2. Kid(t, n, l) \in DOMAIN t /\ (Kid(t, n, l)[2] <=> l = Nul)
    BY <2>1 DEF Filed
  <2>3. t[Kid(t, n, l)].m_is_leaf = Kid(t, n, l)[2]
    BY <2>2, NodeFacts
  <2> QED  BY <2>1, <2>2, <2>3 DEF Kid
<1>2. \A l \in H : /\ l \in Labels(t, n)
                   /\ Len(key) = d => l = Nul
                   /\ Len(key) # d => l # Nul /\ l[1] = key[d + 1]
  BY <1>1 DEF Hits
<1>3. PICK l : l \in H
  OBVIOUS
<1>4. \A k \in H : k = l
  <2> TAKE k \in H
  <2>1. Filed(t, n, l, Kid(t, n, l)) /\ Filed(t, n, k, Kid(t, n, k))
    BY <1>1, <1>2, <1>3
  <2> QED  BY <2>1, <1>2, <1>3, OneSibling
<1>5. H = {l}
  BY <1>3, <1>4
<1>6. First(H) = l
  BY <1>5, FirstOfOne
<1> HIDE DEF H
<1>7. Filed(t, n, l, Kid(t, n, l))
  BY <1>1, <1>2, <1>3
<1> QED  BY <1>2, <1>3, <1>6, <1>7 DEF H

(* One call of find_node() *)
GoesOn(t, key, n, d) ==
  /\ Hits(t, key, n, d) # {} /\ Len(key) > d
  /\ Substr(key, d, Len(First(Hits(t, key, n, d)))) = First(Hits(t, key, n, d))

Answers(t, key, n, d) ==
  IF Hits(t, key, n, d) = {} THEN n ELSE Kid(t, n, First(Hits(t, key, n, d)))

Turns(t, key, f) ==
  \A n \in DOMAIN t, d \in Nat :
    f[<<n, d>>] = IF GoesOn(t, key, n, d)
                  THEN f[<<Kid(t, n, First(Hits(t, key, n, d))),
                           d + Len(First(Hits(t, key, n, d)))>>]
                  ELSE Answers(t, key, n, d)

(* find_node() as a function that calls itself. *)
LEMMA FindTurns ==
  ASSUME NEW t, Tree(t), NEW key \in Str
  PROVE  \E f : Turns(t, key, f) /\ FindNode(t, key) = f[<<Root, 0>>]
<1> DEFINE D == (DOMAIN t) \X Nat
           stop == [x \in D |-> ~GoesOn(t, key, x[1], x[2])]
           val == [x \in D |-> Answers(t, key, x[1], x[2])]
           next == [x \in D |-> <<Kid(t, x[1], First(Hits(t, key, x[1], x[2]))),
                                  x[2] + Len(First(Hits(t, key, x[1], x[2])))>>]
           rank == [x \in D |-> IF x[2] <= Len(key) THEN Len(key) - x[2] ELSE 0]
           Fits(f) == Recurses(f, D, stop, val, next)
<1>1. Len(key) \in Nat
  BY StringLength
<1>2. rank \in [D -> Nat]
  BY <1>1
<1>3. ASSUME NEW x \in D, ~stop[x] PROVE next[x] \in D /\ rank[next[x]] < rank[x]
  <2> DEFINE n == x[1]
             d == x[2]
             l == First(Hits(t, key, n, d))
  <2>1. n \in DOMAIN t /\ d \in Nat /\ GoesOn(t, key, n, d)
    BY <1>3
  <2>2. Hits(t, key, n, d) # {} /\ Len(key) > d /\ Substr(key, d, Len(l)) = l
    BY <2>1 DEF GoesOn
  <2> HIDE DEF n, d
  <2>3. Labels(t, n) # {} /\ n[2] \in BOOLEAN
    BY <2>1, <2>2, NodeFacts DEF Hits
  <2>4. ~n[2]
    BY <2>1, <2>3, NodeFacts
  <2>5. l \in Str /\ Kid(t, n, l) \in DOMAIN t /\ l # Nul
    BY <2>1, <2>2, <2>4, HitsFacts, <1>1 DEF Filed
  <2> HIDE DEF l
  <2>6. Len(l) \in Nat /\ Len(l) # 0
    BY <2>5, StringLength, NulString
  <2>7. d + Len(l) <= Len(key)
    <3>1. d \in 0..Len(key)
      BY <2>1, <2>2, <1>1
    <3>2. Len(l) = IF d + Len(l) <= Len(key) THEN Len(l) ELSE Len(key) - d
      BY <3>1, <2>2, <2>6, SubstrFacts
    <3> QED  BY <3>2, <2>1, <2>2, <2>6, <1>1
  <2>8. next[x] = <<Kid(t, n, l), d + Len(l)>>
    BY DEF n, d, l
  <2>9. next[x] \in D /\ next[x][2] = d + Len(l)
    BY <2>8, <2>5, <2>6, <2>1
  <2>10. rank[x] = Len(key) - d
    BY <2>2, <2>1, <1>1 DEF d
  <2>11. rank[next[x]] = Len(key) - (d + Len(l))
    BY <2>7, <2>9
  <2> HIDE DEF next, rank
  <2> QED  BY <2>9, <2>10, <2>11, <2>6, <2>7, <2>1, <1>1
<1> HIDE DEF stop, val, next, rank
<1>4. \E f : Fits(f)
  <2> HIDE DEF D
  <2>1. \A x \in D : ~stop[x] => next[x] \in D /\ rank[next[x]] < rank[x]
    BY <1>3
  <2> QED  BY <1>2, <2>1, Recursion
<1>5. ASSUME NEW f, Fits(f) PROVE Turns(t, key, f)
  <2> SUFFICES ASSUME NEW n \in DOMAIN t, NEW d \in Nat
               PROVE  f[<<n, d>>] = IF GoesOn(t, key, n, d)
                  THEN f[<<Kid(t, n, First(Hits(t, key, n, d))),
                           d + Len(First(Hits(t, key, n, d)))>>]
                  ELSE Answers(t, key, n, d)
    BY DEF Turns
  <2> DEFINE x == <<n, d>>
  <2>1. x \in D /\ x[1] = n /\ x[2] = d
    OBVIOUS
  <2> HIDE DEF x
  <2>2. f[x] = IF stop[x] THEN val[x] ELSE f[next[x]]
    <3> HIDE DEF D
    <3> QED  BY <1>5, <2>1, Zenon DEF Recurses
  <2> QED  BY <2>1, <2>2 DEF stop, val, next, x
<1>6. PICK f : Fits(f) /\ FindNode(t, key) = f[<<Root, 0>>]
  <2> DEFINE Walks(f) == f = [call \in D |->
               LET n == call[1]
                   depth == call[2]
                   hits == Hits(t, key, n, depth)
                   l1 == First(hits)
                   child == t[n].m_children[l1]
               IN  IF hits = {} THEN n
                   ELSE IF Len(key) > depth /\ Substr(key, depth, Len(l1)) = l1
                        THEN f[<<child, depth + Len(l1)>>]
                        ELSE child]
  <2>1. ASSUME NEW f PROVE Walks(f) <=> Fits(f)
    <3>1. \A x \in D :
            (IF stop[x] THEN val[x] ELSE f[next[x]])
            = LET n == x[1]
                  depth == x[2]
                  hits == Hits(t, key, n, depth)
                  l1 == First(hits)
                  child == t[n].m_children[l1]
              IN  IF hits = {} THEN n
                  ELSE IF Len(key) > depth /\ Substr(key, depth, Len(l1)) = l1
                       THEN f[<<child, depth + Len(l1)>>]
                       ELSE child
      BY DEF stop, val, next, GoesOn, Answers, Kid
    <3> QED  BY <3>1, Zenon DEF Recurses
  <2> DEFINE F == CHOOSE f : Walks(f)
  <2>2. Walks(F)
    <3> HIDE DEF Walks, Fits
    <3> QED  BY <1>4, <2>1
  <2>3. FindNode(t, key) = F[<<Root, 0>>]
    BY DEF FindNode
  <2>4. Fits(F)
    <3> HIDE DEF Walks, Fits, F
    <3> QED  BY <2>1, <2>2
  <2> HIDE DEF Fits, F
  <2> QED  BY <2>3, <2>4
<1> QED  BY <1>5, <1>6
(* Where find_node() ends: at the leaf for key; at a node whose string key *)
(* begins with and which has no child to go on at; or at a child whose     *)
(* label parts from key behind its first character.                        *)
FoundLeaf(t, key, n) == n \in DOMAIN t /\ n[2] /\ n[1] = key

FoundEnd(t, key, n) ==
  /\ n \in DOMAIN t /\ ~n[2] /\ Begins(n[1], key)
  /\ Hits(t, key, n, Len(n[1])) = {}

FoundFork(t, key, n) ==
  /\ n \in DOMAIN t /\ ~n[2] /\ n # Root /\ ~Begins(n[1], key)
  /\ Begins(Parent(t, n)[1], key) /\ Len(Parent(t, n)[1]) < Len(key)
  /\ Key(t, n)[1] = key[Len(Parent(t, n)[1]) + 1]

Found(t, key, n) == FoundLeaf(t, key, n) \/ FoundEnd(t, key, n) \/ FoundFork(t, key, n)

(* A child begins key if its label is what key goes on with. *)
LEMMA BeginsByLabel ==
  ASSUME NEW t, NEW n, NEW l, NEW c, Filed(t, n, l, c), NEW key \in Str,
         Begins(n[1], key), Len(key) > Len(n[1])
  PROVE  Begins(c[1], key) <=> Substr(key, Len(n[1]), Len(l)) = l
<1>1. /\ n[1] \in Str /\ c[1] \in Str /\ l \in Str /\ Len(c[1]) = Len(n[1]) + Len(l)
      /\ Begins(n[1], c[1])
      /\ \A i \in 1..Len(l) : c[1][Len(n[1]) + i] = l[i]
  BY DEF Filed
<1> DEFINE d == Len(n[1])
           e == Len(l)
           s == Substr(key, d, e)
<1>2. d \in Nat /\ e \in Nat /\ Len(key) \in Nat /\ d \in 0..Len(key)
  BY <1>1, StringLength
<1>3. /\ s \in Str /\ Len(s) = IF d + e <= Len(key) THEN e ELSE Len(key) - d
      /\ \A i \in 1..Len(s) : s[i] = key[d + i]
  BY <1>2, SubstrFacts
<1>4. ASSUME Begins(c[1], key) PROVE s = l
  <2>1. d + e <= Len(key) /\ \A i \in 1..d + e : c[1][i] = key[i]
    BY <1>4, <1>1 DEF Begins
  <2>2. Len(s) = e
    BY <2>1, <1>3
  <2> HIDE DEF d, e, s
  <2>3. \A i \in 1..e : d + i \in 1..d + e
    BY <1>2
  <2>4. \A i \in 1..e : s[i] = l[i]
    BY <2>1, <2>2, <2>3, <1>1, <1>3 DEF d, e
  <2> QED  BY <2>2, <2>4, <1>1, <1>3, SameString DEF e
<1>5. ASSUME s = l PROVE Begins(c[1], key)
  <2>1. Len(s) = e
    BY <1>5
  <2>2. d + e <= Len(key)
    <3>1. e = IF d + e <= Len(key) THEN e ELSE Len(key) - d
      BY <2>1, <1>3
    <3> HIDE DEF d, e, s
    <3> QED  BY <3>1, <1>2
  <2>3. \A i \in 1..e : c[1][d + i] = key[d + i]
    BY <1>1, <1>3, <1>5
  <2>4. \A i \in 1..d : c[1][i] = key[i]
    BY <1>1 DEF Begins
  <2> HIDE DEF d, e, s
  <2>5. \A i \in 1..d + e : c[1][i] = key[i]
    <3> TAKE i \in 1..d + e
    <3>1. CASE i <= d
      BY <3>1, <2>4, <1>2
    <3>2. CASE i > d
      <4>1. i - d \in 1..e /\ d + (i - d) = i
        BY <3>2, <1>2
      <4> QED  BY <4>1, <2>3
    <3> QED  BY <3>1, <3>2, <1>2
  <2> QED  BY <2>2, <2>5, <1>1 DEF Begins, d, e
<1> QED  BY <1>4, <1>5

(* find_node() stops at the leaf, at the end of the way, or at a fork. *)
LEMMA FindFound ==
  ASSUME NEW t, Tree(t), NEW key \in Str
  PROVE  Found(t, key, FindNode(t, key))
<1>1. PICK f : Turns(t, key, f) /\ FindNode(t, key) = f[<<Root, 0>>]
  BY FindTurns
<1> DEFINE Good(n) == Found(t, key, f[<<n, Len(n[1])>>])
           Starts == {n \in DOMAIN t : ~n[2] /\ Begins(n[1], key)}
           Bad == {Len(key) - Len(n[1]) : n \in {m \in Starts : ~Good(m)}}
<1>2. \A n \in Starts : Len(n[1]) \in Nat /\ n[1] \in Str /\ Len(n[1]) <= Len(key)
  BY NodeFacts, StringLength DEF Begins
<1>3. Len(key) \in Nat
  BY StringLength
<1>4. Bad = {}
  <2> SUFFICES ASSUME Bad # {} PROVE FALSE
    OBVIOUS
  <2>1. PICK r \in Bad : \A m \in Bad : r <= m
    <3>1. Bad \subseteq Nat
      <4>1. \A n \in Starts : Len(key) - Len(n[1]) \in Nat
        BY <1>2, <1>3
      <4> HIDE DEF Starts, Good
      <4> QED  BY <4>1
    <3> HIDE DEF Bad
    <3> QED  BY <3>1, Least
  <2>2. PICK n \in Starts : ~Good(n) /\ r = Len(key) - Len(n[1])
    BY <2>1
  <2>3. \A m \in Starts : Len(m[1]) > Len(n[1]) => Good(m)
    <3> SUFFICES ASSUME NEW m \in Starts, Len(m[1]) > Len(n[1]), ~Good(m)
                 PROVE  FALSE
      OBVIOUS
    <3>1. Len(key) - Len(m[1]) \in Bad
      OBVIOUS
    <3>2. Len(key) - Len(n[1]) <= Len(key) - Len(m[1])
      BY <3>1, <2>1, <2>2
    <3> QED  BY <3>2, <1>2, <1>3
  <2> HIDE DEF Bad
  <2> DEFINE d == Len(n[1])
             H == Hits(t, key, n, d)
             l == First(H)
             c == Kid(t, n, l)
  <2>4. d \in Nat /\ d <= Len(key) /\ n \in DOMAIN t /\ ~n[2] /\ Begins(n[1], key) /\ n[1] \in Str
    BY <1>2
  <2>5. f[<<n, d>>] = IF GoesOn(t, key, n, d) THEN f[<<c, d + Len(l)>>]
                      ELSE Answers(t, key, n, d)
    BY <1>1, <2>4 DEF Turns
  <2>6. ~Found(t, key, f[<<n, d>>])
    BY <2>2
  <2>7. H # {}
    <3> SUFFICES ASSUME H = {} PROVE FALSE
      OBVIOUS
    <3>1. f[<<n, d>>] = n
      BY <2>5 DEF GoesOn, Answers
    <3> QED  BY <3>1, <2>4, <2>6 DEF Found, FoundEnd
  <2>8. /\ Filed(t, n, l, c)
        /\ Len(key) = d => l = Nul
        /\ Len(key) # d => l # Nul /\ l[1] = key[d + 1]
    BY <2>4, <2>7, HitsFacts
  <2>9. Answers(t, key, n, d) = c
    BY <2>7 DEF Answers
  <2>10. GoesOn(t, key, n, d) <=> (Len(key) > d /\ Substr(key, d, Len(l)) = l)
    BY <2>7 DEF GoesOn
  <2> HIDE DEF H, l, c
  <2>11. /\ c \in DOMAIN t /\ c # Root /\ c[1] \in Str /\ l \in Str /\ (c[2] <=> l = Nul)
         /\ Parent(t, c) = n /\ Key(t, c) = l /\ Len(c[1]) = d + Len(l) /\ Begins(n[1], c[1])
    BY <2>8 DEF Filed
  <2>12. CASE Len(key) = d
    <3>1. l = Nul /\ c[2] /\ Len(c[1]) = d + 0
      BY <2>8, <2>11, <2>12, NulString
    <3>2. n[1] = c[1]
      BY <2>4, <2>11, <3>1, BeginsSame
    <3>3. n[1] = key
      BY <2>4, <2>12, BeginsSame
    <3>4. f[<<n, d>>] = c
      BY <2>5, <2>9, <2>10, <2>12, <2>4
    <3> QED  BY <3>1, <3>2, <3>3, <3>4, <2>6, <2>11 DEF Found, FoundLeaf
  <2>13. CASE Len(key) > d
    <3>0. l # Nul /\ l[1] = key[d + 1] /\ ~c[2]
      BY <2>8, <2>11, <2>13, <2>4, <1>3
    <3>1. Begins(c[1], key) <=> Substr(key, d, Len(l)) = l
      BY <2>4, <2>8, <2>13, BeginsByLabel
    <3>2. CASE Begins(c[1], key)
      <4>1. f[<<n, d>>] = f[<<c, Len(c[1])>>]
        BY <3>1, <3>2, <2>5, <2>10, <2>11, <2>13
      <4>2. Len(l) \in Nat /\ Len(l) # 0
        BY <3>0, <2>11, NulString, StringLength
      <4>3. c \in Starts /\ Len(c[1]) > Len(n[1])
        BY <3>0, <3>2, <4>2, <2>11, <2>4
      <4>4. Good(c)
        BY <4>3, <2>3
      <4> QED  BY <4>1, <4>4, <2>6
    <3>3. CASE ~Begins(c[1], key)
      <4>1. f[<<n, d>>] = c
        BY <3>1, <3>3, <2>5, <2>9, <2>10
      <4>2. FoundFork(t, key, c)
        BY <3>0, <3>3, <2>4, <2>11, <2>13 DEF FoundFork
      <4> QED  BY <4>1, <4>2, <2>6 DEF Found
    <3> QED  BY <3>2, <3>3
  <2> QED  BY <2>12, <2>13, <2>4, <1>3
<1>5. Root \in Starts /\ Len(Root[1]) = 0
  <2>1. Root \in DOMAIN t /\ ~Root[2] /\ Root[1] = Nul /\ Len(Nul) = 0
    BY AddressFacts, NulString DEF Tree
  <2>2. Begins(Nul, key)
    BY <2>1, <1>3 DEF Begins
  <2> QED  BY <2>1, <2>2
<1>6. Good(Root)
  <2> SUFFICES ASSUME ~Good(Root) PROVE FALSE
    OBVIOUS
  <2>1. Len(key) - Len(Root[1]) \in Bad
    BY <1>5
  <2> HIDE DEF Bad
  <2> QED  BY <2>1, <1>4
<1> QED  BY <1>1, <1>5, <1>6
-----------------------------------------------------------------------------
(* What the nodes on the way to a string say of it. *)

(* The first character below a node is that of the label. *)
LEMMA FirstOfLabel ==
  ASSUME NEW t, NEW n, NEW l, NEW c, Filed(t, n, l, c), l # Nul
  PROVE  Len(c[1]) > Len(n[1]) /\ c[1][Len(n[1]) + 1] = l[1]
<1>1. /\ n[1] \in Str /\ l \in Str /\ Len(c[1]) = Len(n[1]) + Len(l)
      /\ \A i \in 1..Len(l) : c[1][Len(n[1]) + i] = l[i]
  BY DEF Filed
<1>2. Len(n[1]) \in Nat /\ Len(l) \in Nat /\ Len(l) # 0
  BY <1>1, StringLength, NulString
<1>3. 1 \in 1..Len(l)
  BY <1>2
<1> QED  BY <1>1, <1>2, <1>3

(* A child of n begins with whatever is longer than n. *)
LEMMA KidToward ==
  ASSUME NEW t, Tree(t), NEW n \in DOMAIN t, ~n[2], NEW x \in DOMAIN t,
         Begins(n[1], x[1]), Len(x[1]) > Len(n[1])
  PROVE  \E l : /\ Filed(t, n, l, Kid(t, n, l)) /\ l # Nul
                /\ l[1] = x[1][Len(n[1]) + 1] /\ Begins(Kid(t, n, l)[1], x[1])
<1>1. PICK l : Leads(t, n, l, x)
  BY TowardNode DEF Extends
<1> DEFINE c == Kid(t, n, l)
<1>2. Filed(t, n, l, c) /\ Begins(c[1], x[1]) /\ (c = x \/ ~c[2])
  BY <1>1, KidFacts DEF Leads
<1> HIDE DEF c
<1>3. l # Nul
  <2> SUFFICES ASSUME l = Nul PROVE FALSE
    OBVIOUS
  <2>1. c = x /\ Len(c[1]) = Len(n[1]) + 0 /\ n[1] \in Str
    BY <1>2, NulString DEF Filed
  <2> QED  BY <2>1, StringLength
<1>4. Len(c[1]) > Len(n[1]) /\ c[1][Len(n[1]) + 1] = l[1]
  BY <1>2, <1>3, FirstOfLabel
<1>5. Len(c[1]) \in Nat /\ Len(n[1]) \in Nat
  <2>1. c[1] \in Str /\ n[1] \in Str
    BY <1>2 DEF Filed
  <2> QED  BY <2>1, StringLength
<1>6. Len(n[1]) + 1 \in 1..Len(c[1])
  BY <1>4, <1>5
<1>7. c[1][Len(n[1]) + 1] = x[1][Len(n[1]) + 1]
  BY <1>2, <1>6 DEF Begins
<1> QED  BY <1>2, <1>3, <1>4, <1>7 DEF c

(* The leaf for a node's own string is its child. *)
LEMMA KidOfOwnKey ==
  ASSUME NEW t, Tree(t), NEW n \in DOMAIN t, ~n[2], NEW x \in DOMAIN t, x[2], x[1] = n[1]
  PROVE  Nul \in Labels(t, n) /\ Kid(t, n, Nul) = x
<1>1. n[1] \in Str /\ Begins(n[1], x[1])
  BY NodeFacts, BeginsItself
<1>2. PICK l : Leads(t, n, l, x)
  BY <1>1, TowardNode DEF Extends
<1> DEFINE c == Kid(t, n, l)
<1>3. Filed(t, n, l, c) /\ Begins(c[1], x[1]) /\ (c = x \/ ~c[2]) /\ l \in Labels(t, n)
  BY <1>2, KidFacts DEF Leads
<1> HIDE DEF c
<1>4. l = Nul
  <2> SUFFICES ASSUME l # Nul PROVE FALSE
    OBVIOUS
  <2>1. Len(c[1]) > Len(n[1])
    BY <1>3, FirstOfLabel
  <2>2. c[1] \in Str
    BY <1>3 DEF Filed
  <2>3. Len(c[1]) <= Len(n[1])
    BY <1>1, <1>3, NodeFacts DEF Begins
  <2>4. Len(c[1]) \in Nat /\ Len(n[1]) \in Nat
    BY <2>2, <1>1, StringLength
  <2> QED  BY <2>1, <2>3, <2>4
<1>5. c = x
  BY <1>3, <1>4 DEF Filed
<1> QED  BY <1>3, <1>4, <1>5 DEF c

(* What begins as the label of n does begins with n. *)
LEMMA OnlyThrough ==
  ASSUME NEW t, Tree(t), NEW p, NEW k, NEW n, Filed(t, p, k, n), k # Nul,
         NEW x \in DOMAIN t, Begins(p[1], x[1]), Len(x[1]) > Len(p[1]),
         x[1][Len(p[1]) + 1] = k[1]
  PROVE  Begins(n[1], x[1])
<1>1. p \in DOMAIN t /\ ~p[2]
  BY DEF Filed
<1>2. PICK l : /\ Filed(t, p, l, Kid(t, p, l)) /\ l # Nul
               /\ l[1] = x[1][Len(p[1]) + 1] /\ Begins(Kid(t, p, l)[1], x[1])
  BY <1>1, KidToward
<1>3. Kid(t, p, l) = n
  BY <1>2, OneSibling
<1> QED  BY <1>2, <1>3

(* find_node() answers the leaf for key if there is one. *)
LEMMA FindLeaf ==
  ASSUME NEW t, Tree(t), NEW key \in Str
  PROVE  /\ <<key, TRUE>> \in DOMAIN t => FindNode(t, key) = <<key, TRUE>>
         /\ FindNode(t, key)[2] => /\ FindNode(t, key) = <<key, TRUE>>
                                   /\ <<key, TRUE>> \in DOMAIN t
<1> DEFINE n == FindNode(t, key)
           x == <<key, TRUE>>
<1>1. Found(t, key, n)
  BY FindFound
<1> HIDE DEF n
<1>2. x[1] = key /\ x[2]
  OBVIOUS
<1>3. n \in DOMAIN t /\ n \in Address
  BY <1>1, NodeFacts DEF Found, FoundLeaf, FoundEnd, FoundFork
<1>4. ASSUME FoundLeaf(t, key, n) PROVE n = x /\ x \in DOMAIN t
  <2>1. n[1] = key /\ n[2] = TRUE
    BY <1>4, <1>3, AddressFacts DEF FoundLeaf
  <2> QED  BY <2>1, <1>3, AddressFacts
<1>5. n[2] => FoundLeaf(t, key, n)
  BY <1>1 DEF Found, FoundEnd, FoundFork
<1>6. Len(key) \in Nat
  BY StringLength
<1>7. ASSUME x \in DOMAIN t, FoundEnd(t, key, n) PROVE FALSE
  <2> HIDE DEF x
  <2>1. ~n[2] /\ Begins(n[1], x[1]) /\ Hits(t, key, n, Len(n[1])) = {} /\ n[1] \in Str
    BY <1>7, <1>2, <1>3, AddressFacts DEF FoundEnd
  <2>2. Len(n[1]) \in Nat /\ Len(n[1]) <= Len(key)
    BY <2>1, <1>2, StringLength DEF Begins
  <2>3. CASE Len(n[1]) = Len(key)
    <3>1. x[1] = n[1]
      BY <2>3, <2>1, <1>2, BeginsSame
    <3>2. Nul \in Labels(t, n) /\ Kid(t, n, Nul) = x
      BY <3>1, <2>1, <1>2, <1>3, <1>7, KidOfOwnKey
    <3>3. t[x].m_is_leaf
      BY <1>2, <1>7, NodeFacts
    <3>4. Nul \in Hits(t, key, n, Len(n[1]))
      BY <3>2, <3>3, <2>3 DEF Hits, Kid
    <3> QED  BY <3>4, <2>1
  <2>4. CASE Len(n[1]) < Len(key)
    <3>1. PICK l : /\ Filed(t, n, l, Kid(t, n, l)) /\ l # Nul
                   /\ l[1] = x[1][Len(n[1]) + 1] /\ Begins(Kid(t, n, l)[1], x[1])
      BY <2>1, <2>4, <1>2, <1>3, <1>7, KidToward
    <3>2. /\ l \in Labels(t, n) /\ Kid(t, n, l) \in DOMAIN t /\ ~Kid(t, n, l)[2]
      BY <3>1 DEF Filed
    <3>3. ~t[Kid(t, n, l)].m_is_leaf
      BY <3>2, NodeFacts
    <3>4. Len(key) # Len(n[1])
      BY <2>4, <2>2, <1>6
    <3>5. l \in Hits(t, key, n, Len(n[1]))
      BY <3>1, <3>2, <3>3, <3>4, <1>2 DEF Hits, Kid
    <3> QED  BY <3>5, <2>1
  <2> QED  BY <2>2, <2>3, <2>4, <1>6
<1>8. ASSUME x \in DOMAIN t, FoundFork(t, key, n) PROVE FALSE
  <2> DEFINE p == Parent(t, n)
             k == Key(t, n)
  <2>1. /\ n # Root /\ ~n[2] /\ ~Begins(n[1], key) /\ Begins(p[1], key) /\ Len(p[1]) < Len(key)
        /\ k[1] = key[Len(p[1]) + 1]
    BY <1>8 DEF FoundFork
  <2>2. Filed(t, p, k, n)
    BY <2>1, <1>3, ParentFacts
  <2> HIDE DEF p, k, x
  <2>3. k # Nul
    BY <2>1, <2>2 DEF Filed
  <2> QED  BY <2>1, <2>2, <2>3, <1>2, <1>6, <1>8, OnlyThrough
<1>9. x \in DOMAIN t => n = x
  BY <1>1, <1>4, <1>7, <1>8 DEF Found
<1> QED  BY <1>4, <1>5, <1>9 DEF n

(* The address of a string that is not there is free. *)
LEMMA EndIsNew ==
  ASSUME NEW t, Tree(t), NEW key \in Str, NEW n, FoundEnd(t, key, n), Len(key) > Len(n[1])
  PROVE  /\ <<key, FALSE>> \notin DOMAIN t
         /\ \A l \in Labels(t, n) : l # Nul => l[1] # key[Len(n[1]) + 1]
<1>1. n \in DOMAIN t /\ ~n[2] /\ Begins(n[1], key) /\ Hits(t, key, n, Len(n[1])) = {}
  BY DEF FoundEnd
<1>2. n[1] \in Str /\ Len(n[1]) \in Nat /\ Len(key) \in Nat
  BY <1>1, NodeFacts, StringLength
<1>3. ASSUME NEW l \in Labels(t, n), l # Nul, l[1] = key[Len(n[1]) + 1] PROVE FALSE
  <2>1. Filed(t, n, l, Kid(t, n, l))
    BY <1>1, KidFacts
  <2>2. Kid(t, n, l) \in DOMAIN t /\ ~Kid(t, n, l)[2]
    BY <2>1, <1>3 DEF Filed
  <2>3. ~t[Kid(t, n, l)].m_is_leaf
    BY <2>2, NodeFacts
  <2>4. Len(key) # Len(n[1])
    BY <1>2
  <2>5. l \in Hits(t, key, n, Len(n[1]))
    BY <1>3, <2>3, <2>4 DEF Hits, Kid
  <2> QED  BY <2>5, <1>1
<1> DEFINE x == <<key, FALSE>>
<1>4. ASSUME x \in DOMAIN t PROVE FALSE
  <2>1. x[1] = key
    OBVIOUS
  <2> HIDE DEF x
  <2>2. PICK l : /\ Filed(t, n, l, Kid(t, n, l)) /\ l # Nul
                 /\ l[1] = x[1][Len(n[1]) + 1] /\ Begins(Kid(t, n, l)[1], x[1])
    BY <2>1, <1>1, <1>4, KidToward
  <2>3. l \in Labels(t, n)
    BY <2>2 DEF Filed
  <2> QED  BY <2>1, <2>2, <2>3, <1>3
<1> QED  BY <1>3, <1>4

(* At the end of the way the key has no leaf yet. *)
LEMMA EndHasNoLeaf ==
  ASSUME NEW t, Tree(t), NEW key \in Str, NEW n, FoundEnd(t, key, n), Len(key) = Len(n[1])
  PROVE  n[1] = key /\ Nul \notin Labels(t, n)
<1>1. n \in DOMAIN t /\ ~n[2] /\ Begins(n[1], key) /\ Hits(t, key, n, Len(n[1])) = {}
  BY DEF FoundEnd
<1>2. n[1] \in Str /\ Len(n[1]) \in Nat
  BY <1>1, NodeFacts, StringLength
<1>3. n[1] = key
  BY <1>1, <1>2, BeginsSame
<1>4. ASSUME Nul \in Labels(t, n) PROVE FALSE
  <2>1. Filed(t, n, Nul, Kid(t, n, Nul))
    BY <1>1, <1>4, KidFacts
  <2>2. Kid(t, n, Nul) \in DOMAIN t /\ Kid(t, n, Nul)[2]
    BY <2>1 DEF Filed
  <2>3. t[Kid(t, n, Nul)].m_is_leaf
    BY <2>2, NodeFacts
  <2>4. Nul \in Hits(t, key, n, Len(n[1]))
    BY <1>4, <2>3 DEF Hits, Kid
  <2> QED  BY <2>4, <1>1
<1> QED  BY <1>3, <1>4

(* Where a label is left before its end, no string on the way has a node. *)
LEMMA ForkIsNew ==
  ASSUME NEW t, Tree(t), NEW key \in Str, NEW n, FoundFork(t, key, n), NEW s \in Str,
         NEW b \in BOOLEAN, Begins(Parent(t, n)[1], s), Len(s) > Len(Parent(t, n)[1]),
         s[Len(Parent(t, n)[1]) + 1] = Key(t, n)[1], ~Begins(n[1], s)
  PROVE  <<s, b>> \notin DOMAIN t
<1>1. n \in DOMAIN t /\ ~n[2] /\ n # Root
  BY DEF FoundFork
<1>2. Filed(t, Parent(t, n), Key(t, n), n)
  BY <1>1, ParentFacts
<1>3. Key(t, n) # Nul
  BY <1>1, <1>2 DEF Filed
<1> DEFINE x == <<s, b>>
<1>4. x[1] = s
  OBVIOUS
<1> HIDE DEF x
<1>5. x \notin DOMAIN t
  BY <1>2, <1>3, <1>4, OnlyThrough
<1> QED  BY <1>5 DEF x
-----------------------------------------------------------------------------
(* Single edits of the heap. *)

(* What a node is but for its children. *)
Kept(t, u, n) ==
  /\ u[n].m_parent = t[n].m_parent /\ u[n].m_value = t[n].m_value
  /\ u[n].m_depth = t[n].m_depth /\ u[n].m_is_leaf = t[n].m_is_leaf
  /\ u[n].m_key = t[n].m_key

(* What each edit of a heap changes, and that it changes nothing else: Link, *)
LEMMA LinkFacts ==
  ASSUME NEW t, Heap(t), NEW p \in DOMAIN t, NEW l \in Str, NEW n
  PROVE  /\ Heap(Link(t, p, l, n)) /\ DOMAIN Link(t, p, l, n) = DOMAIN t
         /\ \A x \in DOMAIN t : x # p => Link(t, p, l, n)[x] = t[x]
         /\ Kept(t, Link(t, p, l, n), p)
         /\ Labels(Link(t, p, l, n), p) = Labels(t, p) \cup {l}
         /\ Kid(Link(t, p, l, n), p, l) = n
         /\ \A k \in Labels(t, p) : k # l => Kid(Link(t, p, l, n), p, k) = Kid(t, p, k)
<1> DEFINE u == Link(t, p, l, n)
           r == t[p]
           ch == Put(r.m_children, l, n)
           s == [r EXCEPT !.m_children = ch]
<1>1. u = [t EXCEPT ![p] = s]
  BY DEF Link
<1>2. Shaped(r) /\ t = [x \in DOMAIN t |-> t[x]]
  BY DEF Heap
<1>3. DOMAIN u = DOMAIN t /\ u[p] = s /\ (\A x \in DOMAIN t : x # p => u[x] = t[x])
      /\ u = [x \in DOMAIN u |-> u[x]]
  <2> HIDE DEF s
  <2> QED  BY <1>1, <1>2
<1>4. /\ s.m_children = ch /\ s.m_parent = r.m_parent /\ s.m_value = r.m_value
      /\ s.m_depth = r.m_depth /\ s.m_is_leaf = r.m_is_leaf /\ s.m_key = r.m_key
      /\ s = [m_children |-> s.m_children, m_parent |-> s.m_parent, m_value |-> s.m_value,
              m_depth |-> s.m_depth, m_is_leaf |-> s.m_is_leaf, m_key |-> s.m_key]
  <2> HIDE DEF ch
  <2> QED  BY <1>2 DEF Shaped
<1>5. /\ DOMAIN ch = DOMAIN r.m_children \cup {l} /\ ch[l] = n
      /\ \A k \in DOMAIN r.m_children : k # l => ch[k] = r.m_children[k]
      /\ ch = [k \in DOMAIN ch |-> ch[k]]
  <2> HIDE DEF r
  <2>1. DOMAIN ch = DOMAIN r.m_children \cup {l} /\ ch[l] = n
    BY DEF Put
  <2>2. \A k \in DOMAIN r.m_children : k # l => ch[k] = r.m_children[k]
    BY DEF Put
  <2>3. ch = [k \in DOMAIN ch |-> ch[k]]
    BY DEF Put
  <2> QED  BY <2>1, <2>2, <2>3
<1> HIDE DEF ch, s, r, u
<1>6. Shaped(s)
  BY <1>4, <1>5, <1>2 DEF Shaped
<1>7. Heap(u)
  BY <1>3, <1>6, <1>2 DEF Heap
<1>8. Kept(t, u, p)
  BY <1>3, <1>4 DEF Kept, r
<1> QED  BY <1>3, <1>4, <1>5, <1>7, <1>8 DEF u, r, Labels, Kid

(* Unlink, *)
LEMMA UnlinkFacts ==
  ASSUME NEW t, Heap(t), NEW p \in DOMAIN t, NEW l
  PROVE  /\ Heap(Unlink(t, p, l)) /\ DOMAIN Unlink(t, p, l) = DOMAIN t
         /\ \A x \in DOMAIN t : x # p => Unlink(t, p, l)[x] = t[x]
         /\ Kept(t, Unlink(t, p, l), p)
         /\ Labels(Unlink(t, p, l), p) = Labels(t, p) \ {l}
         /\ \A k \in Labels(t, p) : k # l => Kid(Unlink(t, p, l), p, k) = Kid(t, p, k)
<1> DEFINE u == Unlink(t, p, l)
           r == t[p]
           ch == Restrict(r.m_children, DOMAIN r.m_children \ {l})
           s == [r EXCEPT !.m_children = ch]
<1>1. u = [t EXCEPT ![p] = s]
  BY DEF Unlink
<1>2. Shaped(r) /\ t = [x \in DOMAIN t |-> t[x]]
  BY DEF Heap
<1>3. DOMAIN u = DOMAIN t /\ u[p] = s /\ (\A x \in DOMAIN t : x # p => u[x] = t[x])
      /\ u = [x \in DOMAIN u |-> u[x]]
  <2> HIDE DEF s
  <2> QED  BY <1>1, <1>2
<1>4. /\ s.m_children = ch /\ s.m_parent = r.m_parent /\ s.m_value = r.m_value
      /\ s.m_depth = r.m_depth /\ s.m_is_leaf = r.m_is_leaf /\ s.m_key = r.m_key
      /\ s = [m_children |-> s.m_children, m_parent |-> s.m_parent, m_value |-> s.m_value,
              m_depth |-> s.m_depth, m_is_leaf |-> s.m_is_leaf, m_key |-> s.m_key]
  <2> HIDE DEF ch
  <2> QED  BY <1>2 DEF Shaped
<1>5. /\ DOMAIN ch = DOMAIN r.m_children \ {l}
      /\ \A k \in DOMAIN r.m_children : k # l => ch[k] = r.m_children[k]
      /\ ch = [k \in DOMAIN ch |-> ch[k]]
  BY DEF Restrict
<1> HIDE DEF ch, s, r, u
<1>6. Shaped(s)
  BY <1>4, <1>5, <1>2 DEF Shaped
<1>7. Heap(u)
  BY <1>3, <1>6, <1>2 DEF Heap
<1>8. Kept(t, u, p)
  BY <1>3, <1>4 DEF Kept, r
<1> QED  BY <1>3, <1>4, <1>5, <1>7, <1>8 DEF u, r, Labels, Kid

(* Moved, *)
LEMMA MovedFacts ==
  ASSUME NEW t, Heap(t), NEW n \in DOMAIN t, NEW p, NEW d, NEW k
  PROVE  /\ Heap(Moved(t, n, p, d, k)) /\ DOMAIN Moved(t, n, p, d, k) = DOMAIN t
         /\ \A x \in DOMAIN t : x # n => Moved(t, n, p, d, k)[x] = t[x]
         /\ Moved(t, n, p, d, k)[n].m_depth = d
         /\ Moved(t, n, p, d, k)[n].m_parent = p
         /\ Moved(t, n, p, d, k)[n].m_key = k
         /\ Moved(t, n, p, d, k)[n].m_is_leaf = t[n].m_is_leaf
         /\ Moved(t, n, p, d, k)[n].m_value = t[n].m_value
         /\ Moved(t, n, p, d, k)[n].m_children = t[n].m_children
<1> DEFINE u == Moved(t, n, p, d, k)
           r == t[n]
           s == [m_children |-> r.m_children, m_parent |-> p, m_value |-> r.m_value,
                 m_depth |-> d, m_is_leaf |-> r.m_is_leaf, m_key |-> k]
<1>1. Shaped(r) /\ t = [x \in DOMAIN t |-> t[x]]
  BY DEF Heap
<1>2. u = [t EXCEPT ![n] = s]
  <2>1. [[[r EXCEPT !.m_depth = d] EXCEPT !.m_parent = p] EXCEPT !.m_key = k] = s
    <3> DEFINE r1 == [r EXCEPT !.m_depth = d]
               r2 == [r1 EXCEPT !.m_parent = p]
               r3 == [r2 EXCEPT !.m_key = k]
    <3>1. r1 = [m_children |-> r.m_children, m_parent |-> r.m_parent, m_value |-> r.m_value,
                m_depth |-> d, m_is_leaf |-> r.m_is_leaf, m_key |-> r.m_key]
      BY <1>1 DEF Shaped
    <3> HIDE DEF r1
    <3>2. r2 = [m_children |-> r.m_children, m_parent |-> p, m_value |-> r.m_value,
                m_depth |-> d, m_is_leaf |-> r.m_is_leaf, m_key |-> r.m_key]
      BY <3>1
    <3> HIDE DEF r2
    <3>3. r3 = s
      BY <3>2
    <3> QED  BY <3>3 DEF r1, r2
  <2> HIDE DEF s
  <2>2. u = [t EXCEPT ![n] = [[[r EXCEPT !.m_depth = d] EXCEPT !.m_parent = p] EXCEPT !.m_key = k]]
    BY <1>1 DEF Moved
  <2> QED  BY <2>1, <2>2
<1>3. DOMAIN u = DOMAIN t /\ u[n] = s /\ (\A x \in DOMAIN t : x # n => u[x] = t[x])
      /\ u = [x \in DOMAIN u |-> u[x]]
  <2> HIDE DEF s
  <2> QED  BY <1>1, <1>2
<1>4. Shaped(s)
  BY <1>1 DEF Shaped
<1>5. Heap(u)
  BY <1>1, <1>3, <1>4 DEF Heap
<1> HIDE DEF u
<1> QED  BY <1>3, <1>5 DEF u

(* new RadixTreeNode, *)
LEMMA NodeShape ==
  ASSUME NEW p, NEW d, NEW k, NEW b, NEW v
  PROVE  /\ Shaped(TreeNode(p, d, k, b, v)) /\ DOMAIN TreeNode(p, d, k, b, v).m_children = {}
         /\ TreeNode(p, d, k, b, v).m_parent = p /\ TreeNode(p, d, k, b, v).m_depth = d
         /\ TreeNode(p, d, k, b, v).m_key = k /\ TreeNode(p, d, k, b, v).m_is_leaf = b
         /\ TreeNode(p, d, k, b, v).m_value = v
BY DEF TreeNode, Shaped, NoChildren

(* new RadixTreeNode, and the link from its parent *)
Added(t, u, n, p, d, k, b, v) ==
  /\ Heap(u) /\ DOMAIN u = DOMAIN t \cup {n}
  /\ \A x \in DOMAIN t : x # p => u[x] = t[x]
  /\ Kept(t, u, p) /\ Labels(u, p) = Labels(t, p) \cup {k} /\ Kid(u, p, k) = n
  /\ \A l \in Labels(t, p) : l # k => Kid(u, p, l) = Kid(t, p, l)
  /\ Labels(u, n) = {} /\ u[n].m_parent = p /\ u[n].m_depth = d
  /\ u[n].m_key = k /\ u[n].m_is_leaf = b /\ u[n].m_value = v

(* Add, *)
LEMMA AddFacts ==
  ASSUME NEW t, Heap(t), NEW p \in DOMAIN t, NEW n \in Address, n \notin DOMAIN t,
         NEW d, NEW k \in Str, NEW b, NEW v
  PROVE  Added(t, Add(t, n, TreeNode(p, d, k, b, v)), n, p, d, k, b, v)
<1> DEFINE r == TreeNode(p, d, k, b, v)
           w == Put(t, n, r)
           u == Link(w, p, k, n)
<1>1. Shaped(r) /\ DOMAIN r.m_children = {} /\ r.m_parent = p /\ r.m_depth = d
      /\ r.m_key = k /\ r.m_is_leaf = b /\ r.m_value = v
  BY NodeShape
<1>2. Add(t, n, r) = u
  BY <1>1 DEF Add
<1> HIDE DEF r
<1>3. DOMAIN w = DOMAIN t \cup {n} /\ w[n] = r /\ (\A x \in DOMAIN t : w[x] = t[x])
      /\ w = [x \in DOMAIN w |-> w[x]]
  <2>1. DOMAIN w = DOMAIN t \cup {n} /\ w[n] = r
    BY DEF Put
  <2>2. \A x \in DOMAIN t : w[x] = t[x]
    BY DEF Put
  <2>3. w = [x \in DOMAIN w |-> w[x]]
    BY DEF Put
  <2> QED  BY <2>1, <2>2, <2>3
<1> HIDE DEF w
<1>4. Heap(w)
  BY <1>1, <1>3 DEF Heap
<1>5. p \in DOMAIN w /\ n # p
  BY <1>3
<1> HIDE DEF u
<1>6. /\ Heap(u) /\ DOMAIN u = DOMAIN w
      /\ \A x \in DOMAIN w : x # p => u[x] = w[x]
      /\ Kept(w, u, p) /\ Labels(u, p) = Labels(w, p) \cup {k} /\ Kid(u, p, k) = n
      /\ \A l \in Labels(w, p) : l # k => Kid(u, p, l) = Kid(w, p, l)
  BY <1>4, <1>5, LinkFacts DEF u
<1>7. Kept(t, u, p) /\ Labels(w, p) = Labels(t, p)
      /\ \A l \in Labels(t, p) : Kid(w, p, l) = Kid(t, p, l)
  BY <1>3, <1>6 DEF Kept, Labels, Kid
<1>8. u[n] = r
  BY <1>3, <1>5, <1>6
<1>9. Labels(u, n) = {}
  BY <1>1, <1>8 DEF Labels
<1> QED  BY <1>1, <1>2, <1>3, <1>5, <1>6, <1>7, <1>8, <1>9 DEF r, Added

(* A destructor ends: what is below a node is well defined, and a node     *)
(* without children goes alone.                                            *)
LEMMA SubtreeUnfolds ==
  ASSUME NEW t, \A m \in DOMAIN t : Children(t, m) \subseteq DOMAIN t
  PROVE  \E f : /\ \A m \in DOMAIN t : f[m] = {m} \cup UNION {f[c] : c \in Children(t, m)}
                /\ \A n : Subtree(t, n) = f[n]
<1> DEFINE Closed(S) == \A m \in S : Children(t, m) \subseteq S
           Reach(m) == {x \in DOMAIN t : \A S \in SUBSET DOMAIN t : m \in S /\ Closed(S) => x \in S}
           Walks(f) == f = [m \in DOMAIN t |-> {m} \cup UNION {f[c] : c \in Children(t, m)}]
           g == [m \in DOMAIN t |-> Reach(m)]
<1>1. ASSUME NEW m \in DOMAIN t
      PROVE  Reach(m) = {m} \cup UNION {Reach(c) : c \in Children(t, m)}
  <2> DEFINE B == {m} \cup UNION {Reach(c) : c \in Children(t, m)}
  <2>1. Reach(m) \subseteq B
    <3>1. B \in SUBSET DOMAIN t /\ m \in B
      OBVIOUS
    <3>2. \A c \in Children(t, m) : c \in Reach(c)
      OBVIOUS
    <3>3. ASSUME NEW y \in DOMAIN t, NEW x \in Reach(y) PROVE Children(t, x) \subseteq Reach(y)
      <4>1. x \in DOMAIN t
        OBVIOUS
      <4> SUFFICES ASSUME NEW z \in Children(t, x), NEW S \in SUBSET DOMAIN t, y \in S, Closed(S)
                   PROVE  z \in S
        BY <4>1
      <4> QED  BY <3>3
    <3>4. Closed(B)
      BY <3>2, <3>3
    <3> QED  BY <3>1, <3>4
  <2>2. B \subseteq Reach(m)
    OBVIOUS
  <2> QED  BY <2>1, <2>2
<1>2. Walks(g)
  <2>1. \A m \in DOMAIN t : {g[c] : c \in Children(t, m)} = {Reach(c) : c \in Children(t, m)}
    OBVIOUS
  <2> HIDE DEF Reach
  <2>2. \A m \in DOMAIN t : g[m] = {m} \cup UNION {g[c] : c \in Children(t, m)}
    BY <1>1, <2>1
  <2>3. \A f : (DOMAIN f = DOMAIN t /\ f = [m \in DOMAIN f |-> f[m]]
                /\ \A m \in DOMAIN t : f[m] = {m} \cup UNION {f[c] : c \in Children(t, m)})
               => Walks(f)
    OBVIOUS
  <2>4. DOMAIN g = DOMAIN t /\ g = [m \in DOMAIN g |-> g[m]]
    OBVIOUS
  <2> HIDE DEF g, Walks
  <2> QED  BY <2>2, <2>3, <2>4
<1> DEFINE F == CHOOSE f : Walks(f)
<1>3. Walks(F)
  <2> HIDE DEF Walks, g
  <2> QED  BY <1>2
<1>4. \A n : Subtree(t, n) = F[n]
  BY DEF Subtree
<1> HIDE DEF F
<1>5. \A m \in DOMAIN t : F[m] = {m} \cup UNION {F[c] : c \in Children(t, m)}
  BY <1>3
<1> QED  BY <1>4, <1>5

(* and delete of a node without children. *)
LEMMA FreeFacts ==
  ASSUME NEW t, Heap(t), \A m \in DOMAIN t : Children(t, m) \subseteq DOMAIN t,
         NEW n \in DOMAIN t, Labels(t, n) = {}
  PROVE  /\ Heap(Free(t, n)) /\ DOMAIN Free(t, n) = DOMAIN t \ {n}
         /\ \A x \in DOMAIN t : x # n => Free(t, n)[x] = t[x]
<1>1. PICK f : /\ \A m \in DOMAIN t : f[m] = {m} \cup UNION {f[c] : c \in Children(t, m)}
               /\ \A m : Subtree(t, m) = f[m]
  BY SubtreeUnfolds
<1>2. Children(t, n) = {}
  BY DEF Children
<1>3. Subtree(t, n) = {n}
  BY <1>1, <1>2
<1>4. Free(t, n) = [x \in DOMAIN t \ {n} |-> t[x]]
  BY <1>3 DEF Free, Restrict
<1> QED  BY <1>4 DEF Heap
-----------------------------------------------------------------------------
(* Edits that leave a tree. *)

(* The definition of a tree, taken apart. *)
LEMMA TreeParts ==
  ASSUME NEW t, Tree(t)
  PROVE  /\ Heap(t) /\ Root \in DOMAIN t
         /\ \A n \in DOMAIN t : LeafOK(t, n) /\ Hangs(t, n) /\ Branches(t, n)
BY DEF Tree

(* A node that is not edited is as it was. *)
LEMMA LeafKept ==
  ASSUME NEW t, NEW u, NEW n, LeafOK(t, n), Kept(t, u, n),
         n[2] => Labels(u, n) = Labels(t, n)
  PROVE  LeafOK(u, n)
BY DEF LeafOK, Kept

(* A node keeps its place when its own fields and its entry with its parent do, *)
LEMMA HangsKept ==
  ASSUME NEW t, NEW u, NEW n, Hangs(t, n), Kept(t, u, n),
         n # Root => /\ Parent(t, n) \in DOMAIN u
                     /\ Key(t, n) \in Labels(u, Parent(t, n))
                     /\ Kid(u, Parent(t, n), Key(t, n)) = n
  PROVE  Hangs(u, n)
BY DEF Hangs, Kept, Parent, Key

(* its children when they are the same and know it, *)
LEMMA BranchesKept ==
  ASSUME NEW t, NEW u, NEW n, Branches(t, n), Labels(u, n) = Labels(t, n),
         \A l \in Labels(t, n) :
            /\ Kid(u, n, l) = Kid(t, n, l) /\ Kid(t, n, l) \in DOMAIN u
            /\ Parent(u, Kid(t, n, l)) = Parent(t, Kid(t, n, l))
            /\ Key(u, Kid(t, n, l)) = Key(t, Kid(t, n, l))
  PROVE  Branches(u, n)
BY DEF Branches

(* and everything when its record is the same. *)
LEMMA SameKept == ASSUME NEW t, NEW u, NEW n, u[n] = t[n]
                  PROVE  /\ Kept(t, u, n) /\ Labels(u, n) = Labels(t, n)
                         /\ Parent(u, n) = Parent(t, n) /\ Key(u, n) = Key(t, n)
                         /\ \A l : Kid(u, n, l) = Kid(t, n, l)
BY DEF Kept, Labels, Parent, Key, Kid

(* The node that has a child is its parent. *)
LEMMA OwnerOfKid ==
  ASSUME NEW t, Tree(t), NEW n \in DOMAIN t, NEW l \in Labels(t, n), NEW m,
         Kid(t, n, l) = m
  PROVE  m \in DOMAIN t /\ m # Root /\ Parent(t, m) = n /\ Key(t, m) = l /\ ~n[2]
<1>1. Filed(t, n, l, m)
  BY KidFacts
<1> QED  BY <1>1 DEF Filed

(* What a new node below p changes. *)
Planted(t, u, p, k, n, v) ==
  /\ Tree(u) /\ DOMAIN u = DOMAIN t \cup {n} /\ n \notin DOMAIN t /\ p \in DOMAIN t
  /\ \A x \in DOMAIN t : x # p => u[x] = t[x]
  /\ Kept(t, u, p) /\ Labels(u, p) = Labels(t, p) \cup {k} /\ k \notin Labels(t, p)
  /\ Labels(u, n) = {} /\ u[n].m_value = v

(* A new node below p, for a label that no sibling begins as *)
LEMMA AddTree ==
  ASSUME NEW t, Tree(t), NEW p \in DOMAIN t, ~p[2], NEW k \in Str, k \notin Labels(t, p),
         NEW b \in BOOLEAN, b <=> k = Nul, NEW v, NEW s \in Str, s = p[1] \o k,
         b => v = Pair(s, v.second),
         <<s, b>> \notin DOMAIN t, NEW d, d = Len(p[1]),
         \A l \in Labels(t, p) : l # Nul /\ k # Nul => l[1] # k[1]
  PROVE  Planted(t, Add(t, <<s, b>>, TreeNode(p, d, k, b, v)), p, k, <<s, b>>, v)
<1> DEFINE n == <<s, b>>
           u == Add(t, n, TreeNode(p, d, k, b, v))
<1>1. n \in Address /\ n[1] = s /\ n[2] = b
  BY AddressFacts
<1>2. Heap(t) /\ Root \in DOMAIN t
  BY TreeParts
<1>3. n \notin DOMAIN t
  OBVIOUS
<1> HIDE DEF n
<1>4. /\ Heap(u) /\ DOMAIN u = DOMAIN t \cup {n}
      /\ \A x \in DOMAIN t : x # p => u[x] = t[x]
      /\ Kept(t, u, p) /\ Labels(u, p) = Labels(t, p) \cup {k} /\ Kid(u, p, k) = n
      /\ \A l \in Labels(t, p) : l # k => Kid(u, p, l) = Kid(t, p, l)
      /\ Labels(u, n) = {} /\ u[n].m_parent = p /\ u[n].m_depth = d
      /\ u[n].m_key = k /\ u[n].m_is_leaf = b /\ u[n].m_value = v
  <2>1. Added(t, u, n, p, d, k, b, v)
    BY <1>1, <1>2, <1>3, AddFacts
  <2> QED  BY <2>1 DEF Added
<1> HIDE DEF u
<1>5. n # Root /\ n # p
  BY <1>2, <1>3
<1>6. \A x \in DOMAIN t : Kept(t, u, x)
  BY <1>4, SameKept
<1>7. \A x \in DOMAIN t : x # p => Labels(u, x) = Labels(t, x) /\ \A l : Kid(u, x, l) = Kid(t, x, l)
  BY <1>4 DEF Labels, Kid
<1>8. \A x \in DOMAIN t : \A l \in Labels(t, x) : l \in Labels(u, x) /\ Kid(u, x, l) = Kid(t, x, l)
  BY <1>4, <1>7
<1>9. \A x \in DOMAIN t : LeafOK(u, x)
  <2> TAKE x \in DOMAIN t
  <2>1. LeafOK(t, x) /\ Kept(t, u, x)
    BY <1>6, TreeParts
  <2>2. x[2] => Labels(u, x) = Labels(t, x)
    BY <1>7
  <2> QED  BY <2>1, <2>2, LeafKept
<1>10. LeafOK(u, n)
  BY <1>1, <1>4 DEF LeafOK
<1>11. \A x \in DOMAIN t : Hangs(u, x)
  <2> TAKE x \in DOMAIN t
  <2>1. Hangs(t, x) /\ Kept(t, u, x)
    BY <1>6, TreeParts
  <2>2. ASSUME x # Root
        PROVE  /\ Parent(t, x) \in DOMAIN u /\ Key(t, x) \in Labels(u, Parent(t, x))
               /\ Kid(u, Parent(t, x), Key(t, x)) = x
    <3>1. /\ Parent(t, x) \in DOMAIN t /\ Key(t, x) \in Labels(t, Parent(t, x))
          /\ Kid(t, Parent(t, x), Key(t, x)) = x
      BY <2>1, <2>2 DEF Hangs
    <3> QED  BY <3>1, <1>4, <1>8
  <2> QED  BY <2>1, <2>2, HangsKept
<1>12. Hangs(u, n)
  BY <1>1, <1>4, <1>5 DEF Hangs, Parent, Key
<1>13. \A x \in DOMAIN t : x # p => Branches(u, x)
  <2> SUFFICES ASSUME NEW x \in DOMAIN t, x # p PROVE Branches(u, x)
    OBVIOUS
  <2>1. Branches(t, x) /\ Labels(u, x) = Labels(t, x) /\ \A l : Kid(u, x, l) = Kid(t, x, l)
    BY <1>7, TreeParts
  <2>2. ASSUME NEW l \in Labels(t, x)
        PROVE  /\ Kid(t, x, l) \in DOMAIN u
               /\ Parent(u, Kid(t, x, l)) = Parent(t, Kid(t, x, l))
               /\ Key(u, Kid(t, x, l)) = Key(t, Kid(t, x, l))
    <3>1. Kid(t, x, l) \in DOMAIN t
      BY <2>1 DEF Branches
    <3> QED  BY <3>1, <1>4, <1>6 DEF Kept, Parent, Key
  <2> QED  BY <2>1, <2>2, BranchesKept
<1>14. Branches(u, p)
  <2>1. Branches(t, p)
    BY TreeParts
  <2>2. IsFiniteSet(Labels(u, p))
    BY <2>1, <1>4, FS_AddElement DEF Branches
  <2>3. ASSUME NEW l \in Labels(t, p)
        PROVE  /\ Kid(u, p, l) \in DOMAIN u \ {Root}
               /\ Parent(u, Kid(u, p, l)) = p /\ Key(u, Kid(u, p, l)) = l
    <3>1. Kid(t, p, l) \in DOMAIN t \ {Root} /\ Parent(t, Kid(t, p, l)) = p /\ Key(t, Kid(t, p, l)) = l
      BY <2>1 DEF Branches
    <3>2. Kid(u, p, l) = Kid(t, p, l)
      BY <1>8
    <3> QED  BY <3>1, <3>2, <1>4, <1>6 DEF Kept, Parent, Key
  <2>4. /\ Kid(u, p, k) \in DOMAIN u \ {Root}
        /\ Parent(u, Kid(u, p, k)) = p /\ Key(u, Kid(u, p, k)) = k
    BY <1>4, <1>5 DEF Parent, Key
  <2>5. \A l1, l2 \in Labels(u, p) : l1 # l2 /\ l1 # Nul /\ l2 # Nul => l1[1] # l2[1]
    BY <2>1, <1>4 DEF Branches
  <2> QED  BY <2>2, <2>3, <2>4, <2>5, <1>4 DEF Branches
<1>15. Branches(u, n)
  BY <1>4, FS_EmptySet DEF Branches
<1>16. Tree(u)
  BY <1>2, <1>4, <1>9, <1>10, <1>11, <1>12, <1>13, <1>14, <1>15 DEF Tree
<1> QED  BY <1>3, <1>4, <1>16 DEF u, n, Planted

(* A node without children goes. *)
Removed(t, u, p, k, n) ==
  /\ Tree(u) /\ DOMAIN u = DOMAIN t \ {n}
  /\ \A x \in DOMAIN u : x # p => u[x] = t[x]
  /\ Kept(t, u, p) /\ Labels(u, p) = Labels(t, p) \ {k}
  /\ \A l \in Labels(u, p) : Kid(u, p, l) = Kid(t, p, l)

(* A tree without one of its nodes that have no children is a tree. *)
LEMMA RemoveTree ==
  ASSUME NEW t, Tree(t), NEW p, NEW k, NEW n, Filed(t, p, k, n), Labels(t, n) = {}
  PROVE  Removed(t, Free(Unlink(t, p, k), n), p, k, n)
<1> DEFINE w == Unlink(t, p, k)
           u == Free(w, n)
<1>1. Heap(t) /\ Root \in DOMAIN t
  BY TreeParts
<1>2. /\ p \in DOMAIN t /\ n \in DOMAIN t /\ n # Root /\ ~p[2] /\ k \in Labels(t, p)
      /\ Kid(t, p, k) = n /\ Parent(t, n) = p /\ Key(t, n) = k
  BY DEF Filed
<1>3. p # n
  BY RankFalls
<1>4. /\ Heap(w) /\ DOMAIN w = DOMAIN t
      /\ \A x \in DOMAIN t : x # p => w[x] = t[x]
      /\ Kept(t, w, p)
      /\ Labels(w, p) = Labels(t, p) \ {k}
      /\ \A l \in Labels(t, p) : l # k => Kid(w, p, l) = Kid(t, p, l)
  BY <1>1, <1>2, UnlinkFacts
<1> HIDE DEF w
<1>5. \A x \in DOMAIN t : x # p => Labels(w, x) = Labels(t, x) /\ \A l : Kid(w, x, l) = Kid(t, x, l)
  BY <1>4 DEF Labels, Kid
<1>6. \A x \in DOMAIN t : \A l \in Labels(w, x) :
        /\ l \in Labels(t, x) /\ Kid(w, x, l) = Kid(t, x, l) /\ Kid(t, x, l) \in DOMAIN t
        /\ Kid(t, x, l) # n
  <2> SUFFICES ASSUME NEW x \in DOMAIN t, NEW l \in Labels(w, x)
               PROVE  /\ l \in Labels(t, x) /\ Kid(w, x, l) = Kid(t, x, l)
                      /\ Kid(t, x, l) \in DOMAIN t /\ Kid(t, x, l) # n
    OBVIOUS
  <2>1. l \in Labels(t, x) /\ (x = p => l # k) /\ Kid(w, x, l) = Kid(t, x, l)
    BY <1>4, <1>5
  <2>2. Kid(t, x, l) \in DOMAIN t /\ Parent(t, Kid(t, x, l)) = x /\ Key(t, Kid(t, x, l)) = l
    BY <2>1, OwnerOfKid
  <2> QED  BY <2>1, <2>2, <1>2
<1>7. \A x \in DOMAIN w : Children(w, x) \subseteq DOMAIN w
  BY <1>4, <1>6 DEF Children, Kid
<1>8. Labels(w, n) = {} /\ n \in DOMAIN w
  BY <1>2, <1>3, <1>4, <1>5
<1>9. Heap(u) /\ DOMAIN u = DOMAIN t \ {n} /\ \A x \in DOMAIN t : x # n => u[x] = w[x]
  BY <1>4, <1>7, <1>8, FreeFacts
<1> HIDE DEF u
<1>10. \A x \in DOMAIN u : Labels(u, x) = Labels(w, x) /\ \A l : Kid(u, x, l) = Kid(w, x, l)
  BY <1>9 DEF Labels, Kid
<1>11. \A x \in DOMAIN u : x # p => u[x] = t[x]
  BY <1>4, <1>9
<1>12. \A x \in DOMAIN u : Kept(t, u, x)
  BY <1>4, <1>9 DEF Kept
<1>13. p \in DOMAIN u /\ Labels(u, p) = Labels(t, p) \ {k}
  BY <1>2, <1>3, <1>4, <1>9, <1>10
<1>14. \A x \in DOMAIN u : LeafOK(u, x)
  <2> TAKE x \in DOMAIN u
  <2>1. LeafOK(t, x) /\ Kept(t, u, x)
    BY <1>9, <1>12, TreeParts
  <2>2. x[2] => Labels(u, x) = Labels(t, x)
    BY <1>2, <1>5, <1>9, <1>10
  <2> QED  BY <2>1, <2>2, LeafKept
<1>15. \A x \in DOMAIN u : Hangs(u, x)
  <2> TAKE x \in DOMAIN u
  <2>1. Hangs(t, x) /\ Kept(t, u, x) /\ x \in DOMAIN t
    BY <1>9, <1>12, TreeParts
  <2>2. ASSUME x # Root
        PROVE  /\ Parent(t, x) \in DOMAIN u /\ Key(t, x) \in Labels(u, Parent(t, x))
               /\ Kid(u, Parent(t, x), Key(t, x)) = x
    <3> DEFINE q == Parent(t, x)
               l == Key(t, x)
    <3>1. q \in DOMAIN t /\ l \in Labels(t, q) /\ Kid(t, q, l) = x
      BY <2>1, <2>2 DEF Hangs
    <3>2. q # n
      BY <3>1
    <3>3. l \in Labels(w, q) /\ Kid(w, q, l) = x
      BY <3>1, <1>2, <1>4, <1>5, <1>9
    <3> QED  BY <3>1, <3>2, <3>3, <1>9, <1>10
  <2> QED  BY <2>1, <2>2, HangsKept
<1>16. \A x \in DOMAIN u : Branches(u, x)
  <2> TAKE x \in DOMAIN u
  <2>1. Branches(t, x) /\ x \in DOMAIN t
    BY <1>9, TreeParts
  <2>2. Labels(u, x) \subseteq Labels(t, x)
    BY <2>1, <1>6, <1>10
  <2>3. IsFiniteSet(Labels(u, x))
    BY <2>1, <2>2, FS_Subset DEF Branches
  <2>4. ASSUME NEW l \in Labels(u, x)
        PROVE  /\ Kid(u, x, l) \in DOMAIN u \ {Root}
               /\ Parent(u, Kid(u, x, l)) = x /\ Key(u, Kid(u, x, l)) = l
    <3>1. Kid(u, x, l) = Kid(t, x, l) /\ Kid(t, x, l) \in DOMAIN u
      BY <2>1, <1>6, <1>9, <1>10
    <3>2. /\ Kid(t, x, l) \in DOMAIN t \ {Root} /\ Parent(t, Kid(t, x, l)) = x
          /\ Key(t, Kid(t, x, l)) = l
      BY <2>1, <2>2 DEF Branches
    <3> QED  BY <3>1, <3>2, <1>12 DEF Kept, Parent, Key
  <2>5. \A l1, l2 \in Labels(u, x) : l1 # l2 /\ l1 # Nul /\ l2 # Nul => l1[1] # l2[1]
    BY <2>1, <2>2 DEF Branches
  <2> QED  BY <2>3, <2>4, <2>5 DEF Branches
<1>17. Tree(u)
  BY <1>1, <1>2, <1>9, <1>14, <1>15, <1>16 DEF Tree
<1>18. \A l \in Labels(u, p) : Kid(u, p, l) = Kid(t, p, l)
  BY <1>13, <1>10, <1>4
<1> QED  BY <1>17, <1>9, <1>11, <1>12, <1>13, <1>18 DEF Removed, u, w

(* Three strings in a row. *)
LEMMA JoinedTwice ==
  ASSUME NEW a \in Str, NEW b \in Str, NEW c \in Str
  PROVE  (a \o b) \o c = a \o (b \o c)
BY ConcatAssociative DEF Str

(* The label of a node with an only child is joined to the child's. *)
Merged(t, u, p, k, n, l, c) ==
  /\ Tree(u) /\ DOMAIN u = DOMAIN t \ {n}
  /\ \A x \in DOMAIN u : x # p /\ x # c => u[x] = t[x]
  /\ Kept(t, u, p) /\ Labels(u, p) = (Labels(t, p) \ {k}) \cup {k \o l} /\ k \o l \notin Labels(t, p) \ {k}
  /\ u[c].m_children = t[c].m_children /\ u[c].m_is_leaf = t[c].m_is_leaf
  /\ u[c].m_value = t[c].m_value /\ c \in DOMAIN u /\ p \in DOMAIN u /\ c # p

(* A tree is a tree after a node handed its label to its only child. *)
LEMMA MergeTree ==
  ASSUME NEW t, Tree(t), NEW p, NEW k, NEW n, Filed(t, p, k, n), NEW l, NEW c,
         Filed(t, n, l, c), Labels(t, n) = {l}, k # Nul, l # Nul
  PROVE  Merged(t, MergeOnlyChild(t, n), p, k, n, l, c)
<1> DEFINE j == k \o l
           m1 == Moved(t, c, p, t[n].m_depth, j)
           m2 == Unlink(m1, n, l)
           m3 == Unlink(m2, p, k)
           m4 == Link(m3, p, j, c)
           u == Free(m4, n)
<1>1. Heap(t) /\ Root \in DOMAIN t
  BY TreeParts
<1>2. /\ p \in DOMAIN t /\ n \in DOMAIN t /\ n # Root /\ ~p[2] /\ k \in Labels(t, p) /\ k \in Str
      /\ Kid(t, p, k) = n /\ Parent(t, n) = p /\ Key(t, n) = k /\ ~n[2]
      /\ t[n].m_depth = Len(p[1]) /\ n[1] = p[1] \o k /\ p[1] \in Str
  BY DEF Filed
<1>3. /\ c \in DOMAIN t /\ c # Root /\ ~c[2] /\ Kid(t, n, l) = c /\ Parent(t, c) = n /\ Key(t, c) = l
      /\ c[1] = n[1] \o l /\ l \in Str /\ l \in Labels(t, n)
  BY DEF Filed
<1>4. p # n /\ c # n /\ c # p
  BY RankFalls
<1>5. First(Labels(t, n)) = l
  BY FirstOfOne
<1>6. MergeOnlyChild(t, n) = u
  <2>1. ~t[c].m_is_leaf
    BY <1>3, NodeFacts
  <2>2. t[n].m_children[l] = c /\ t[n].m_parent = p /\ t[n].m_key = k /\ t[c].m_key = l
    BY <1>2, <1>3 DEF Kid, Parent, Key
  <2> QED  BY <1>5, <2>1, <2>2 DEF MergeOnlyChild
<1>7. j \in Str /\ j # Nul /\ j[1] = k[1] /\ c[1] = p[1] \o j
  <2>1. /\ j \in Str /\ Len(j) = Len(k) + Len(l) /\ \A i \in 1..Len(k) : j[i] = k[i]
    BY <1>2, <1>3, Joined
  <2>2. Len(k) \in Nat /\ Len(k) # 0 /\ Len(l) \in Nat
    BY <1>2, <1>3, StringLength, NulString
  <2>3. 1 \in 1..Len(k) /\ Len(j) # 0
    BY <2>1, <2>2
  <2>4. c[1] = p[1] \o j
    <3>1. c[1] = (p[1] \o k) \o l
      BY <1>2, <1>3
    <3>2. p[1] \in Str /\ k \in Str /\ l \in Str
      BY <1>2, <1>3
    <3>3. (p[1] \o k) \o l = p[1] \o (k \o l)
      BY <3>2, JoinedTwice
    <3> QED  BY <3>1, <3>3
  <2> HIDE DEF j
  <2> QED  BY <2>1, <2>3, <2>4, NulString
<1> HIDE DEF j
<1>8. \A x \in Labels(t, p) : x # k => x # j /\ (x # Nul => x[1] # j[1])
  <2>1. Branches(t, p)
    BY <1>2, TreeParts
  <2> QED  BY <2>1, <1>2, <1>7 DEF Branches
<1>9. /\ Heap(m1) /\ DOMAIN m1 = DOMAIN t
      /\ \A x \in DOMAIN t : x # c => m1[x] = t[x]
      /\ m1[c].m_depth = t[n].m_depth /\ m1[c].m_parent = p /\ m1[c].m_key = j
      /\ m1[c].m_is_leaf = t[c].m_is_leaf /\ m1[c].m_value = t[c].m_value
      /\ m1[c].m_children = t[c].m_children
  BY <1>1, <1>3, MovedFacts
<1> HIDE DEF m1
<1>10. /\ Heap(m2) /\ DOMAIN m2 = DOMAIN t
       /\ \A x \in DOMAIN t : x # n => m2[x] = m1[x]
       /\ Labels(m2, n) = Labels(m1, n) \ {l}
  BY <1>2, <1>9, UnlinkFacts
<1> HIDE DEF m2
<1>11. /\ Heap(m3) /\ DOMAIN m3 = DOMAIN t
       /\ \A x \in DOMAIN t : x # p => m3[x] = m2[x]
       /\ Kept(m2, m3, p) /\ Labels(m3, p) = Labels(m2, p) \ {k}
       /\ \A x \in Labels(m2, p) : x # k => Kid(m3, p, x) = Kid(m2, p, x)
  BY <1>2, <1>10, UnlinkFacts
<1> HIDE DEF m3
<1>12. /\ Heap(m4) /\ DOMAIN m4 = DOMAIN t
       /\ \A x \in DOMAIN t : x # p => m4[x] = m3[x]
       /\ Kept(m3, m4, p) /\ Labels(m4, p) = Labels(m3, p) \cup {j} /\ Kid(m4, p, j) = c
       /\ \A x \in Labels(m3, p) : x # j => Kid(m4, p, x) = Kid(m3, p, x)
  BY <1>2, <1>7, <1>11, LinkFacts
<1> HIDE DEF m4
<1>13. /\ \A x \in DOMAIN t : x # p /\ x # n /\ x # c => m4[x] = t[x]
       /\ m4[c].m_depth = t[n].m_depth /\ m4[c].m_parent = p /\ m4[c].m_key = j
       /\ m4[c].m_is_leaf = t[c].m_is_leaf /\ m4[c].m_value = t[c].m_value
       /\ m4[c].m_children = t[c].m_children
       /\ Labels(m4, n) = {}
  <2>1. m4[c] = m1[c]
    BY <1>3, <1>4, <1>10, <1>11, <1>12
  <2>2. Labels(m4, n) = {}
    <3>1. m4[n] = m2[n] /\ m1[n] = t[n]
      BY <1>2, <1>4, <1>9, <1>11, <1>12
    <3>2. Labels(m4, n) = Labels(m2, n) /\ Labels(m1, n) = Labels(t, n)
      BY <3>1 DEF Labels
    <3> QED  BY <3>2, <1>10
  <2> QED  BY <2>1, <2>2, <1>9, <1>10, <1>11, <1>12
<1>14. /\ Kept(t, m4, p) /\ Labels(m4, p) = (Labels(t, p) \ {k}) \cup {j} /\ Kid(m4, p, j) = c
       /\ \A x \in Labels(t, p) : x # k => Kid(m4, p, x) = Kid(t, p, x)
  <2>1. m2[p] = t[p]
    BY <1>2, <1>4, <1>9, <1>10
  <2>2. Labels(m2, p) = Labels(t, p) /\ \A x : Kid(m2, p, x) = Kid(t, p, x)
    BY <2>1 DEF Labels, Kid
  <2>3. Kept(t, m4, p)
    BY <2>1, <1>11, <1>12 DEF Kept
  <2>4. Labels(m4, p) = (Labels(t, p) \ {k}) \cup {j}
    BY <2>2, <1>11, <1>12
  <2>5. \A x \in Labels(t, p) : x # k => Kid(m4, p, x) = Kid(t, p, x)
    BY <2>2, <1>8, <1>11, <1>12
  <2> QED  BY <2>3, <2>4, <2>5, <1>12
<1>15. \A x \in DOMAIN t : x # p /\ x # n =>
         Labels(m4, x) = Labels(t, x) /\ \A y : Kid(m4, x, y) = Kid(t, x, y)
  BY <1>13 DEF Labels, Kid
<1>16. \A x \in DOMAIN t : \A y \in Labels(m4, x) :
         /\ Kid(m4, x, y) \in DOMAIN t \ {n}
         /\ (x # p \/ y # j) => Kid(m4, x, y) = Kid(t, x, y) /\ y \in Labels(t, x)
  <2> SUFFICES ASSUME NEW x \in DOMAIN t, NEW y \in Labels(m4, x)
               PROVE  /\ Kid(m4, x, y) \in DOMAIN t \ {n}
                      /\ (x # p \/ y # j) => Kid(m4, x, y) = Kid(t, x, y) /\ y \in Labels(t, x)
    OBVIOUS
  <2>1. CASE x = p /\ y = j
    BY <2>1, <1>3, <1>4, <1>14
  <2>2. CASE x = p /\ y # j
    <3>1. y \in Labels(t, p) /\ y # k /\ Kid(m4, p, y) = Kid(t, p, y)
      BY <2>2, <1>14
    <3>2. Kid(t, p, y) \in DOMAIN t /\ Key(t, Kid(t, p, y)) = y
      BY <3>1, <1>2, OwnerOfKid
    <3> QED  BY <2>2, <3>1, <3>2, <1>2
  <2>3. CASE x # p
    <3>1. x # n
      BY <1>13
    <3>2. y \in Labels(t, x) /\ Kid(m4, x, y) = Kid(t, x, y)
      BY <2>3, <3>1, <1>15
    <3>3. Kid(t, x, y) \in DOMAIN t /\ Parent(t, Kid(t, x, y)) = x
      BY <3>2, OwnerOfKid
    <3> QED  BY <2>3, <3>2, <3>3, <1>2
  <2> QED  BY <2>1, <2>2, <2>3
<1>17. \A x \in DOMAIN m4 : Children(m4, x) \subseteq DOMAIN m4
  BY <1>12, <1>16 DEF Children, Kid
<1>18. Heap(u) /\ DOMAIN u = DOMAIN t \ {n} /\ \A x \in DOMAIN t : x # n => u[x] = m4[x]
  <2>1. Heap(m4) /\ n \in DOMAIN m4 /\ DOMAIN m4 = DOMAIN t /\ Labels(m4, n) = {}
    BY <1>2, <1>12, <1>13
  <2> QED  BY <2>1, <1>17, FreeFacts
<1> HIDE DEF u
<1>19. \A x \in DOMAIN u : Labels(u, x) = Labels(m4, x) /\ \A y : Kid(u, x, y) = Kid(m4, x, y)
  BY <1>18 DEF Labels, Kid
<1>20. \A x \in DOMAIN u : x # p /\ x # c => u[x] = t[x]
  BY <1>13, <1>18
<1>21. \A x \in DOMAIN u : x # c => Kept(t, u, x)
  <2> SUFFICES ASSUME NEW x \in DOMAIN u, x # c PROVE Kept(t, u, x)
    OBVIOUS
  <2>1. CASE x = p
    BY <2>1, <1>14, <1>18 DEF Kept
  <2>2. CASE x # p
    BY <2>2, <1>20 DEF Kept
  <2> QED  BY <2>1, <2>2
<1>22. p \in DOMAIN u /\ c \in DOMAIN u /\ Root \in DOMAIN u
  BY <1>1, <1>2, <1>3, <1>4, <1>18
<1>23. /\ u[c].m_depth = Len(p[1]) /\ u[c].m_parent = p /\ u[c].m_key = j
       /\ u[c].m_is_leaf = t[c].m_is_leaf /\ u[c].m_value = t[c].m_value
       /\ u[c].m_children = t[c].m_children
  BY <1>2, <1>3, <1>4, <1>13, <1>18
<1>24. \A x \in DOMAIN u : LeafOK(u, x)
  <2> TAKE x \in DOMAIN u
  <2>1. LeafOK(t, x) /\ x \in DOMAIN t
    BY <1>18, TreeParts
  <2>2. CASE x = c
    BY <2>1, <2>2, <1>3, <1>23 DEF LeafOK
  <2>3. CASE x # c
    <3>1. x[2] => Labels(u, x) = Labels(t, x)
      BY <2>3, <1>2, <1>15, <1>18, <1>19
    <3> QED  BY <3>1, <2>1, <2>3, <1>21, LeafKept
  <2> QED  BY <2>2, <2>3
<1>25. Hangs(u, c)
  <2>1. j \in Labels(u, p) /\ Kid(u, p, j) = c
    BY <1>14, <1>19, <1>22
  <2> QED  BY <2>1, <1>2, <1>3, <1>7, <1>22, <1>23 DEF Hangs, Parent, Key
<1>26. \A x \in DOMAIN u : x # c => Hangs(u, x)
  <2> SUFFICES ASSUME NEW x \in DOMAIN u, x # c PROVE Hangs(u, x)
    OBVIOUS
  <2>1. Hangs(t, x) /\ Kept(t, u, x) /\ x \in DOMAIN t /\ x # n
    BY <1>18, <1>21, TreeParts
  <2>2. ASSUME x # Root
        PROVE  /\ Parent(t, x) \in DOMAIN u /\ Key(t, x) \in Labels(u, Parent(t, x))
               /\ Kid(u, Parent(t, x), Key(t, x)) = x
    <3> DEFINE q == Parent(t, x)
               y == Key(t, x)
    <3>1. q \in DOMAIN t /\ y \in Labels(t, q) /\ Kid(t, q, y) = x
      BY <2>1, <2>2 DEF Hangs
    <3> HIDE DEF q, y
    <3>2. q # n
      BY <3>1, <1>3
    <3>3. q = p => y # k
      BY <3>1, <2>1, <1>2
    <3>4. y \in Labels(m4, q) /\ Kid(m4, q, y) = x
      BY <3>1, <3>2, <3>3, <1>14, <1>15
    <3>5. q \in DOMAIN u
      BY <3>1, <3>2, <1>18
    <3> QED  BY <3>4, <3>5, <1>19 DEF q, y
  <2> QED  BY <2>1, <2>2, HangsKept
<1>27. \A x \in DOMAIN u : x # p => Branches(u, x)
  <2> SUFFICES ASSUME NEW x \in DOMAIN u, x # p PROVE Branches(u, x)
    OBVIOUS
  <2>1. Branches(t, x) /\ x \in DOMAIN t /\ x # n
    BY <1>18, TreeParts
  <2>2. Labels(u, x) = Labels(t, x) /\ \A y : Kid(u, x, y) = Kid(t, x, y)
    BY <2>1, <1>15, <1>19
  <2>3. ASSUME NEW y \in Labels(t, x)
        PROVE  /\ Kid(t, x, y) \in DOMAIN u
               /\ Parent(u, Kid(t, x, y)) = Parent(t, Kid(t, x, y))
               /\ Key(u, Kid(t, x, y)) = Key(t, Kid(t, x, y))
    <3>1. Kid(t, x, y) \in DOMAIN t /\ Parent(t, Kid(t, x, y)) = x
      BY <2>1, OwnerOfKid
    <3>2. Kid(t, x, y) # n /\ Kid(t, x, y) # c
      BY <3>1, <2>1, <1>2, <1>3
    <3>3. Kid(t, x, y) \in DOMAIN u
      BY <3>1, <3>2, <1>18
    <3> QED  BY <3>2, <3>3, <1>21 DEF Kept, Parent, Key
  <2> QED  BY <2>1, <2>2, <2>3, BranchesKept
<1>28. Branches(u, p)
  <2>1. Branches(t, p)
    BY <1>2, TreeParts
  <2>2. Labels(u, p) = (Labels(t, p) \ {k}) \cup {j}
    BY <1>14, <1>19, <1>22
  <2>3. IsFiniteSet(Labels(u, p))
    <3>1. IsFiniteSet(Labels(t, p))
      BY <2>1 DEF Branches
    <3>2. IsFiniteSet(Labels(t, p) \ {k})
      BY <3>1, FS_RemoveElement
    <3>3. IsFiniteSet((Labels(t, p) \ {k}) \cup {j})
      BY <3>2, FS_AddElement
    <3> QED  BY <2>2, <3>3
  <2>4. ASSUME NEW y \in Labels(u, p)
        PROVE  /\ Kid(u, p, y) \in DOMAIN u \ {Root}
               /\ Parent(u, Kid(u, p, y)) = p /\ Key(u, Kid(u, p, y)) = y
    <3>1. CASE y = j
      <4>1. Kid(u, p, y) = c
        BY <3>1, <1>14, <1>19, <1>22
      <4> QED  BY <4>1, <3>1, <1>3, <1>22, <1>23 DEF Parent, Key
    <3>2. CASE y # j
      <4>1. y \in Labels(t, p) /\ y # k /\ Kid(u, p, y) = Kid(t, p, y)
        BY <3>2, <2>2, <1>14, <1>19, <1>22
      <4>2. /\ Kid(t, p, y) \in DOMAIN t \ {Root} /\ Parent(t, Kid(t, p, y)) = p
            /\ Key(t, Kid(t, p, y)) = y
        BY <4>1, <2>1 DEF Branches
      <4>3. Kid(t, p, y) # n /\ Kid(t, p, y) # c
        BY <4>1, <4>2, <1>2, <1>3, <1>4
      <4>4. Kid(t, p, y) \in DOMAIN u
        BY <4>2, <4>3, <1>18
      <4> QED  BY <4>1, <4>2, <4>3, <4>4, <1>21 DEF Kept, Parent, Key
    <3> QED  BY <3>1, <3>2
  <2>5. \A l1, l2 \in Labels(u, p) : l1 # l2 /\ l1 # Nul /\ l2 # Nul => l1[1] # l2[1]
    BY <2>1, <2>2, <1>8 DEF Branches
  <2> QED  BY <2>3, <2>4, <2>5 DEF Branches
<1>29. Tree(u)
  BY <1>18, <1>22, <1>24, <1>25, <1>26, <1>27, <1>28 DEF Tree
<1>30. /\ Kept(t, u, p) /\ Labels(u, p) = (Labels(t, p) \ {k}) \cup {j}
       /\ j \notin Labels(t, p) \ {k}
  BY <1>4, <1>8, <1>14, <1>19, <1>21, <1>22
<1> QED  BY <1>4, <1>6, <1>18, <1>20, <1>22, <1>23, <1>29, <1>30 DEF Merged, j
-----------------------------------------------------------------------------
(* A label cut in two. *)
LEMMA CutLabel ==
  ASSUME NEW k \in Str, NEW count \in 1..Len(k) - 1
  PROVE  LET h == Substr(k, 0, count)
             r == Substr(k, count, Len(k) - count)
         IN  /\ h \in Str /\ r \in Str /\ h \o r = k /\ Len(h) = count /\ Len(r) = Len(k) - count
             /\ h # Nul /\ r # Nul /\ h[1] = k[1] /\ r[1] = k[count + 1]
<1> DEFINE h == Substr(k, 0, count)
           r == Substr(k, count, Len(k) - count)
<1>1. Len(k) \in Nat /\ 0 \in 0..Len(k) /\ count \in 0..Len(k) /\ count \in Nat
      /\ Len(k) - count \in Nat /\ 0 + count <= Len(k) /\ count + (Len(k) - count) <= Len(k)
  BY StringLength
<1>2. h \in Str /\ Len(h) = count /\ \A i \in 1..Len(h) : h[i] = k[0 + i]
  BY <1>1, SubstrFacts
<1>3. /\ r \in Str /\ Len(r) = Len(k) - count
      /\ \A i \in 1..Len(r) : r[i] = k[count + i]
  BY <1>1, SubstrFacts
<1> HIDE DEF h, r
<1>4. 1 \in 1..Len(h) /\ 1 \in 1..Len(r) /\ Len(h) # 0 /\ Len(r) # 0
  BY <1>1, <1>2, <1>3
<1>5. h[1] = k[1] /\ r[1] = k[count + 1] /\ h # Nul /\ r # Nul
  BY <1>2, <1>3, <1>4, NulString
<1>6. /\ h \o r \in Str /\ Len(h \o r) = Len(h) + Len(r)
      /\ \A i \in 1..Len(h) : (h \o r)[i] = h[i]
      /\ \A i \in 1..Len(r) : (h \o r)[Len(h) + i] = r[i]
  BY <1>2, <1>3, Joined
<1>7. Len(h \o r) = Len(k)
  BY <1>1, <1>2, <1>3, <1>6
<1>8. ASSUME NEW i \in 1..Len(k) PROVE (h \o r)[i] = k[i]
  <2>1. CASE i <= count
    <3>1. i \in 1..Len(h) /\ 0 + i = i
      BY <2>1, <1>1, <1>2
    <3> QED  BY <3>1, <1>2, <1>6
  <2>2. CASE ~(i <= count)
    <3>1. i - count \in 1..Len(r) /\ Len(h) + (i - count) = i /\ count + (i - count) = i
      BY <2>2, <1>1, <1>2, <1>3
    <3>2. (h \o r)[Len(h) + (i - count)] = r[i - count] /\ r[i - count] = k[count + (i - count)]
      BY <3>1, <1>3, <1>6
    <3> QED  BY <3>1, <3>2
  <2> QED  BY <2>1, <2>2
<1>9. h \o r = k
  BY <1>6, <1>7, <1>8, SameString
<1> QED  BY <1>2, <1>3, <1>5, <1>9 DEF h, r

(* A string cut within its last label. *)
LEMMA CutString ==
  ASSUME NEW s \in Str, NEW k \in Str, NEW count \in 0..Len(k)
  PROVE  Substr(s \o k, 0, Len(s) + count) = s \o Substr(k, 0, count)
<1> DEFINE n == s \o k
           h == Substr(k, 0, count)
           x == Substr(n, 0, Len(s) + count)
<1>1. Len(s) \in Nat /\ Len(k) \in Nat /\ count \in Nat
  BY StringLength
<1>2. /\ n \in Str /\ Len(n) = Len(s) + Len(k)
      /\ \A i \in 1..Len(s) : n[i] = s[i]
      /\ \A i \in 1..Len(k) : n[Len(s) + i] = k[i]
  BY Joined
<1> HIDE DEF n
<1>3. h \in Str /\ Len(h) = count /\ \A i \in 1..Len(h) : h[i] = k[0 + i]
  <2>1. 0 \in 0..Len(k) /\ 0 + count <= Len(k)
    BY <1>1
  <2> QED  BY <1>1, <2>1, SubstrFacts
<1>4. x \in Str /\ Len(x) = Len(s) + count /\ \A i \in 1..Len(x) : x[i] = n[0 + i]
  <2>1. 0 \in 0..Len(n) /\ Len(s) + count \in Nat /\ 0 + (Len(s) + count) <= Len(n)
    BY <1>1, <1>2
  <2> QED  BY <1>1, <1>2, <2>1, SubstrFacts
<1> HIDE DEF h, x
<1>5. /\ s \o h \in Str /\ Len(s \o h) = Len(s) + Len(h)
      /\ \A i \in 1..Len(s) : (s \o h)[i] = s[i]
      /\ \A i \in 1..Len(h) : (s \o h)[Len(s) + i] = h[i]
  BY <1>3, Joined
<1>6. ASSUME NEW i \in 1..Len(x) PROVE x[i] = (s \o h)[i]
  <2>1. x[i] = n[i]
    BY <1>1, <1>4
  <2>2. CASE i <= Len(s)
    <3>1. i \in 1..Len(s)
      BY <2>2, <1>1
    <3> QED  BY <3>1, <2>1, <1>2, <1>5
  <2>3. CASE ~(i <= Len(s))
    <3>1. i - Len(s) \in 1..Len(h) /\ i - Len(s) \in 1..Len(k) /\ Len(s) + (i - Len(s)) = i
          /\ 0 + (i - Len(s)) = i - Len(s)
      BY <2>3, <1>1, <1>3, <1>4
    <3>2. n[Len(s) + (i - Len(s))] = k[i - Len(s)] /\ (s \o h)[Len(s) + (i - Len(s))] = h[i - Len(s)]
          /\ h[i - Len(s)] = k[0 + (i - Len(s))]
      BY <3>1, <1>2, <1>3, <1>5
    <3> QED  BY <2>1, <3>1, <3>2
  <2> QED  BY <2>2, <2>3
<1>7. x = s \o h
  BY <1>3, <1>4, <1>5, <1>6, SameString
<1> QED  BY <1>7 DEF x, h, n

(* The new node a stands between p and n; k is cut into h and r. *)
Divided(t, u, p, k, n, a, h, r) ==
  /\ Tree(u) /\ DOMAIN u = DOMAIN t \cup {a} /\ a # p /\ a # n /\ n # p
  /\ \A x \in DOMAIN t : x # p /\ x # n => u[x] = t[x]
  /\ Kept(t, u, p) /\ Labels(u, p) = (Labels(t, p) \ {k}) \cup {h}
  /\ h \notin Labels(t, p) \ {k}
  /\ Labels(u, a) = {r} /\ u[n].m_children = t[n].m_children
  /\ u[n].m_is_leaf = t[n].m_is_leaf /\ u[n].m_value = t[n].m_value
  /\ u[n].m_parent = a /\ ~a[2] /\ a \in Address

(* A tree is a tree after the label of a node was split. *)
LEMMA SplitTree ==
  ASSUME NEW t, Tree(t), NEW p, NEW k, NEW n, Filed(t, p, k, n), k # Nul,
         NEW count \in 1..Len(k) - 1,
         <<p[1] \o Substr(k, 0, count), FALSE>> \notin DOMAIN t
  PROVE  Divided(t, Split(t, n, count), p, k, n, <<p[1] \o Substr(k, 0, count), FALSE>>,
                 Substr(k, 0, count), Substr(k, count, Len(k) - count))
<1> DEFINE h == Substr(k, 0, count)
           r == Substr(k, count, Len(k) - count)
           a == <<p[1] \o h, FALSE>>
           d == Len(p[1])
           m1 == Unlink(t, p, k)
           m2 == Moved(m1, n, a, d + count, r)
           m3 == Add(m2, a, TreeNode(p, d, h, FALSE, NullNode))
           u == Link(m3, a, r, n)
<1>1. Heap(t) /\ Root \in DOMAIN t
  BY TreeParts
<1>2. /\ p \in DOMAIN t /\ n \in DOMAIN t /\ n # Root /\ ~p[2] /\ k \in Labels(t, p) /\ k \in Str
      /\ Kid(t, p, k) = n /\ Parent(t, n) = p /\ Key(t, n) = k /\ ~n[2]
      /\ t[n].m_depth = Len(p[1]) /\ n[1] = p[1] \o k /\ p[1] \in Str
  BY DEF Filed
<1>3. n # p
  BY RankFalls
<1>4. /\ h \in Str /\ r \in Str /\ h \o r = k /\ Len(h) = count
      /\ h # Nul /\ r # Nul /\ h[1] = k[1]
  BY <1>2, CutLabel
<1>5. Split(t, n, count) = u
  <2>1. t[n].m_key = k /\ t[n].m_parent = p /\ t[n].m_depth = d
    BY <1>2 DEF Key, Parent
  <2>2. Substr(n[1], 0, d + count) = p[1] \o h
    <3>1. count \in 0..Len(k)
      BY <1>2, StringLength
    <3> QED  BY <1>2, <3>1, CutString
  <2> HIDE DEF d
  <2> QED  BY <2>1, <2>2 DEF Split
<1>6. p[1] \o h \in Str /\ Len(p[1] \o h) = d + count
  BY <1>2, <1>4, Joined
<1>7. a \in Address /\ a[1] = p[1] \o h /\ a[2] = FALSE /\ a \notin DOMAIN t
  BY <1>6, AddressFacts
<1>8. n[1] = a[1] \o r
  <2>1. (p[1] \o h) \o r = p[1] \o (h \o r)
    BY <1>2, <1>4, JoinedTwice
  <2> QED  BY <2>1, <1>2, <1>4, <1>7
<1>9. Len(a[1]) = d + count
  BY <1>6, <1>7
<1> HIDE DEF h, r, a, d
<1>10. a # p /\ a # n /\ a # Root
  BY <1>1, <1>2, <1>7
<1>11. \A x \in Labels(t, p) : x # k => x # h /\ (x # Nul => x[1] # h[1])
  <2>1. Branches(t, p)
    BY <1>2, TreeParts
  <2> QED  BY <2>1, <1>2, <1>4 DEF Branches
<1>12. /\ Heap(m1) /\ DOMAIN m1 = DOMAIN t
       /\ \A x \in DOMAIN t : x # p => m1[x] = t[x]
       /\ Kept(t, m1, p)
       /\ Labels(m1, p) = Labels(t, p) \ {k}
       /\ \A l \in Labels(t, p) : l # k => Kid(m1, p, l) = Kid(t, p, l)
  BY <1>1, <1>2, UnlinkFacts
<1> HIDE DEF m1
<1>13. /\ Heap(m2) /\ DOMAIN m2 = DOMAIN t
       /\ \A x \in DOMAIN t : x # n => m2[x] = m1[x]
       /\ m2[n].m_depth = d + count /\ m2[n].m_parent = a /\ m2[n].m_key = r
       /\ m2[n].m_is_leaf = m1[n].m_is_leaf /\ m2[n].m_value = m1[n].m_value
       /\ m2[n].m_children = m1[n].m_children
  BY <1>2, <1>12, MovedFacts
<1> HIDE DEF m2
<1>14. /\ Heap(m3) /\ DOMAIN m3 = DOMAIN t \cup {a}
       /\ \A x \in DOMAIN t : x # p => m3[x] = m2[x]
       /\ Kept(m2, m3, p) /\ Labels(m3, p) = Labels(m2, p) \cup {h} /\ Kid(m3, p, h) = a
       /\ \A l \in Labels(m2, p) : l # h => Kid(m3, p, l) = Kid(m2, p, l)
       /\ Labels(m3, a) = {} /\ m3[a].m_parent = p /\ m3[a].m_depth = d
       /\ m3[a].m_key = h /\ m3[a].m_is_leaf = FALSE
  <2>1. p \in DOMAIN m2 /\ a \notin DOMAIN m2
    BY <1>2, <1>7, <1>13
  <2>2. Added(m2, m3, a, p, d, h, FALSE, NullNode)
    BY <1>4, <1>7, <1>13, <2>1, AddFacts
  <2> QED  BY <2>2, <1>13 DEF Added
<1> HIDE DEF m3
<1>15. /\ Heap(u) /\ DOMAIN u = DOMAIN t \cup {a}
       /\ \A x \in DOMAIN t : u[x] = m3[x]
       /\ Kept(m3, u, a) /\ Labels(u, a) = {r} /\ Kid(u, a, r) = n
  <2>1. a \in DOMAIN m3
    BY <1>14
  <2>2. /\ Heap(u) /\ DOMAIN u = DOMAIN m3
        /\ \A x \in DOMAIN m3 : x # a => u[x] = m3[x]
        /\ Kept(m3, u, a) /\ Labels(u, a) = Labels(m3, a) \cup {r} /\ Kid(u, a, r) = n
    <3>1. Heap(m3) /\ r \in Str
      BY <1>4, <1>14
    <3> QED  BY <2>1, <3>1, LinkFacts
  <2> QED  BY <2>2, <1>7, <1>14
<1> HIDE DEF u
<1>16. \A x \in DOMAIN t : x # p /\ x # n => u[x] = t[x]
  BY <1>12, <1>13, <1>14, <1>15
<1>17. /\ u[a].m_parent = p /\ u[a].m_depth = d /\ u[a].m_key = h /\ u[a].m_is_leaf = FALSE
  BY <1>14, <1>15 DEF Kept
<1>18. /\ u[n].m_depth = d + count /\ u[n].m_parent = a /\ u[n].m_key = r
       /\ u[n].m_is_leaf = t[n].m_is_leaf /\ u[n].m_value = t[n].m_value
       /\ u[n].m_children = t[n].m_children
  BY <1>2, <1>3, <1>12, <1>13, <1>14, <1>15
<1>19. /\ Kept(t, u, p) /\ Labels(u, p) = (Labels(t, p) \ {k}) \cup {h} /\ Kid(u, p, h) = a
       /\ \A x \in Labels(t, p) : x # k => Kid(u, p, x) = Kid(t, p, x)
  <2>1. u[p] = m3[p] /\ m2[p] = m1[p]
    BY <1>2, <1>3, <1>13, <1>15
  <2>2. /\ Labels(u, p) = Labels(m3, p) /\ Labels(m2, p) = Labels(m1, p)
        /\ (\A x : Kid(u, p, x) = Kid(m3, p, x)) /\ (\A x : Kid(m2, p, x) = Kid(m1, p, x))
    BY <2>1 DEF Labels, Kid
  <2>3. Kept(t, u, p)
    BY <2>1, <1>12, <1>14 DEF Kept
  <2>4. Labels(u, p) = (Labels(t, p) \ {k}) \cup {h}
    BY <2>2, <1>12, <1>14
  <2>5. \A x \in Labels(t, p) : x # k => Kid(u, p, x) = Kid(t, p, x)
    BY <2>2, <1>11, <1>12, <1>14
  <2> QED  BY <2>2, <2>3, <2>4, <2>5, <1>14
<1>20. \A x \in DOMAIN t : x # p =>
         Labels(u, x) = Labels(t, x) /\ \A y : Kid(u, x, y) = Kid(t, x, y)
  BY <1>16, <1>18 DEF Labels, Kid
<1>21. \A x \in DOMAIN t : x # n => Kept(t, u, x)
  <2> SUFFICES ASSUME NEW x \in DOMAIN t, x # n PROVE Kept(t, u, x)
    OBVIOUS
  <2>1. CASE x = p
    BY <2>1, <1>19
  <2>2. CASE x # p
    BY <2>2, <1>16 DEF Kept
  <2> QED  BY <2>1, <2>2
<1>22. \A x \in DOMAIN u : LeafOK(u, x)
  <2> TAKE x \in DOMAIN u
  <2>1. CASE x = a
    BY <2>1, <1>7, <1>17 DEF LeafOK
  <2>2. CASE x = n
    <3>1. LeafOK(t, n)
      BY <1>2, TreeParts
    <3> QED  BY <2>2, <3>1, <1>2, <1>18 DEF LeafOK
  <2>3. CASE x # a /\ x # n
    <3>1. x \in DOMAIN t /\ LeafOK(t, x) /\ Kept(t, u, x)
      BY <2>3, <1>15, <1>21, TreeParts
    <3>2. x[2] => Labels(u, x) = Labels(t, x)
      BY <3>1, <1>2, <1>20
    <3> QED  BY <3>1, <3>2, LeafKept
  <2> QED  BY <2>1, <2>2, <2>3
<1>23. Hangs(u, a)
  <2>1. h \in Labels(u, p) /\ Kid(u, p, h) = a /\ p \in DOMAIN u
    BY <1>2, <1>15, <1>19
  <2>2. d = Len(p[1])
    BY DEF d
  <2> QED  BY <2>1, <2>2, <1>2, <1>4, <1>7, <1>10, <1>17 DEF Hangs, Parent, Key
<1>24. Hangs(u, n)
  <2>1. r \in Labels(u, a) /\ Kid(u, a, r) = n /\ a \in DOMAIN u
    BY <1>15
  <2> QED  BY <2>1, <1>2, <1>4, <1>7, <1>8, <1>9, <1>18 DEF Hangs, Parent, Key
<1>25. \A x \in DOMAIN t : x # n => Hangs(u, x)
  <2> SUFFICES ASSUME NEW x \in DOMAIN t, x # n PROVE Hangs(u, x)
    OBVIOUS
  <2>1. Hangs(t, x) /\ Kept(t, u, x)
    BY <1>21, TreeParts
  <2>2. ASSUME x # Root
        PROVE  /\ Parent(t, x) \in DOMAIN u /\ Key(t, x) \in Labels(u, Parent(t, x))
               /\ Kid(u, Parent(t, x), Key(t, x)) = x
    <3> DEFINE q == Parent(t, x)
               y == Key(t, x)
    <3>1. q \in DOMAIN t /\ y \in Labels(t, q) /\ Kid(t, q, y) = x
      BY <2>1, <2>2 DEF Hangs
    <3> HIDE DEF q, y
    <3>2. q = p => y # k
      BY <3>1, <2>1, <1>2
    <3>3. y \in Labels(u, q) /\ Kid(u, q, y) = x
      BY <3>1, <3>2, <1>19, <1>20
    <3> QED  BY <3>1, <3>3, <1>15 DEF q, y
  <2> QED  BY <2>1, <2>2, HangsKept
<1>26. \A x \in DOMAIN t : x # p => Branches(u, x)
  <2> SUFFICES ASSUME NEW x \in DOMAIN t, x # p PROVE Branches(u, x)
    OBVIOUS
  <2>1. Branches(t, x)
    BY TreeParts
  <2>2. Labels(u, x) = Labels(t, x) /\ \A y : Kid(u, x, y) = Kid(t, x, y)
    BY <1>20
  <2>3. ASSUME NEW y \in Labels(t, x)
        PROVE  /\ Kid(t, x, y) \in DOMAIN u
               /\ Parent(u, Kid(t, x, y)) = Parent(t, Kid(t, x, y))
               /\ Key(u, Kid(t, x, y)) = Key(t, Kid(t, x, y))
    <3>1. Kid(t, x, y) \in DOMAIN t /\ Parent(t, Kid(t, x, y)) = x
      BY OwnerOfKid
    <3>2. Kid(t, x, y) # n
      BY <3>1, <1>2
    <3> QED  BY <3>1, <3>2, <1>15, <1>21 DEF Kept, Parent, Key
  <2> QED  BY <2>1, <2>2, <2>3, BranchesKept
<1>27. Branches(u, a)
  <2>1. IsFiniteSet(Labels(u, a))
    BY <1>15, FS_Singleton
  <2>2. n \in DOMAIN u \ {Root} /\ Parent(u, n) = a /\ Key(u, n) = r
    BY <1>2, <1>15, <1>18 DEF Parent, Key
  <2> QED  BY <2>1, <2>2, <1>15 DEF Branches
<1>28. Branches(u, p)
  <2>1. Branches(t, p)
    BY <1>2, TreeParts
  <2>2. IsFiniteSet(Labels(u, p))
    <3>1. IsFiniteSet(Labels(t, p))
      BY <2>1 DEF Branches
    <3>2. IsFiniteSet(Labels(t, p) \ {k})
      BY <3>1, FS_RemoveElement
    <3>3. IsFiniteSet((Labels(t, p) \ {k}) \cup {h})
      BY <3>2, FS_AddElement
    <3> QED  BY <3>3, <1>19
  <2>3. ASSUME NEW y \in Labels(u, p)
        PROVE  /\ Kid(u, p, y) \in DOMAIN u \ {Root}
               /\ Parent(u, Kid(u, p, y)) = p /\ Key(u, Kid(u, p, y)) = y
    <3>1. CASE y = h
      BY <3>1, <1>10, <1>15, <1>17, <1>19 DEF Parent, Key
    <3>2. CASE y # h
      <4>1. y \in Labels(t, p) /\ y # k /\ Kid(u, p, y) = Kid(t, p, y)
        BY <3>2, <1>19
      <4>2. /\ Kid(t, p, y) \in DOMAIN t \ {Root} /\ Parent(t, Kid(t, p, y)) = p
            /\ Key(t, Kid(t, p, y)) = y
        BY <4>1, <2>1 DEF Branches
      <4>3. Kid(t, p, y) # n
        BY <4>1, <4>2, <1>2
      <4> QED  BY <4>1, <4>2, <4>3, <1>15, <1>21 DEF Kept, Parent, Key
    <3> QED  BY <3>1, <3>2
  <2>4. \A l1, l2 \in Labels(u, p) : l1 # l2 /\ l1 # Nul /\ l2 # Nul => l1[1] # l2[1]
    BY <2>1, <1>11, <1>19 DEF Branches
  <2> QED  BY <2>2, <2>3, <2>4 DEF Branches
<1>29. Tree(u)
  <2>1. Root \in DOMAIN u
    BY <1>1, <1>15
  <2>2. \A x \in DOMAIN u : Hangs(u, x) /\ Branches(u, x)
    BY <1>15, <1>23, <1>24, <1>25, <1>26, <1>27, <1>28
  <2> QED  BY <2>1, <2>2, <1>15, <1>22 DEF Tree
<1>30. h \notin Labels(t, p) \ {k}
  BY <1>11
<1>31. Divided(t, u, p, k, n, a, h, r)
  BY <1>3, <1>7, <1>10, <1>15, <1>16, <1>18, <1>19, <1>29, <1>30 DEF Divided
<1> QED  BY <1>5, <1>31 DEF a, h, r
-----------------------------------------------------------------------------
(* insert() *)

(* A label more, and a label replaced, leave a branching node one. *)
LEMMA NotBareWithMore ==
  ASSUME NEW t, NEW u, NEW p, NEW k, ~Bare(t, p), Labels(u, p) = Labels(t, p) \cup {k},
         k \notin Labels(t, p)
  PROVE  ~Bare(u, p)
<1>1. CASE p = Root \/ p[2]
  BY <1>1 DEF Bare
<1>2. CASE Labels(t, p) = {Nul}
  BY <1>2 DEF Bare
<1>3. CASE \E l1, l2 \in Labels(t, p) : l1 # l2
  <2>1. PICK l1 \in Labels(t, p), l2 \in Labels(t, p) : l1 # l2
    BY <1>3
  <2>2. l1 \in Labels(u, p) /\ l2 \in Labels(u, p)
    OBVIOUS
  <2> QED  BY <2>1, <2>2 DEF Bare
<1> QED  BY <1>1, <1>2, <1>3 DEF Bare

(* A node that swaps a label for another does not become bare. *)
LEMMA NotBareReplaced ==
  ASSUME NEW t, NEW u, NEW p, NEW k, NEW h, ~Bare(t, p), k \in Labels(t, p), k # Nul,
         Labels(u, p) = (Labels(t, p) \ {k}) \cup {h}, h \notin Labels(t, p) \ {k}
  PROVE  ~Bare(u, p)
<1>1. CASE p = Root \/ p[2]
  BY <1>1 DEF Bare
<1>2. CASE ~(p = Root \/ p[2])
  <2>1. PICK l1 \in Labels(t, p), l2 \in Labels(t, p) : l1 # l2
    BY <1>2 DEF Bare
  <2>2. PICK x \in Labels(t, p) : x # k
    BY <2>1
  <2>3. x \in Labels(u, p) /\ h \in Labels(u, p) /\ x # h
    BY <2>2
  <2> QED  BY <2>3 DEF Bare
<1> QED  BY <1>1, <1>2

(* What grows for key: its leaf, and nodes no longer than key. *)
Grows(t, u, key) ==
  /\ DOMAIN t \subseteq DOMAIN u
  /\ \A x \in DOMAIN t : u[x].m_value = t[x].m_value
  /\ \A x \in DOMAIN u \ DOMAIN t : Len(x[1]) <= Len(key) /\ (x[2] => x = <<key, TRUE>>)

(* To grow is transitive, *)
LEMMA GrowsTwice ==
  ASSUME NEW t, NEW u, NEW w, NEW key, Grows(t, u, key), Grows(u, w, key)
  PROVE  Grows(t, w, key)
BY DEF Grows

(* and what one more node is. *)
LEMMA PlantGrows ==
  ASSUME NEW t, NEW u, NEW p, NEW k, NEW n, NEW v, NEW key, Planted(t, u, p, k, n, v),
         Len(n[1]) <= Len(key), n[2] => n = <<key, TRUE>>
  PROVE  Grows(t, u, key)
<1>1. \A x \in DOMAIN t : u[x].m_value = t[x].m_value
  BY DEF Planted, Kept
<1>2. DOMAIN u = DOMAIN t \cup {n}
  BY DEF Planted
<1> QED  BY <1>1, <1>2 DEF Grows

(* Bareness of the nodes that a new one does not touch. *)
LEMMA PlantBare ==
  ASSUME NEW t, NEW u, NEW p, NEW k, NEW n, NEW v, Planted(t, u, p, k, n, v),
         NEW x \in DOMAIN t, ~Bare(t, x)
  PROVE  ~Bare(u, x)
<1>1. CASE x = p
  BY <1>1, NotBareWithMore DEF Planted
<1>2. CASE x # p
  <2>1. Labels(u, x) = Labels(t, x)
    BY <1>2 DEF Planted, Labels
  <2> QED  BY <2>1 DEF Bare
<1> QED  BY <1>1, <1>2

(* The rest of a string. *)
LEMMA RestOf ==
  ASSUME NEW a \in Str, NEW key \in Str, Begins(a, key)
  PROVE  LET rest == Substr(key, Len(a), Len(key) - Len(a))
         IN  /\ rest \in Str /\ Len(rest) = Len(key) - Len(a) /\ key = a \o rest
             /\ \A i \in 1..Len(rest) : rest[i] = key[Len(a) + i]
             /\ Len(key) = Len(a) => rest = Nul /\ key = a
             /\ Len(key) # Len(a) => rest # Nul /\ rest[1] = key[Len(a) + 1]
<1> DEFINE rest == Substr(key, Len(a), Len(key) - Len(a))
<1>1. Len(a) \in Nat /\ Len(key) \in Nat /\ Len(a) <= Len(key) /\ \A i \in 1..Len(a) : a[i] = key[i]
  BY StringLength DEF Begins
<1>2. /\ rest \in Str /\ Len(rest) = Len(key) - Len(a)
      /\ \A i \in 1..Len(rest) : rest[i] = key[Len(a) + i]
  <2>1. Len(a) \in 0..Len(key) /\ Len(key) - Len(a) \in Nat
        /\ Len(a) + (Len(key) - Len(a)) <= Len(key)
    BY <1>1
  <2> QED  BY <2>1, SubstrFacts
<1> HIDE DEF rest
<1>3. /\ a \o rest \in Str /\ Len(a \o rest) = Len(a) + Len(rest)
      /\ \A i \in 1..Len(a) : (a \o rest)[i] = a[i]
      /\ \A i \in 1..Len(rest) : (a \o rest)[Len(a) + i] = rest[i]
  BY <1>2, Joined
<1>4. Len(a \o rest) = Len(key)
  BY <1>1, <1>2, <1>3
<1>5. ASSUME NEW i \in 1..Len(key) PROVE (a \o rest)[i] = key[i]
  <2>1. CASE i <= Len(a)
    <3>1. i \in 1..Len(a)
      BY <2>1, <1>1
    <3> QED  BY <3>1, <1>1, <1>3
  <2>2. CASE ~(i <= Len(a))
    <3>1. i - Len(a) \in 1..Len(rest) /\ Len(a) + (i - Len(a)) = i
      BY <2>2, <1>1, <1>2
    <3>2. (a \o rest)[Len(a) + (i - Len(a))] = rest[i - Len(a)]
          /\ rest[i - Len(a)] = key[Len(a) + (i - Len(a))]
      BY <3>1, <1>2, <1>3
    <3> QED  BY <3>1, <3>2
  <2> QED  BY <2>1, <2>2
<1>6. key = a \o rest
  BY <1>3, <1>4, <1>5, SameString
<1>7. ASSUME Len(key) = Len(a) PROVE rest = Nul /\ key = a
  <2>1. Len(rest) = 0
    BY <1>1, <1>2, <1>7
  <2>2. Len(a) >= Len(key)
    BY <1>1, <1>7
  <2>3. key = a
    BY <2>2, BeginsSame
  <2> QED  BY <2>1, <2>3, <1>2, NulString
<1>8. ASSUME Len(key) # Len(a) PROVE rest # Nul /\ rest[1] = key[Len(a) + 1]
  <2>1. Len(rest) # 0 /\ 1 \in 1..Len(rest)
    BY <1>1, <1>2, <1>8
  <2> QED  BY <2>1, <1>2, NulString
<1> QED  BY <1>2, <1>6, <1>7, <1>8 DEF rest

(* A node's string is as long as m_depth and m_key say. *)
LEMMA NodeLength ==
  ASSUME NEW t, Tree(t), NEW n \in DOMAIN t
  PROVE  t[n].m_depth + Len(t[n].m_key) = Len(n[1])
<1>1. CASE n = Root
  <2>1. t[n].m_depth = 0 /\ t[n].m_key = Nul
    BY <1>1, TreeParts DEF Hangs
  <2> QED  BY <1>1, <2>1, AddressFacts, NulString
<1>2. CASE n # Root
  <2>1. Filed(t, Parent(t, n), Key(t, n), n)
    BY <1>2, ParentFacts
  <2> QED  BY <2>1 DEF Filed, Key
<1> QED  BY <1>1, <1>2

NoBare(t) == \A n \in DOMAIN t : ~Bare(t, n)

(* The leaf of a new key, and a tree that is compressed still. *)
Grown(t, u, key, val) ==
  /\ Tree(u) /\ NoBare(u) /\ Grows(t, u, key)
  /\ <<key, TRUE>> \in DOMAIN u \ DOMAIN t /\ u[<<key, TRUE>>].m_value = val

(* A leaf below the node that stands for its key. *)
LEMMA LeafBelow ==
  ASSUME NEW t, Tree(t), NEW n \in DOMAIN t, ~n[2], NEW key \in Str, n[1] = key,
         Nul \notin Labels(t, n), NEW v, NEW d, d = Len(key), <<key, TRUE>> \notin DOMAIN t
  PROVE  Planted(t, Add(t, <<key, TRUE>>, TreeNode(n, d, Nul, TRUE, Pair(key, v))),
                 n, Nul, <<key, TRUE>>, Pair(key, v))
<1>1. Nul \in Str /\ TRUE \in BOOLEAN /\ (TRUE <=> Nul = Nul) /\ d = Len(n[1])
  BY NulString
<1>2. key = n[1] \o Nul
  BY ConcatEmptySeq DEF Str, Nul
<1>3. Pair(key, v) = Pair(key, Pair(key, v).second)
  BY DEF Pair
<1> QED  BY <1>1, <1>2, <1>3, AddTree

(* A branch below n: a node for the rest of key, and key's leaf. *)
LEMMA BranchBelow ==
  ASSUME NEW t, Tree(t), NEW n \in DOMAIN t, ~n[2], NEW key \in Str, Begins(n[1], key),
         Len(key) > Len(n[1]),
         \A l \in Labels(t, n) : l # Nul => l[1] # key[Len(n[1]) + 1],
         <<key, FALSE>> \notin DOMAIN t, <<key, TRUE>> \notin DOMAIN t,
         NEW w, NEW v, NEW d, d = Len(n[1]), NEW e, e = Len(key),
         \A x \in DOMAIN t : x # n => ~Bare(t, x),
         ~Bare(t, n) \/ Labels(t, n) # {}
  PROVE  Grown(t, Add(Add(t, <<key, FALSE>>,
                          TreeNode(n, d, Substr(key, d, Len(key) - d), FALSE, w)),
                      <<key, TRUE>>, TreeNode(<<key, FALSE>>, e, Nul, TRUE, Pair(key, v))),
               key, Pair(key, v))
<1> DEFINE rest == Substr(key, d, Len(key) - d)
           inner == <<key, FALSE>>
           leaf == <<key, TRUE>>
           val == Pair(key, v)
           u == Add(t, inner, TreeNode(n, d, rest, FALSE, w))
           z == Add(u, leaf, TreeNode(inner, e, Nul, TRUE, val))
<1>1. n[1] \in Str /\ Len(n[1]) \in Nat /\ Len(key) \in Nat /\ Len(key) # Len(n[1])
  BY NodeFacts, StringLength
<1>2. rest \in Str /\ key = n[1] \o rest /\ rest # Nul /\ rest[1] = key[Len(n[1]) + 1]
  <2> DEFINE a == n[1]
             r == Substr(key, Len(a), Len(key) - Len(a))
  <2>1. a \in Str /\ Begins(a, key) /\ Len(key) # Len(a)
    BY <1>1
  <2>2. rest = r
    OBVIOUS
  <2> HIDE DEF rest, a
  <2>3. r \in Str /\ key = a \o r /\ r # Nul /\ r[1] = key[Len(a) + 1]
    BY <2>1, RestOf
  <2> QED  BY <2>2, <2>3 DEF a
<1>3. inner[1] = key /\ ~inner[2] /\ leaf[1] = key /\ leaf[2] = TRUE /\ leaf # inner
  OBVIOUS
<1> HIDE DEF rest
<1>4. \A l \in Labels(t, n) : l # Nul => l[1] # rest[1]
  BY <1>2
<1>5. rest \notin Labels(t, n)
  BY <1>2, <1>4
<1>6. Planted(t, u, n, rest, inner, w)
  <2>1. FALSE \in BOOLEAN /\ (FALSE <=> rest = Nul) /\ (FALSE => w = Pair(key, w.second))
    BY <1>2
  <2> QED  BY <1>2, <1>4, <1>5, <2>1, AddTree
<1> HIDE DEF u
<1>7. /\ Tree(u) /\ DOMAIN u = DOMAIN t \cup {inner} /\ Labels(u, inner) = {}
      /\ Labels(u, n) = Labels(t, n) \cup {rest}
  BY <1>6 DEF Planted
<1>8. Planted(u, z, inner, Nul, leaf, val)
  <2>1. /\ inner \in DOMAIN u /\ ~inner[2] /\ inner[1] = key /\ Nul \notin Labels(u, inner)
        /\ leaf \notin DOMAIN u
    BY <1>3, <1>7
  <2> HIDE DEF inner
  <2> QED  BY <2>1, <1>7, LeafBelow
<1> HIDE DEF z, inner, leaf
<1>9. Tree(z) /\ DOMAIN z = DOMAIN u \cup {leaf} /\ z[leaf].m_value = val
      /\ Labels(z, inner) = {Nul}
  BY <1>7, <1>8 DEF Planted
<1>10. Grows(t, u, key) /\ Grows(u, z, key)
  <2>1. Len(inner[1]) <= Len(key) /\ (inner[2] => inner = <<key, TRUE>>)
    BY <1>1, <1>3 DEF inner
  <2>2. Len(leaf[1]) <= Len(key) /\ (leaf[2] => leaf = <<key, TRUE>>)
    BY <1>1, <1>3 DEF leaf
  <2> QED  BY <1>6, <1>8, <2>1, <2>2, PlantGrows
<1>11. ~Bare(u, n)
  <2>1. CASE ~Bare(t, n)
    BY <2>1, <1>5, <1>7, NotBareWithMore
  <2>2. CASE Labels(t, n) # {}
    <3>1. PICK l : l \in Labels(t, n)
      BY <2>2
    <3>2. l # rest /\ l \in Labels(u, n) /\ rest \in Labels(u, n)
      BY <3>1, <1>5, <1>7
    <3> QED  BY <3>2, <1>2 DEF Bare
  <2> QED  BY <2>1, <2>2
<1>12. \A x \in DOMAIN t : ~Bare(u, x)
  BY <1>6, <1>11, PlantBare
<1>13. ASSUME NEW x \in DOMAIN z PROVE ~Bare(z, x)
  <2>1. CASE x = inner
    BY <2>1, <1>9 DEF Bare
  <2>2. CASE x = leaf
    BY <2>2, <1>3 DEF Bare
  <2>3. CASE x # inner /\ x # leaf
    <3>1. x \in DOMAIN t /\ x \in DOMAIN u
      BY <2>3, <1>7, <1>9
    <3> QED  BY <3>1, <1>8, <1>12, PlantBare
  <2> QED  BY <2>1, <2>2, <2>3
<1>14. leaf \in DOMAIN z \ DOMAIN t
  BY <1>7, <1>9, <1>3 DEF leaf
<1>15. Grows(t, z, key)
  BY <1>10, GrowsTwice
<1>16. Grown(t, z, key, val)
  BY <1>9, <1>13, <1>14, <1>15 DEF Grown, NoBare, leaf
<1> QED  BY <1>16 DEF z, u, rest, inner, leaf

(* append() *)
LEMMA AppendGrows ==
  ASSUME NEW t, Tree(t), NoBare(t), NEW key \in Str, NEW n, FoundEnd(t, key, n), NEW v,
         <<key, TRUE>> \notin DOMAIN t
  PROVE  Grown(t, AppendNode(t, n, Pair(key, v)), key, Pair(key, v))
<1>1. n \in DOMAIN t /\ ~n[2] /\ Begins(n[1], key)
  BY DEF FoundEnd
<1>2. /\ n[1] \in Str /\ Len(n[1]) \in Nat /\ Len(key) \in Nat /\ Len(n[1]) <= Len(key)
      /\ ~Bare(t, n)
  BY <1>1, NodeFacts, StringLength DEF Begins, NoBare
<1> DEFINE d == t[n].m_depth + Len(t[n].m_key)
           len == Len(key) - d
           rest == Substr(key, d, len)
           inner == <<key, FALSE>>
           leaf == <<key, TRUE>>
           val == Pair(key, v)
<1>3. d = Len(n[1])
  BY <1>1, NodeLength
<1>4. val.first = key
  BY DEF Pair
<1> HIDE DEF d, val
<1>5. AppendNode(t, n, val) =
        IF len = 0 THEN Add(t, leaf, TreeNode(n, d, Nul, TRUE, val))
        ELSE Add(Add(t, inner, TreeNode(n, d, rest, FALSE, val)),
                 leaf, TreeNode(inner, d + len, Nul, TRUE, val))
  BY <1>4 DEF AppendNode, d
<1>6. CASE len = 0
  <2>1. Len(key) = Len(n[1]) /\ d = Len(key)
    BY <1>2, <1>3, <1>6
  <2>2. n[1] = key /\ Nul \notin Labels(t, n)
    BY <2>1, EndHasNoLeaf
  <2> DEFINE u == Add(t, leaf, TreeNode(n, d, Nul, TRUE, val))
  <2>3. Planted(t, u, n, Nul, leaf, val)
    BY <1>1, <2>1, <2>2, LeafBelow DEF val
  <2> HIDE DEF u
  <2>4. leaf[1] = key /\ leaf[2] = TRUE
    OBVIOUS
  <2> HIDE DEF leaf
  <2>5. Tree(u) /\ DOMAIN u = DOMAIN t \cup {leaf} /\ u[leaf].m_value = val /\ leaf \notin DOMAIN t
    BY <2>3 DEF Planted
  <2>6. Grows(t, u, key)
    <3>1. Len(leaf[1]) <= Len(key) /\ (leaf[2] => leaf = <<key, TRUE>>)
      BY <1>2, <2>4 DEF leaf
    <3> QED  BY <2>3, <3>1, PlantGrows
  <2>7. ASSUME NEW x \in DOMAIN u PROVE ~Bare(u, x)
    <3>1. CASE x = leaf
      BY <3>1, <2>4 DEF Bare
    <3>2. CASE x # leaf
      <4>1. x \in DOMAIN t /\ ~Bare(t, x)
        BY <3>2, <2>5 DEF NoBare
      <4> QED  BY <4>1, <2>3, PlantBare
    <3> QED  BY <3>1, <3>2
  <2>8. Grown(t, u, key, val)
    BY <2>5, <2>6, <2>7 DEF Grown, NoBare, leaf
  <2> QED  BY <2>8, <1>5, <1>6 DEF u, leaf, val
<1>7. CASE len # 0
  <2>1. Len(key) > Len(n[1]) /\ d + len = Len(key)
    BY <1>2, <1>3, <1>7
  <2>2. inner \notin DOMAIN t /\ \A l \in Labels(t, n) : l # Nul => l[1] # key[Len(n[1]) + 1]
    BY <2>1, EndIsNew
  <2>3. \A x \in DOMAIN t : ~Bare(t, x)
    BY DEF NoBare
  <2> DEFINE e == d + len
             u == Add(Add(t, inner, TreeNode(n, d, Substr(key, d, Len(key) - d), FALSE, val)),
                      leaf, TreeNode(inner, e, Nul, TRUE, Pair(key, v)))
  <2>4. e = Len(key)
    BY <2>1
  <2> HIDE DEF e
  <2>5. Grown(t, u, key, Pair(key, v))
    BY <1>1, <1>2, <1>3, <2>1, <2>2, <2>3, <2>4, BranchBelow
  <2> QED  BY <2>5, <1>5, <1>7 DEF e, val
<1> QED  BY <1>6, <1>7

(* prepend(): where the label of n and key part. *)
Parting(t, n, key, count) ==
  /\ count \in 1..Len(Key(t, n)) - 1
  /\ Len(Parent(t, n)[1]) + count <= Len(key)
  /\ \A i \in 1..count : Key(t, n)[i] = key[Len(Parent(t, n)[1]) + i]
  /\ Len(Parent(t, n)[1]) + count < Len(key)
       => Key(t, n)[count + 1] # key[Len(Parent(t, n)[1]) + count + 1]

(* What prepend() counts is where the key parts from the label, *)
LEMMA SharedFacts ==
  ASSUME NEW t, Tree(t), NEW key \in Str, NEW n, FoundFork(t, key, n), NEW v
  PROVE  Parting(t, n, key, Shared(t, n, Pair(key, v)))
<1> DEFINE p == Parent(t, n)
           k == Key(t, n)
           d == Len(p[1])
           w == Substr(key, d, Len(key))
           count == CommonLen(k, w)
<1>1. /\ n \in DOMAIN t /\ ~n[2] /\ n # Root /\ ~Begins(n[1], key)
      /\ Begins(p[1], key) /\ d < Len(key) /\ k[1] = key[d + 1]
  BY DEF FoundFork
<1>2. Filed(t, p, k, n)
  BY <1>1, ParentFacts
<1>3. Shared(t, n, Pair(key, v)) = count
  <2>1. t[n].m_depth = d /\ t[n].m_key = k
    BY <1>2 DEF Filed, Key
  <2> QED  BY <2>1 DEF Shared, Pair
<1> HIDE DEF p, k
<1>4. /\ p[1] \in Str /\ k \in Str /\ k # Nul /\ n[1] \in Str /\ Len(n[1]) = d + Len(k)
      /\ \A i \in 1..Len(k) : n[1][d + i] = k[i]
  BY <1>1, <1>2 DEF Filed
<1>5. d \in Nat /\ Len(k) \in Nat /\ Len(k) # 0 /\ Len(key) \in Nat
  BY <1>4, StringLength, NulString
<1>6. \A i \in 1..d : p[1][i] = n[1][i] /\ p[1][i] = key[i]
  <2>1. Begins(p[1], n[1])
    BY <1>2 DEF Filed
  <2> QED  BY <2>1, <1>1 DEF Begins
<1> HIDE DEF d
<1>7. /\ w \in Str /\ Len(w) = Len(key) - d
      /\ \A i \in 1..Len(w) : w[i] = key[d + i]
  <2>1. d \in 0..Len(key)
    BY <1>1, <1>5
  <2>2. /\ w \in Str /\ Len(w) = (IF d + Len(key) <= Len(key) THEN Len(key) ELSE Len(key) - d)
        /\ \A i \in 1..Len(w) : w[i] = key[d + i]
    BY <2>1, <1>5, SubstrFacts
  <2>3. (IF d + Len(key) <= Len(key) THEN Len(key) ELSE Len(key) - d) = Len(key) - d
    BY <1>5
  <2> QED  BY <2>2, <2>3
<1> HIDE DEF w
<1>8. /\ count \in Nat /\ count <= Len(k) /\ count <= Len(w)
      /\ \A i \in 1..count : k[i] = w[i]
      /\ count < Len(k) /\ count < Len(w) => k[count + 1] # w[count + 1]
  BY <1>4, <1>7, CommonFacts
<1> HIDE DEF count
<1>9. count # 0
  <2> SUFFICES ASSUME count = 0 PROVE FALSE
    OBVIOUS
  <2>1. count < Len(k) /\ count < Len(w) /\ count + 1 = 1
    BY <1>1, <1>5, <1>7
  <2>2. k[1] # w[1]
    BY <2>1, <1>8
  <2>3. 1 \in 1..Len(w)
    BY <1>1, <1>5, <1>7
  <2> QED  BY <2>2, <2>3, <1>1, <1>7
<1>10. \A i \in 1..count : k[i] = key[d + i]
  <2> TAKE i \in 1..count
  <2>1. i \in 1..Len(w)
    BY <1>5, <1>7, <1>8
  <2> QED  BY <2>1, <1>7, <1>8
<1>11. count # Len(k)
  <2> SUFFICES ASSUME count = Len(k) PROVE FALSE
    OBVIOUS
  <2>1. ASSUME NEW i \in 1..Len(n[1]) PROVE n[1][i] = key[i]
    <3>1. CASE i <= d
      <4>1. i \in 1..d
        BY <3>1, <1>5
      <4>2. p[1][i] = n[1][i] /\ p[1][i] = key[i]
        BY <4>1, <1>6
      <4> QED  BY <4>2
    <3>2. CASE ~(i <= d)
      <4>1. i - d \in 1..Len(k) /\ d + (i - d) = i /\ i - d \in 1..count
        BY <3>2, <1>4, <1>5
      <4>2. n[1][d + (i - d)] = k[i - d] /\ k[i - d] = key[d + (i - d)]
        BY <4>1, <1>4, <1>10
      <4> QED  BY <4>1, <4>2
    <3> QED  BY <3>1, <3>2
  <2>2. Len(n[1]) <= Len(key)
    BY <1>4, <1>5, <1>7, <1>8
  <2>3. Begins(n[1], key)
    BY <2>1, <2>2 DEF Begins
  <2> QED  BY <2>3, <1>1
<1>12. d + count < Len(key) => k[count + 1] # key[d + count + 1]
  <2> SUFFICES ASSUME d + count < Len(key) PROVE k[count + 1] # key[d + count + 1]
    OBVIOUS
  <2>1. /\ count < Len(k) /\ count < Len(w) /\ count + 1 \in 1..Len(w)
        /\ d + (count + 1) = d + count + 1
    BY <1>5, <1>7, <1>8, <1>11
  <2>2. w[count + 1] = key[d + (count + 1)] /\ k[count + 1] # w[count + 1]
    BY <2>1, <1>7, <1>8
  <2> QED  BY <2>1, <2>2
<1>13. count \in 1..Len(k) - 1 /\ d + count <= Len(key)
  BY <1>5, <1>7, <1>8, <1>9, <1>11
<1> QED  BY <1>3, <1>10, <1>12, <1>13 DEF Parting, p, k, d

(* and never nothing: assert(count != 0) holds. *)
LEMMA NeverAborts ==
  ASSUME NEW t, Tree(t), NEW key \in Str, NEW n, FoundFork(t, key, n), NEW v
  PROVE  Shared(t, n, Pair(key, v)) # 0
<1>1. Parting(t, n, key, Shared(t, n, Pair(key, v)))
  BY SharedFacts
<1> DEFINE m == Shared(t, n, Pair(key, v))
<1> HIDE DEF m
<1>2. Parting(t, n, key, m)
  BY <1>1 DEF m
<1>3. n \in DOMAIN t /\ n # Root
  BY DEF FoundFork
<1>4. Key(t, n) \in Str
  BY <1>3, ParentFacts DEF Filed
<1>5. m # 0
  BY <1>2, <1>4, StringLength DEF Parting
<1> QED  BY <1>5 DEF m

(* The string at which a label is split. *)
LEMMA ForkString ==
  ASSUME NEW t, Tree(t), NEW key \in Str, NEW n, FoundFork(t, key, n), NEW count,
         Parting(t, n, key, count)
  PROVE  LET p == Parent(t, n)
             h == Substr(Key(t, n), 0, count)
             s == p[1] \o h
         IN  /\ s \in Str /\ Len(s) = Len(p[1]) + count /\ Begins(s, key)
             /\ <<s, FALSE>> \notin DOMAIN t
             /\ <<key, FALSE>> \notin DOMAIN t /\ <<key, TRUE>> \notin DOMAIN t
<1> DEFINE p == Parent(t, n)
           k == Key(t, n)
           d == Len(p[1])
           h == Substr(k, 0, count)
           s == p[1] \o h
<1>1. /\ n \in DOMAIN t /\ ~n[2] /\ n # Root /\ ~Begins(n[1], key)
      /\ Begins(p[1], key) /\ d < Len(key) /\ k[1] = key[d + 1]
  BY DEF FoundFork
<1>2. Filed(t, p, k, n)
  BY <1>1, ParentFacts
<1>3. /\ count \in 1..Len(k) - 1 /\ d + count <= Len(key)
      /\ \A i \in 1..count : k[i] = key[d + i]
  BY DEF Parting
<1>a. p = Parent(t, n) /\ k = Key(t, n)
  OBVIOUS
<1> HIDE DEF p, k
<1>4. /\ p[1] \in Str /\ k \in Str /\ n[1] \in Str /\ Len(n[1]) = d + Len(k)
  BY <1>2 DEF Filed
<1>5. d \in Nat /\ Len(k) \in Nat /\ Len(key) \in Nat /\ count \in Nat /\ 0 \in 0..Len(k)
      /\ 0 + count <= Len(k)
  BY <1>3, <1>4, StringLength
<1>6. h \in Str /\ Len(h) = count /\ \A i \in 1..Len(h) : h[i] = k[0 + i]
  BY <1>4, <1>5, SubstrFacts
<1>7. \A i \in 1..count : h[i] = k[i]
  BY <1>5, <1>6
<1> HIDE DEF h
<1>8. /\ s \in Str /\ Len(s) = d + count
      /\ \A i \in 1..d : s[i] = p[1][i]
      /\ \A i \in 1..count : s[d + i] = h[i]
  BY <1>4, <1>6, Joined
<1> HIDE DEF s, d
<1>9. \A i \in 1..d : p[1][i] = key[i]
  BY <1>1 DEF Begins, d
<1>10. Begins(s, key)
  <2>1. ASSUME NEW i \in 1..Len(s) PROVE s[i] = key[i]
    <3>1. CASE i <= d
      <4>1. i \in 1..d
        BY <3>1, <1>5
      <4> QED  BY <4>1, <1>8, <1>9
    <3>2. CASE ~(i <= d)
      <4>1. i - d \in 1..count /\ d + (i - d) = i
        BY <3>2, <1>5, <1>8
      <4>2. s[d + (i - d)] = h[i - d] /\ h[i - d] = k[i - d] /\ k[i - d] = key[d + (i - d)]
        BY <4>1, <1>3, <1>7, <1>8
      <4> QED  BY <4>1, <4>2
    <3> QED  BY <3>1, <3>2
  <2> QED  BY <2>1, <1>3, <1>8 DEF Begins
<1>11. Begins(p[1], s)
  <2>1. Len(p[1]) <= Len(s)
    BY <1>5, <1>8 DEF d
  <2> QED  BY <2>1, <1>8 DEF Begins, d
<1>12. <<s, FALSE>> \notin DOMAIN t
  <2>1. 1 \in 1..count
    BY <1>3, <1>5
  <2>2. s[d + 1] = k[1]
    BY <2>1, <1>7, <1>8
  <2>3. Len(s) > Len(p[1]) /\ s[Len(p[1]) + 1] = k[1]
    BY <2>2, <1>3, <1>5, <1>8 DEF d
  <2>4. ~Begins(n[1], s)
    BY <1>3, <1>4, <1>5, <1>8 DEF Begins
  <2>5. FALSE \in BOOLEAN
    OBVIOUS
  <2> QED  BY <2>3, <2>4, <2>5, <1>a, <1>8, <1>11, ForkIsNew
<1>13. <<key, FALSE>> \notin DOMAIN t /\ <<key, TRUE>> \notin DOMAIN t
  <2>1. Len(key) > Len(p[1]) /\ key[Len(p[1]) + 1] = k[1]
    BY <1>1, <1>5 DEF d
  <2> QED  BY <2>1, <1>1, <1>a, ForkIsNew
<1> QED  BY <1>a, <1>8, <1>10, <1>12, <1>13 DEF s, h, d

(* Splitting a label loses nothing and makes no node bare but the new one. *)
LEMMA DividedGrows ==
  ASSUME NEW t, Tree(t), NoBare(t), NEW u, NEW p, NEW k, NEW n, NEW a, NEW h, NEW r,
         Filed(t, p, k, n), k # Nul, Divided(t, u, p, k, n, a, h, r), a \notin DOMAIN t,
         NEW key, Len(a[1]) <= Len(key)
  PROVE  /\ Grows(t, u, key)
         /\ \A x \in DOMAIN u : x # a => ~Bare(u, x)
<1>1. /\ DOMAIN u = DOMAIN t \cup {a} /\ a # p /\ a # n /\ n # p /\ ~a[2]
      /\ \A x \in DOMAIN t : x # p /\ x # n => u[x] = t[x]
      /\ Kept(t, u, p) /\ Labels(u, p) = (Labels(t, p) \ {k}) \cup {h}
      /\ h \notin Labels(t, p) \ {k}
      /\ u[n].m_children = t[n].m_children /\ u[n].m_value = t[n].m_value
  BY DEF Divided
<1>2. k \in Labels(t, p)
  BY DEF Filed
<1>3. \A x \in DOMAIN t : u[x].m_value = t[x].m_value
  BY <1>1 DEF Kept
<1>4. Grows(t, u, key)
  BY <1>1, <1>3 DEF Grows
<1>5. ASSUME NEW x \in DOMAIN t PROVE ~Bare(u, x)
  <2>1. ~Bare(t, x)
    BY DEF NoBare
  <2>2. CASE x = p
    BY <2>1, <2>2, <1>1, <1>2, NotBareReplaced
  <2>3. CASE x # p
    <3>1. Labels(u, x) = Labels(t, x)
      BY <2>3, <1>1 DEF Labels
    <3> QED  BY <2>1, <3>1 DEF Bare
  <2> QED  BY <2>2, <2>3
<1> QED  BY <1>1, <1>4, <1>5

(* prepend() *)
LEMMA PrependGrows ==
  ASSUME NEW t, Tree(t), NoBare(t), NEW key \in Str, NEW n, FoundFork(t, key, n), NEW v
  PROVE  Grown(t, Prepend(t, n, Pair(key, v)), key, Pair(key, v))
<1> DEFINE p == Parent(t, n)
           k == Key(t, n)
           val == Pair(key, v)
           count == Shared(t, n, val)
           h == Substr(k, 0, count)
           r == Substr(k, count, Len(k) - count)
           s == p[1] \o h
           a == <<s, FALSE>>
           u == Split(t, n, count)
           depth == t[n].m_depth + count
           b == <<key, FALSE>>
           leaf == <<key, TRUE>>
<1>1. n \in DOMAIN t /\ ~n[2] /\ n # Root
  BY DEF FoundFork
<1>2. Filed(t, p, k, n)
  BY <1>1, ParentFacts
<1>3. Parting(t, n, key, count)
  BY SharedFacts
<1>a. p = Parent(t, n) /\ k = Key(t, n) /\ val.first = key /\ val = Pair(key, v)
  BY DEF Pair
<1> HIDE DEF p, k, val
<1>4. Prepend(t, n, val) =
        IF Len(key) = depth
        THEN Add(u, leaf, TreeNode(u[n].m_parent, depth, Nul, TRUE, val))
        ELSE Add(Add(u, b, TreeNode(u[n].m_parent, depth, Substr(key, depth, Len(key) - depth),
                                    FALSE, NullNode)),
                 leaf, TreeNode(b, Len(key), Nul, TRUE, val))
  BY <1>a DEF Prepend
<1> HIDE DEF count
<1>5. /\ k \in Str /\ k # Nul /\ t[n].m_depth = Len(p[1]) /\ p[1] \in Str
  BY <1>1, <1>2 DEF Filed
<1>6. Len(k) \in Nat /\ Len(p[1]) \in Nat /\ Len(key) \in Nat
  BY <1>5, StringLength
<1>7. /\ count \in 1..Len(k) - 1 /\ Len(p[1]) + count <= Len(key)
      /\ Len(p[1]) + count < Len(key) => k[count + 1] # key[Len(p[1]) + count + 1]
  BY <1>3, <1>a DEF Parting
<1>8. /\ s \in Str /\ Len(s) = Len(p[1]) + count /\ Begins(s, key)
      /\ a \notin DOMAIN t /\ b \notin DOMAIN t /\ leaf \notin DOMAIN t
  <2>1. LET q == Parent(t, n)
            g == Substr(Key(t, n), 0, count)
            z == q[1] \o g
        IN  /\ z \in Str /\ Len(z) = Len(q[1]) + count /\ Begins(z, key)
            /\ <<z, FALSE>> \notin DOMAIN t
            /\ <<key, FALSE>> \notin DOMAIN t /\ <<key, TRUE>> \notin DOMAIN t
    BY <1>3, ForkString
  <2> QED  BY <2>1, <1>a
<1>9. h \in Str /\ r \in Str /\ r # Nul /\ r[1] = k[count + 1]
  BY <1>5, <1>7, CutLabel
<1>10. Divided(t, u, p, k, n, a, h, r)
  BY <1>2, <1>5, <1>7, <1>8, SplitTree
<1>11. a[1] = s /\ ~a[2] /\ leaf[2] /\ leaf[1] = key /\ b[1] = key
  OBVIOUS
<1>12. depth = Len(a[1])
  BY <1>5, <1>8, <1>11
<1> HIDE DEF h, r, s, u, a, depth
<1>13. /\ Tree(u) /\ DOMAIN u = DOMAIN t \cup {a} /\ Labels(u, a) = {r} /\ u[n].m_parent = a
       /\ a \in DOMAIN u
  BY <1>10 DEF Divided
<1>14. /\ Grows(t, u, key) /\ \A x \in DOMAIN u : x # a => ~Bare(u, x)
  <2>1. Len(a[1]) <= Len(key)
    BY <1>7, <1>8, <1>11
  <2> QED  BY <1>2, <1>5, <1>8, <1>10, <2>1, DividedGrows
<1>15. leaf \notin DOMAIN u
  BY <1>8, <1>11, <1>13
<1>16. CASE Len(key) = depth
  <2> DEFINE z == Add(u, leaf, TreeNode(a, depth, Nul, TRUE, Pair(key, v)))
  <2>1. a[1] = key
    <3>1. s \in Str /\ Begins(s, key) /\ Len(s) >= Len(key)
      BY <1>6, <1>8, <1>11, <1>12, <1>16
    <3> QED  BY <3>1, <1>11, BeginsSame
  <2>2. Planted(u, z, a, Nul, leaf, Pair(key, v))
    <3>1. Nul \notin Labels(u, a) /\ depth = Len(key) /\ ~a[2]
      BY <1>9, <1>11, <1>13, <1>16
    <3> QED  BY <2>1, <3>1, <1>13, <1>15, LeafBelow
  <2> HIDE DEF z
  <2>3. /\ Tree(z) /\ DOMAIN z = DOMAIN u \cup {leaf} /\ z[leaf].m_value = val
        /\ Labels(z, a) = {r} \cup {Nul}
    BY <2>2, <1>a, <1>13 DEF Planted
  <2>4. Grows(u, z, key)
    <3>1. Len(leaf[1]) <= Len(key) /\ (leaf[2] => leaf = <<key, TRUE>>)
      BY <1>6, <1>11
    <3> QED  BY <2>2, <3>1, PlantGrows
  <2>5. ASSUME NEW x \in DOMAIN z PROVE ~Bare(z, x)
    <3>1. CASE x = leaf
      BY <3>1, <1>11 DEF Bare
    <3>2. CASE x = a
      <4>1. r \in Labels(z, a) /\ Nul \in Labels(z, a) /\ r # Nul
        BY <2>3, <1>9
      <4> QED  BY <3>2, <4>1 DEF Bare
    <3>3. CASE x # a /\ x # leaf
      <4>1. x \in DOMAIN u /\ ~Bare(u, x)
        BY <3>3, <2>3, <1>14
      <4> QED  BY <4>1, <2>2, PlantBare
    <3> QED  BY <3>1, <3>2, <3>3
  <2>6. leaf \in DOMAIN z \ DOMAIN t
    BY <2>3, <1>8
  <2>7. Grows(t, z, key)
    BY <2>4, <1>14, GrowsTwice
  <2>8. Grown(t, z, key, val)
    BY <2>3, <2>5, <2>6, <2>7 DEF Grown, NoBare
  <2> QED  BY <2>8, <1>4, <1>13, <1>16, <1>a DEF z
<1>17. CASE Len(key) # depth
  <2> DEFINE e == Len(key)
             z == Add(Add(u, b, TreeNode(a, depth, Substr(key, depth, Len(key) - depth),
                                         FALSE, NullNode)),
                      leaf, TreeNode(b, e, Nul, TRUE, Pair(key, v)))
  <2>1. Len(p[1]) + count < Len(key) /\ Len(key) > Len(a[1]) /\ Len(a[1]) = Len(p[1]) + count
    BY <1>6, <1>7, <1>8, <1>11, <1>12, <1>17
  <2>2. \A l \in Labels(u, a) : l # Nul => l[1] # key[Len(a[1]) + 1]
    BY <2>1, <1>7, <1>9, <1>13
  <2>3. b \notin DOMAIN u
    <3>1. Len(a[1]) \in Nat /\ a[1] # b[1]
      BY <2>1, <1>6, <1>8, <1>11
    <3> HIDE DEF b
    <3> QED  BY <3>1, <1>8, <1>13
  <2>4. Begins(a[1], key)
    BY <1>8, <1>11
  <2>5. e = Len(key)
    OBVIOUS
  <2> HIDE DEF e
  <2>6. Grown(u, z, key, Pair(key, v))
    <3>1. ~a[2] /\ Labels(u, a) # {}
      BY <1>11, <1>13
    <3> QED  BY <3>1, <2>1, <2>2, <2>3, <2>4, <2>5, <1>12, <1>13, <1>14, <1>15, BranchBelow
  <2> HIDE DEF z
  <2>7. Grown(t, z, key, val)
    <3>1. Tree(z) /\ NoBare(z) /\ Grows(u, z, key) /\ leaf \in DOMAIN z \ DOMAIN u /\ z[leaf].m_value = val
      BY <2>6, <1>a DEF Grown
    <3>2. Grows(t, z, key)
      BY <3>1, <1>14, GrowsTwice
    <3> QED  BY <3>1, <3>2, <1>13 DEF Grown
  <2> QED  BY <2>7, <1>4, <1>13, <1>17, <1>a DEF z, e
<1> QED  BY <1>16, <1>17, <1>a

(* insert() into a tree *)
LEMMA FoundSplits ==
  ASSUME NEW t, Tree(t), NEW key \in Str, NEW n, Found(t, key, n), NEW v
  PROVE  /\ n \in DOMAIN t /\ t[n].m_is_leaf = n[2]
         /\ FoundLeaf(t, key, n) <=> n[2]
         /\ FoundEnd(t, key, n) => n = Root \/ Continues(t, n, Pair(key, v))
         /\ FoundFork(t, key, n) => ~(n = Root \/ Continues(t, n, Pair(key, v)))
<1>1. n \in DOMAIN t /\ (FoundEnd(t, key, n) \/ FoundFork(t, key, n) => ~n[2])
  BY DEF Found, FoundLeaf, FoundEnd, FoundFork
<1>2. t[n].m_is_leaf = n[2] /\ n[2] \in BOOLEAN
  BY <1>1, NodeFacts
<1>3. FoundLeaf(t, key, n) <=> n[2]
  BY <1>1 DEF Found, FoundLeaf
<1> DEFINE p == Parent(t, n)
           k == Key(t, n)
           w == Substr(key, Len(p[1]), Len(k))
<1>4. ASSUME n # Root, Len(p[1]) <= Len(key), Begins(p[1], key)
      PROVE  Continues(t, n, Pair(key, v)) <=> Begins(n[1], key)
  <2>1. Filed(t, p, k, n)
    BY <1>1, <1>4, ParentFacts
  <2>2. Continues(t, n, Pair(key, v)) <=> w = k
    BY <2>1 DEF Continues, Pair, Filed, Key
  <2> HIDE DEF p, k
  <2>3. /\ p[1] \in Str /\ k \in Str /\ n[1] \in Str /\ Len(n[1]) = Len(p[1]) + Len(k)
        /\ Begins(p[1], n[1]) /\ \A i \in 1..Len(k) : n[1][Len(p[1]) + i] = k[i]
    BY <2>1 DEF Filed
  <2>4. Len(p[1]) \in Nat /\ Len(k) \in Nat /\ Len(key) \in Nat
    BY <2>3, StringLength
  <2> DEFINE d == Len(p[1])
  <2>5. d \in 0..Len(key) /\ d \in Nat
    BY <2>4, <1>4
  <2>6. /\ w \in Str
        /\ Len(w) = (IF d + Len(k) <= Len(key) THEN Len(k) ELSE Len(key) - d)
        /\ \A i \in 1..Len(w) : w[i] = key[d + i]
    <3> HIDE DEF d
    <3>1. w = Substr(key, d, Len(k))
      BY DEF d
    <3> HIDE DEF w
    <3> QED  BY <2>4, <2>5, <3>1, SubstrFacts
  <2>7. \A i \in 1..d : p[1][i] = n[1][i] /\ p[1][i] = key[i]
    BY <2>3, <1>4 DEF Begins
  <2> HIDE DEF w, d
  <2>a. d = Len(p[1])
    BY DEF d
  <2>8. ASSUME w = k PROVE Begins(n[1], key)
    <3>1. d + Len(k) <= Len(key) /\ Len(n[1]) = d + Len(k)
      BY <2>3, <2>4, <2>5, <2>6, <2>8, <2>a
    <3>2. ASSUME NEW i \in 1..Len(n[1]) PROVE n[1][i] = key[i]
      <4>1. CASE i <= d
        <5>1. i \in 1..d
          BY <4>1, <2>5
        <5> QED  BY <5>1, <2>7
      <4>2. CASE ~(i <= d)
        <5>1. i - d \in 1..Len(k) /\ d + (i - d) = i
          BY <4>2, <3>1, <2>4, <2>5
        <5>2. n[1][d + (i - d)] = k[i - d] /\ w[i - d] = key[d + (i - d)]
          BY <5>1, <2>3, <2>6, <2>8, <2>a
        <5> QED  BY <5>1, <5>2, <2>8
      <4> QED  BY <4>1, <4>2
    <3> QED  BY <3>1, <3>2 DEF Begins
  <2>9. ASSUME Begins(n[1], key) PROVE w = k
    <3>1. d + Len(k) <= Len(key) /\ Len(w) = Len(k) /\ \A i \in 1..Len(n[1]) : n[1][i] = key[i]
      BY <2>3, <2>4, <2>5, <2>6, <2>9, <2>a DEF Begins
    <3>2. ASSUME NEW i \in 1..Len(w) PROVE w[i] = k[i]
      <4>1. d + i \in 1..Len(n[1]) /\ i \in 1..Len(k)
        BY <3>1, <2>3, <2>4, <2>5, <2>a
      <4> QED  BY <4>1, <3>1, <2>3, <2>6, <2>a
    <3> QED  BY <3>1, <3>2, <2>3, <2>6, SameString
  <2> QED  BY <2>2, <2>8, <2>9
<1>5. ASSUME FoundEnd(t, key, n), n # Root PROVE Continues(t, n, Pair(key, v))
  <2>1. Begins(n[1], key)
    BY <1>5 DEF FoundEnd
  <2>2. Filed(t, p, k, n)
    BY <1>1, <1>5, ParentFacts
  <2>3. p[1] \in Str /\ n[1] \in Str /\ Begins(p[1], n[1])
    BY <2>2 DEF Filed
  <2>4. Begins(p[1], key)
    BY <2>1, <2>3, BeginsTransitive
  <2>5. Len(p[1]) <= Len(key)
    BY <2>4 DEF Begins
  <2> QED  BY <2>1, <2>4, <2>5, <1>4, <1>5
<1>6. ASSUME FoundFork(t, key, n) PROVE ~(n = Root \/ Continues(t, n, Pair(key, v)))
  <2>1. n # Root /\ ~Begins(n[1], key) /\ Begins(p[1], key)
    BY <1>6 DEF FoundFork
  <2>2. Len(p[1]) <= Len(key)
    BY <2>1 DEF Begins
  <2> QED  BY <2>1, <2>2, <1>4
<1> QED  BY <1>1, <1>2, <1>3, <1>5, <1>6
-----------------------------------------------------------------------------
(* A finite set with two elements, or one, or none. *)
LEMMA OneOrMore ==
  ASSUME NEW S, IsFiniteSet(S)
  PROVE  /\ Cardinality(S) \in Nat
         /\ Cardinality(S) = 1 <=> \E x : S = {x}
         /\ Cardinality(S) > 1 <=> \E x, y \in S : x # y
<1>1. Cardinality(S) \in Nat
  BY FS_CardinalityType
<1>2. Cardinality(S) = 1 <=> \E x : S = {x}
  BY FS_Singleton
<1>3. Cardinality(S) = 0 <=> S = {}
  BY FS_EmptySet
<1>4. ASSUME Cardinality(S) > 1 PROVE \E x, y \in S : x # y
  <2>1. S # {} /\ ~\E x : S = {x}
    BY <1>2, <1>3, <1>4
  <2> QED  BY <2>1
<1>5. ASSUME \E x, y \in S : x # y PROVE Cardinality(S) > 1
  <2>1. S # {} /\ ~\E x : S = {x}
    BY <1>5
  <2> QED  BY <2>1, <1>1, <1>2, <1>3
<1> QED  BY <1>1, <1>2, <1>4, <1>5

(* erase() *)

(* What an erasure leaves of a tree: all the other leaves. *)
Shrinks(t, u) ==
  /\ Tree(u) /\ DOMAIN u \subseteq DOMAIN t
  /\ \A x \in DOMAIN u : u[x].m_value = t[x].m_value

(* A tree shrinks when a node is removed, *)
LEMMA RemovedShrinks ==
  ASSUME NEW t, NEW u, NEW p, NEW k, NEW n, Removed(t, u, p, k, n)
  PROVE  /\ Shrinks(t, u)
         /\ \A x \in DOMAIN u : x # p /\ ~Bare(t, x) => ~Bare(u, x)
<1>1. /\ Tree(u) /\ DOMAIN u = DOMAIN t \ {n} /\ Kept(t, u, p)
      /\ \A x \in DOMAIN u : x # p => u[x] = t[x]
  BY DEF Removed
<1>2. \A x \in DOMAIN u : u[x].m_value = t[x].m_value
  BY <1>1 DEF Kept
<1>3. \A x \in DOMAIN u : x # p => Labels(u, x) = Labels(t, x)
  BY <1>1 DEF Labels
<1> QED  BY <1>1, <1>2, <1>3 DEF Shrinks, Bare

(* when a node was merged with its only child, *)
LEMMA MergedShrinks ==
  ASSUME NEW t, NEW u, NEW p, NEW k, NEW n, NEW l, NEW c, Merged(t, u, p, k, n, l, c),
         k \in Labels(t, p), k # Nul, \A x \in DOMAIN t : x # n => ~Bare(t, x), p # n
  PROVE  Shrinks(t, u) /\ NoBare(u)
<1>1. /\ Tree(u) /\ DOMAIN u = DOMAIN t \ {n}
      /\ \A x \in DOMAIN u : x # p /\ x # c => u[x] = t[x]
      /\ Kept(t, u, p) /\ Labels(u, p) = (Labels(t, p) \ {k}) \cup {k \o l}
      /\ k \o l \notin Labels(t, p) \ {k}
      /\ u[c].m_children = t[c].m_children /\ u[c].m_value = t[c].m_value
  BY DEF Merged
<1>2. \A x \in DOMAIN u : u[x].m_value = t[x].m_value
  BY <1>1 DEF Kept
<1>3. ASSUME NEW x \in DOMAIN u PROVE ~Bare(u, x)
  <2>1. ~Bare(t, x)
    BY <1>1
  <2>2. CASE x = p
    <3> DEFINE h == k \o l
    <3>1. Labels(u, p) = (Labels(t, p) \ {k}) \cup {h} /\ h \notin Labels(t, p) \ {k}
      BY <1>1
    <3> HIDE DEF h
    <3> QED  BY <2>1, <2>2, <3>1, NotBareReplaced
  <2>3. CASE x # p
    <3>1. Labels(u, x) = Labels(t, x)
      BY <2>3, <1>1 DEF Labels
    <3> QED  BY <2>1, <3>1 DEF Bare
  <2> QED  BY <2>2, <2>3
<1> QED  BY <1>1, <1>2, <1>3 DEF Shrinks, NoBare

(* Only inner nodes vanish in a merge: the leaves are those of t. *)
LEMMA MergeShrinks ==
  ASSUME NEW t, Tree(t), NEW n \in DOMAIN t, n # Root, ~n[2],
         Cardinality(Labels(t, n)) = 1, \A x \in DOMAIN t : x # n => ~Bare(t, x)
  PROVE  /\ Shrinks(t, MergeOnlyChild(t, n)) /\ NoBare(MergeOnlyChild(t, n))
         /\ \A x \in DOMAIN t : x[2] => x \in DOMAIN MergeOnlyChild(t, n)
<1>1. PICK l : Labels(t, n) = {l}
  <2>1. IsFiniteSet(Labels(t, n))
    BY TreeParts DEF Branches
  <2> QED  BY <2>1, OneOrMore
<1> DEFINE c == Kid(t, n, l)
           u == MergeOnlyChild(t, n)
           p == Parent(t, n)
           k == Key(t, n)
<1>2. Filed(t, n, l, c) /\ Filed(t, p, k, n)
  BY <1>1, KidFacts, ParentFacts
<1>3. c \in DOMAIN t /\ (c[2] <=> l = Nul) /\ k # Nul /\ k \in Labels(t, p) /\ c \in DOMAIN t
  BY <1>2 DEF Filed
<1>4. t[c].m_is_leaf = c[2] /\ c[2] \in BOOLEAN
  BY <1>3, NodeFacts
<1>5. CASE l = Nul
  <2>1. u = t
    <3>1. First(Labels(t, n)) = l
      BY <1>1, FirstOfOne
    <3>2. t[t[n].m_children[l]].m_is_leaf
      BY <1>3, <1>4, <1>5 DEF Kid
    <3> QED  BY <3>1, <3>2 DEF MergeOnlyChild
  <2>2. ~Bare(t, n)
    BY <1>1, <1>5 DEF Bare
  <2>3. Shrinks(t, t) /\ NoBare(t)
    BY <2>2 DEF Shrinks, NoBare
  <2> QED  BY <2>1, <2>3
<1>6. CASE l # Nul
  <2> HIDE DEF c, p, k
  <2>1. Merged(t, u, p, k, n, l, c)
    BY <1>1, <1>2, <1>3, <1>6, MergeTree
  <2> HIDE DEF u
  <2>2. p # n
    BY <1>2, RankFalls
  <2>3. Shrinks(t, u) /\ NoBare(u)
    BY <2>1, <2>2, <1>3, MergedShrinks
  <2>4. DOMAIN u = DOMAIN t \ {n}
    BY <2>1 DEF Merged
  <2> QED  BY <2>3, <2>4 DEF u
<1> QED  BY <1>5, <1>6

(* and when it shrinks twice. *)
LEMMA ShrinksTwice ==
  ASSUME NEW t, NEW u, NEW w, Shrinks(t, u), Shrinks(u, w)
  PROVE  Shrinks(t, w)
BY DEF Shrinks

(* erase() takes the leaf, and leaves the tree compressed. *)
LEMMA EraseShrinks ==
  ASSUME Tree(node), NoBare(node), NEW leaf \in DOMAIN node, leaf[2]
  PROVE  /\ Shrinks(node, Erased(leaf)) /\ NoBare(Erased(leaf))
         /\ leaf \notin DOMAIN Erased(leaf)
         /\ \A x \in DOMAIN node : x[2] /\ x # leaf => x \in DOMAIN Erased(leaf)
<1> DEFINE p == Parent(node, leaf)
           cut == Free(Unlink(node, p, Nul), leaf)
           bare == Labels(cut, p) = {}
           g == IF bare THEN cut[p].m_parent ELSE p
           pruned == IF bare THEN Free(Unlink(cut, g, cut[p].m_key), p) ELSE cut
           u == IF p = Root \/ Cardinality(Labels(cut, p)) > 1 THEN cut
                ELSE IF g = Root \/ Cardinality(Labels(pruned, g)) # 1 THEN pruned
                ELSE MergeOnlyChild(pruned, g)
           Goal(w) == /\ Shrinks(node, w) /\ NoBare(w) /\ leaf \notin DOMAIN w
                      /\ \A x \in DOMAIN node : x[2] /\ x # leaf => x \in DOMAIN w
<1>1. Erased(leaf) = u
  BY DEF Erased, Parent
<1>2. Filed(node, p, Nul, leaf)
  <2>1. leaf # Root
    BY AddressFacts
  <2>2. Filed(node, p, Key(node, leaf), leaf)
    BY <2>1, ParentFacts
  <2>3. Key(node, leaf) = Nul
    BY <2>2 DEF Filed
  <2> QED  BY <2>2, <2>3
<1>3. Labels(node, leaf) = {}
  BY NodeFacts
<1> HIDE DEF p
<1>4. Removed(node, cut, p, Nul, leaf)
  BY <1>2, <1>3, RemoveTree
<1>5. p \in DOMAIN node /\ ~p[2] /\ p # leaf
  BY <1>2, RankFalls DEF Filed
<1> HIDE DEF cut
<1>6. /\ Tree(cut) /\ DOMAIN cut = DOMAIN node \ {leaf} /\ p \in DOMAIN cut
      /\ Labels(cut, p) = Labels(node, p) \ {Nul}
      /\ \A x \in DOMAIN cut : x # p => cut[x] = node[x]
  BY <1>4, <1>5 DEF Removed
<1>7. Shrinks(node, cut) /\ \A x \in DOMAIN cut : x # p => ~Bare(cut, x)
  BY <1>4, <1>6, RemovedShrinks DEF NoBare
<1>8. IsFiniteSet(Labels(cut, p))
  BY <1>6, TreeParts DEF Branches
<1>9. CASE p = Root \/ Cardinality(Labels(cut, p)) > 1
  <2>1. ~Bare(cut, p)
    <3>1. CASE p = Root
      BY <3>1 DEF Bare
    <3>2. CASE Cardinality(Labels(cut, p)) > 1
      BY <3>2, <1>8, OneOrMore DEF Bare
    <3> QED  BY <3>1, <3>2, <1>9
  <2>2. Goal(cut)
    BY <2>1, <1>6, <1>7 DEF NoBare
  <2> QED  BY <2>2, <1>1, <1>9
<1>10. CASE ~(p = Root \/ Cardinality(Labels(cut, p)) > 1) /\ bare
  <2> DEFINE q == Parent(cut, p)
             k == Key(cut, p)
             w == Free(Unlink(cut, q, k), p)
  <2>1. Filed(cut, q, k, p)
    BY <1>6, <1>10, ParentFacts
  <2>2. g = q /\ pruned = w
    BY <1>10 DEF Parent, Key
  <2>a. u = IF q = Root \/ Cardinality(Labels(w, q)) # 1 THEN w ELSE MergeOnlyChild(w, q)
    BY <1>10, <2>2
  <2> HIDE DEF q, k, u, g, pruned
  <2>3. Removed(cut, w, q, k, p)
    BY <1>6, <1>10, <2>1, RemoveTree
  <2> HIDE DEF w
  <2>4. q \in DOMAIN cut /\ ~q[2] /\ q # p /\ k \in Labels(cut, q) /\ k # Nul
    <3>1. Rank(q) < Rank(p) /\ Rank(q) \in Nat
      BY <2>1, RankFalls
    <3>2. q # p
      BY <3>1
    <3> QED  BY <2>1, <3>2, <1>5 DEF Filed
  <2>5. /\ Tree(w) /\ DOMAIN w = DOMAIN cut \ {p} /\ q \in DOMAIN w
        /\ Labels(w, q) = Labels(cut, q) \ {k}
    BY <2>3, <2>4 DEF Removed
  <2>6. Shrinks(cut, w) /\ \A x \in DOMAIN w : x # q => ~Bare(w, x)
    BY <1>7, <2>3, <2>5, RemovedShrinks
  <2>7. Shrinks(node, w)
    BY <1>7, <2>6, ShrinksTwice
  <2>8. leaf \notin DOMAIN w /\ \A x \in DOMAIN node : x[2] /\ x # leaf => x \in DOMAIN w
    BY <1>5, <1>6, <2>5
  <2>9. CASE q = Root \/ Cardinality(Labels(w, q)) # 1
    <3>1. ~Bare(w, q)
      <4>1. CASE q = Root
        BY <4>1 DEF Bare
      <4>2. CASE q # Root
        <5>1. PICK y \in Labels(cut, q) : y # k
          <6>1. ~Bare(cut, q)
            BY <1>7, <2>4
          <6>2. PICK l1 \in Labels(cut, q), l2 \in Labels(cut, q) : l1 # l2
            BY <6>1, <4>2, <2>4 DEF Bare
          <6> QED  BY <6>2
        <5>2. y \in Labels(w, q)
          BY <5>1, <2>5
        <5>3. IsFiniteSet(Labels(w, q))
          BY <2>5, TreeParts DEF Branches
        <5>4. ~\E x : Labels(w, q) = {x}
          BY <4>2, <2>9, <5>3, OneOrMore
        <5>5. \E l \in Labels(w, q) : l # y
          BY <5>2, <5>4
        <5> QED  BY <5>2, <5>5 DEF Bare
      <4> QED  BY <4>1, <4>2
    <3>2. Goal(w)
      BY <3>1, <2>6, <2>7, <2>8 DEF NoBare
    <3> QED  BY <3>2, <1>1, <2>a, <2>9
  <2>10. CASE ~(q = Root \/ Cardinality(Labels(w, q)) # 1)
    <3> DEFINE m == MergeOnlyChild(w, q)
    <3>1. /\ Shrinks(w, m) /\ NoBare(m)
          /\ \A x \in DOMAIN w : x[2] => x \in DOMAIN m
      BY <2>4, <2>5, <2>6, <2>10, MergeShrinks
    <3> HIDE DEF m
    <3>2. Shrinks(node, m)
      BY <2>7, <3>1, ShrinksTwice
    <3>3. leaf \notin DOMAIN m
      BY <2>8, <3>1 DEF Shrinks
    <3>4. Goal(m)
      BY <2>8, <3>1, <3>2, <3>3
    <3> QED  BY <3>4, <1>1, <2>a, <2>10 DEF m
  <2> QED  BY <2>9, <2>10
<1>11. CASE ~(p = Root \/ Cardinality(Labels(cut, p)) > 1) /\ ~bare
  <2>1. u = IF Cardinality(Labels(cut, p)) # 1 THEN cut ELSE MergeOnlyChild(cut, p)
    BY <1>11
  <2>2. Cardinality(Labels(cut, p)) = 1
    <3>1. PICK y : y \in Labels(cut, p)
      BY <1>11
    <3>2. ~\E x, z \in Labels(cut, p) : x # z
      BY <1>8, <1>11, OneOrMore
    <3>3. Labels(cut, p) = {y}
      BY <3>1, <3>2
    <3> QED  BY <3>3, <1>8, OneOrMore
  <2> DEFINE m == MergeOnlyChild(cut, p)
  <2>3. /\ Shrinks(cut, m) /\ NoBare(m)
        /\ \A x \in DOMAIN cut : x[2] => x \in DOMAIN m
    BY <1>5, <1>6, <1>7, <1>11, <2>2, MergeShrinks
  <2> HIDE DEF m
  <2>4. Shrinks(node, m)
    BY <1>7, <2>3, ShrinksTwice
  <2>5. leaf \notin DOMAIN m
    BY <1>6, <2>3 DEF Shrinks
  <2>6. Goal(m)
    BY <1>6, <2>3, <2>4, <2>5
  <2> QED  BY <1>1, <2>1, <2>2, <2>6 DEF m
<1> QED  BY <1>9, <1>10, <1>11
-----------------------------------------------------------------------------
(* The order of strings. *)

(* Where a string is less than another: at its end, or at a character. *)
LessAt(a, b, j) ==
  /\ j \in Nat /\ j < Len(b) /\ j <= Len(a)
  /\ \A i \in 1..j : a[i] = b[i]
  /\ j = Len(a) \/ a[j + 1] < b[j + 1]

(* Where two strings in order differ, *)
LEMMA LexWhere ==
  ASSUME NEW a \in Str, NEW b \in Str, LexLess(a, b)
  PROVE  \E j \in Nat : LessAt(a, b, j)
<1> DEFINE c == CommonLen(a, b)
<1>1. /\ c \in Nat /\ c <= Len(a) /\ \A i \in 1..c : a[i] = b[i]
  BY CommonFacts
<1>2. c < Len(b) /\ (c = Len(a) \/ a[c + 1] < b[c + 1])
  BY DEF LexLess
<1> HIDE DEF c
<1>3. LessAt(a, b, c)
  BY <1>1, <1>2 DEF LessAt
<1> QED  BY <1>1, <1>3

(* which is enough for the order. *)
LEMMA LexWitness ==
  ASSUME NEW a \in Str, NEW b \in Str, NEW j, LessAt(a, b, j)
  PROVE  LexLess(a, b)
<1> DEFINE c == CommonLen(a, b)
<1>1. /\ c \in Nat /\ c <= Len(a) /\ c <= Len(b) /\ \A i \in 1..c : a[i] = b[i]
      /\ c < Len(a) /\ c < Len(b) => a[c + 1] # b[c + 1]
  BY CommonFacts
<1>2. LexLess(a, b) <=> c < Len(b) /\ (c = Len(a) \/ a[c + 1] < b[c + 1])
  BY DEF LexLess
<1>3. /\ j \in Nat /\ j < Len(b) /\ j <= Len(a) /\ (\A i \in 1..j : a[i] = b[i])
      /\ (j = Len(a) \/ a[j + 1] < b[j + 1])
      /\ Len(a) \in Nat /\ Len(b) \in Nat /\ \A i \in 1..Len(a) : a[i] \in Nat
      /\ \A i \in 1..Len(b) : b[i] \in Nat
  BY StringLength DEF LessAt
<1> HIDE DEF c
<1>4. ~(c < j)
  <2> SUFFICES ASSUME c < j PROVE FALSE
    OBVIOUS
  <2>1. c + 1 \in 1..j /\ c < Len(a) /\ c < Len(b)
    BY <1>1, <1>3
  <2> QED  BY <2>1, <1>1, <1>3
<1>5. ~(j < c)
  <2> SUFFICES ASSUME j < c PROVE FALSE
    OBVIOUS
  <2>1. j + 1 \in 1..c /\ j # Len(a) /\ j + 1 \in 1..Len(a) /\ j + 1 \in 1..Len(b)
    BY <1>1, <1>3
  <2>2. a[j + 1] = b[j + 1] /\ a[j + 1] < b[j + 1] /\ a[j + 1] \in Nat
    BY <2>1, <1>1, <1>3
  <2> QED  BY <2>2
<1>6. c = j
  BY <1>1, <1>3, <1>4, <1>5
<1> QED  BY <1>2, <1>3, <1>6

(* The order of std::string is strict *)
LEMMA LexOnce ==
  ASSUME NEW a \in Str, NEW b \in Str, LexLess(a, b), LexLess(b, a)
  PROVE  FALSE
<1>1. PICK j \in Nat : LessAt(a, b, j)
  BY LexWhere
<1>2. PICK k \in Nat : LessAt(b, a, k)
  BY LexWhere
<1>3. /\ Len(a) \in Nat /\ Len(b) \in Nat /\ \A i \in 1..Len(a) : a[i] \in Nat
      /\ \A i \in 1..Len(b) : b[i] \in Nat
  BY StringLength
<1>4. CASE j < k
  <2>1. j + 1 \in 1..k /\ j # Len(a) /\ j + 1 \in 1..Len(a)
    BY <1>1, <1>2, <1>3, <1>4 DEF LessAt
  <2>2. a[j + 1] = b[j + 1] /\ a[j + 1] < b[j + 1] /\ a[j + 1] \in Nat
    BY <2>1, <1>1, <1>2, <1>3 DEF LessAt
  <2> QED  BY <2>2
<1>5. CASE k < j
  <2>1. k + 1 \in 1..j /\ k # Len(b) /\ k + 1 \in 1..Len(b)
    BY <1>1, <1>2, <1>3, <1>5 DEF LessAt
  <2>2. a[k + 1] = b[k + 1] /\ b[k + 1] < a[k + 1] /\ b[k + 1] \in Nat
    BY <2>1, <1>1, <1>2, <1>3 DEF LessAt
  <2> QED  BY <2>2
<1>6. CASE j = k
  <2>1. j # Len(a) /\ k # Len(b) /\ j + 1 \in 1..Len(a) /\ j + 1 \in 1..Len(b)
    BY <1>1, <1>2, <1>3, <1>6 DEF LessAt
  <2>2. a[j + 1] < b[j + 1] /\ b[j + 1] < a[j + 1] /\ a[j + 1] \in Nat /\ b[j + 1] \in Nat
    BY <2>1, <1>1, <1>2, <1>3, <1>6 DEF LessAt
  <2> QED  BY <2>2
<1> QED  BY <1>4, <1>5, <1>6

(* and total. *)
LEMMA LexTotal ==
  ASSUME NEW a \in Str, NEW b \in Str, a # b
  PROVE  LexLess(a, b) \/ LexLess(b, a)
<1> DEFINE c == CommonLen(a, b)
<1>1. /\ c \in Nat /\ c <= Len(a) /\ c <= Len(b) /\ \A i \in 1..c : a[i] = b[i]
      /\ c < Len(a) /\ c < Len(b) => a[c + 1] # b[c + 1]
  BY CommonFacts
<1>2. /\ Len(a) \in Nat /\ Len(b) \in Nat /\ \A i \in 1..Len(a) : a[i] \in Nat
      /\ \A i \in 1..Len(b) : b[i] \in Nat
  BY StringLength
<1> HIDE DEF c
<1>3. ~(c = Len(a) /\ c = Len(b))
  BY <1>1, SameString
<1>4. CASE c = Len(a)
  <2>1. LessAt(a, b, c)
    BY <1>1, <1>2, <1>3, <1>4 DEF LessAt
  <2> QED  BY <2>1, LexWitness
<1>5. CASE c = Len(b)
  <2>1. LessAt(b, a, c)
    BY <1>1, <1>2, <1>3, <1>5 DEF LessAt
  <2> QED  BY <2>1, LexWitness
<1>6. CASE c # Len(a) /\ c # Len(b)
  <2>1. c + 1 \in 1..Len(a) /\ c + 1 \in 1..Len(b) /\ c < Len(a) /\ c < Len(b)
    BY <1>1, <1>2, <1>6
  <2>2. a[c + 1] \in Nat /\ b[c + 1] \in Nat /\ a[c + 1] # b[c + 1]
    BY <2>1, <1>1, <1>2
  <2>3. CASE a[c + 1] < b[c + 1]
    <3>1. LessAt(a, b, c)
      BY <1>1, <2>1, <2>3 DEF LessAt
    <3> QED  BY <3>1, LexWitness
  <2>4. CASE b[c + 1] < a[c + 1]
    <3>1. LessAt(b, a, c)
      BY <1>1, <2>1, <2>4 DEF LessAt
    <3> QED  BY <3>1, LexWitness
  <2> QED  BY <2>2, <2>3, <2>4
<1> QED  BY <1>4, <1>5, <1>6

(* The least of a set of strings is unique. *)
LEMMA FirstIs ==
  ASSUME NEW S, S \subseteq Str, NEW a \in S, \A b \in S \ {a} : LexLess(a, b)
  PROVE  First(S) = a
<1>1. First(S) \in S /\ \A b \in S \ {First(S)} : LexLess(First(S), b)
  BY DEF First
<1> DEFINE f == First(S)
<1>2. f \in Str /\ a \in Str
  BY <1>1
<1> HIDE DEF f
<1>3. ASSUME f # a PROVE FALSE
  <2>1. LexLess(f, a) /\ LexLess(a, f)
    BY <1>1, <1>3 DEF f
  <2> QED  BY <2>1, <1>2, LexOnce
<1> QED  BY <1>3 DEF f

(* What comes before y and begins as z does comes after z or with it. *)
LEMMA LexPast ==
  ASSUME NEW s \in Str, NEW x \in Str, NEW y \in Str, NEW z \in Str,
         Begins(s, x), Begins(s, z), ~Begins(s, y), LexLess(x, y)
  PROVE  LexLess(z, y)
<1>1. PICK j \in Nat : LessAt(x, y, j)
  BY LexWhere
<1>2. Len(s) \in Nat /\ Len(x) \in Nat /\ Len(y) \in Nat /\ Len(z) \in Nat
  BY StringLength
<1>3. j < Len(s)
  <2> SUFFICES ASSUME Len(s) <= j PROVE FALSE
    BY <1>2
  <2>1. Len(s) <= Len(y) /\ \A i \in 1..Len(s) : i \in 1..j
    BY <1>1, <1>2 DEF LessAt
  <2>2. \A i \in 1..Len(s) : s[i] = y[i]
    BY <2>1, <1>1 DEF LessAt, Begins
  <2> QED  BY <2>1, <2>2 DEF Begins
<1>4. j + 1 \in 1..Len(s) /\ \A i \in 1..j : i \in 1..Len(s)
  BY <1>2, <1>3
<1>5. z[j + 1] = x[j + 1] /\ \A i \in 1..j : z[i] = x[i]
  BY <1>4 DEF Begins
<1>6. j # Len(x) /\ j <= Len(z)
  BY <1>2, <1>3 DEF Begins
<1>7. LessAt(z, y, j)
  BY <1>1, <1>5, <1>6 DEF LessAt
<1> QED  BY <1>7, LexWitness
-----------------------------------------------------------------------------
(* The order of siblings is that of all that is below them. *)

Siblings(k, l) == k # l /\ (k # Nul /\ l # Nul => k[1] # l[1])

(* x goes on behind n with the label l. *)
Behind(n, l, x) ==
  /\ x \in Str /\ Begins(n, x)
  /\ IF l = Nul THEN x = n ELSE Len(x) > Len(n) /\ x[Len(n) + 1] = l[1]

(* What lies behind two labels is ordered as they are. *)
LEMMA ForkOrder ==
  ASSUME NEW n \in Str, NEW k \in Str, NEW l \in Str, Siblings(k, l), LexLess(k, l),
         NEW x, NEW y, Behind(n, k, x), Behind(n, l, y)
  PROVE  LexLess(x, y)
<1>1. PICK j \in Nat : LessAt(k, l, j)
  BY LexWhere
<1>2. /\ Len(n) \in Nat /\ Len(k) \in Nat /\ Len(l) \in Nat /\ x \in Str /\ y \in Str
      /\ Len(x) \in Nat /\ Len(y) \in Nat
  BY StringLength DEF Behind
<1>3. j = 0
  <2> SUFFICES ASSUME j # 0 PROVE FALSE
    OBVIOUS
  <2>1. 1 \in 1..j /\ Len(k) # 0 /\ Len(l) # 0
    BY <1>1, <1>2 DEF LessAt
  <2>2. k # Nul /\ l # Nul /\ k[1] = l[1]
    BY <2>1, <1>1, NulString DEF LessAt
  <2> QED  BY <2>2 DEF Siblings
<1>4. l # Nul /\ (k = Nul \/ k[1] < l[1])
  <2>1. Len(l) # 0 /\ (Len(k) = 0 \/ k[1] < l[1])
    BY <1>1, <1>2, <1>3 DEF LessAt
  <2> QED  BY <2>1, NulString
<1>5. Len(n) < Len(y) /\ y[Len(n) + 1] = l[1] /\ Len(n) <= Len(x)
      /\ \A i \in 1..Len(n) : x[i] = y[i]
  BY <1>4 DEF Behind, Begins
<1>6. Len(n) = Len(x) \/ x[Len(n) + 1] < y[Len(n) + 1]
  BY <1>4, <1>5 DEF Behind
<1>7. LessAt(x, y, Len(n))
  BY <1>2, <1>5, <1>6 DEF LessAt
<1> QED  BY <1>2, <1>7, LexWitness

(* Two labels of a node differ in their first character. *)
LEMMA LabelsAreSiblings ==
  ASSUME NEW t, Tree(t), NEW n \in DOMAIN t, NEW k \in Labels(t, n), NEW l \in Labels(t, n),
         k # l
  PROVE  Siblings(k, l)
<1>1. Branches(t, n)
  BY TreeParts
<1> QED  BY <1>1 DEF Branches, Siblings

(* A nonempty set of sibling labels has a first one. *)
LEMMA FirstLabel ==
  ASSUME NEW t, Tree(t), NEW n \in DOMAIN t, NEW S, S \subseteq Labels(t, n), S # {}
  PROVE  First(S) \in S /\ \A l \in S : l # First(S) => LexLess(First(S), l)
<1> DEFINE initial(l) == IF l = Nul THEN 0 ELSE l[1] + 1
           I == {initial(l) : l \in S}
<1>1. \A l \in S : l \in Str
  BY NodeFacts
<1>2. \A l \in S : l # Nul => Len(l) \in Nat /\ Len(l) # 0 /\ l[1] \in Nat
  <2> SUFFICES ASSUME NEW l \in S, l # Nul PROVE Len(l) \in Nat /\ Len(l) # 0 /\ l[1] \in Nat
    OBVIOUS
  <2>1. Len(l) \in Nat /\ Len(l) # 0
    BY <1>1, StringLength, NulString
  <2>2. 1 \in 1..Len(l)
    BY <2>1
  <2> QED  BY <2>1, <2>2, <1>1, StringLength
<1>3. I \subseteq Nat /\ I # {}
  BY <1>2
<1>4. PICK i \in I : \A j \in I : i <= j
  <2> HIDE DEF I
  <2> QED  BY <1>3, Least
<1>5. PICK f \in S : i = initial(f)
  OBVIOUS
<1>6. ASSUME NEW l \in S, l # f PROVE LexLess(f, l)
  <2>1. initial(f) <= initial(l) /\ Siblings(f, l)
    BY <1>4, <1>5, <1>6, LabelsAreSiblings
  <2>2. l # Nul
    BY <2>1, <1>2, <1>6
  <2>3. CASE f = Nul
    <3>1. LessAt(f, l, 0)
      BY <2>2, <2>3, <1>2, NulString DEF LessAt
    <3> QED  BY <3>1, <1>1, LexWitness
  <2>4. CASE f # Nul
    <3>1. f[1] < l[1]
      BY <2>1, <2>2, <2>4, <1>2 DEF Siblings
    <3>2. LessAt(f, l, 0)
      BY <2>2, <2>4, <3>1, <1>2 DEF LessAt
    <3> QED  BY <3>2, <1>1, LexWitness
  <2> QED  BY <2>3, <2>4
<1> HIDE DEF I, initial
<1>7. First(S) = f
  <2>1. S \subseteq Str
    BY <1>1
  <2> QED  BY <2>1, <1>6, FirstIs
<1> QED  BY <1>6, <1>7
-----------------------------------------------------------------------------
(* begin(node) and descend() *)

Under(t, n) == {x \in DOMAIN t : x[2] /\ IF n[2] THEN x = n ELSE Begins(n[1], x[1])}

(* The leaves under a node are those under its children, *)
LEMMA UnderKid ==
  ASSUME NEW t, Tree(t), NEW n, NEW l, NEW c, Filed(t, n, l, c), NEW x \in Under(t, c)
  PROVE  x \in Under(t, n) /\ Behind(n[1], l, x[1])
<1>1. /\ x \in DOMAIN t /\ x[2] /\ (c[2] => x = c) /\ (~c[2] => Begins(c[1], x[1]))
  BY DEF Under
<1>2. /\ n[1] \in Str /\ c[1] \in Str /\ ~n[2] /\ (c[2] <=> l = Nul) /\ Begins(n[1], c[1])
      /\ Len(c[1]) = Len(n[1]) + Len(l)
  BY DEF Filed
<1>3. x[1] \in Str
  BY <1>1, NodeFacts
<1>4. Begins(n[1], x[1])
  BY <1>1, <1>2, <1>3, BeginsTransitive
<1>5. CASE l = Nul
  <2>1. x = c /\ Len(n[1]) >= Len(c[1])
    BY <1>1, <1>2, <1>5, NulString, StringLength
  <2>2. x[1] = n[1]
    BY <2>1, <1>2, BeginsSame
  <2> QED  BY <2>2, <1>1, <1>2, <1>3, <1>4, <1>5 DEF Under, Behind
<1>6. CASE l # Nul
  <2>1. Len(c[1]) > Len(n[1]) /\ c[1][Len(n[1]) + 1] = l[1]
    BY <1>6, FirstOfLabel
  <2>2. Len(n[1]) \in Nat /\ Len(c[1]) \in Nat /\ Len(x[1]) \in Nat
    BY <1>2, <1>3, StringLength
  <2>3. Len(n[1]) + 1 \in 1..Len(c[1]) /\ Begins(c[1], x[1])
    BY <2>1, <2>2, <1>1, <1>2, <1>6
  <2>4. Len(x[1]) > Len(n[1]) /\ x[1][Len(n[1]) + 1] = l[1]
    BY <2>1, <2>2, <2>3 DEF Begins
  <2> QED  BY <2>4, <1>1, <1>2, <1>3, <1>4, <1>6 DEF Under, Behind
<1> QED  BY <1>5, <1>6

(* each under one of them. *)
LEMMA UnderSplits ==
  ASSUME NEW t, Tree(t), NEW n \in DOMAIN t, ~n[2], NEW x \in Under(t, n)
  PROVE  \E l \in Labels(t, n) : x \in Under(t, Kid(t, n, l))
<1>1. x \in DOMAIN t /\ x[2] /\ Extends(n, x)
  BY DEF Under, Extends
<1>2. PICK l : Leads(t, n, l, x)
  BY <1>1, TowardNode
<1>3. /\ l \in Labels(t, n) /\ Begins(Kid(t, n, l)[1], x[1])
      /\ (Kid(t, n, l) = x \/ ~Kid(t, n, l)[2])
  BY <1>2 DEF Leads
<1> QED  BY <1>1, <1>3 DEF Under

(* What is below siblings is in the order of their labels. *)
LEMMA UnderOrder ==
  ASSUME NEW t, Tree(t), NEW n \in DOMAIN t, NEW k \in Labels(t, n), NEW l \in Labels(t, n),
         LexLess(k, l), NEW x \in Under(t, Kid(t, n, k)), NEW y \in Under(t, Kid(t, n, l))
  PROVE  LexLess(x[1], y[1])
<1>1. Filed(t, n, k, Kid(t, n, k)) /\ Filed(t, n, l, Kid(t, n, l))
  BY KidFacts
<1>2. Behind(n[1], k, x[1]) /\ Behind(n[1], l, y[1])
  BY <1>1, UnderKid
<1>3. n[1] \in Str /\ k \in Str /\ l \in Str
  BY <1>1 DEF Filed
<1>4. k # l
  BY <1>3, LexOnce
<1>5. Siblings(k, l)
  BY <1>4, LabelsAreSiblings
<1> QED  BY <1>2, <1>3, <1>5, ForkOrder

(* No string is longer than b. *)
Bounded(t, b) == b \in Nat /\ \A n \in DOMAIN t : Len(n[1]) <= b

Leftward(t, f) ==
  \A m \in DOMAIN t :
    f[m] = IF t[m].m_is_leaf THEN m
           ELSE IF Children(t, m) = {} THEN ABORT
                ELSE f[Kid(t, m, First(Labels(t, m)))]

(* begin(node) as a function that calls itself. *)
LEMMA LeftmostTurns ==
  ASSUME NEW t, Tree(t), NEW b, Bounded(t, b)
  PROVE  \E f : Leftward(t, f) /\ \A n : Leftmost(t, n) = f[n]
<1> DEFINE D == DOMAIN t
           stop == [m \in D |-> t[m].m_is_leaf \/ Children(t, m) = {}]
           val == [m \in D |-> IF t[m].m_is_leaf THEN m ELSE ABORT]
           next == [m \in D |-> Kid(t, m, First(Labels(t, m)))]
           rank == [m \in D |-> 2 * b + 1 - Rank(m)]
           Fits(f) == Recurses(f, D, stop, val, next)
<1>1. \A m \in D : Rank(m) \in Nat /\ Rank(m) <= 2 * b + 1
  <2> TAKE m \in D
  <2>1. m[1] \in Str /\ b \in Nat /\ Len(m[1]) <= b
    BY NodeFacts DEF Bounded
  <2>2. Len(m[1]) \in Nat
    BY <2>1, StringLength
  <2> QED  BY <2>1, <2>2 DEF Rank
<1>2. rank \in [D -> Nat]
  <2>1. \A m \in D : 2 * b + 1 - Rank(m) \in Nat
    BY <1>1 DEF Bounded
  <2> QED  BY <2>1
<1>3. ASSUME NEW m \in D, ~stop[m] PROVE next[m] \in D /\ rank[next[m]] < rank[m]
  <2> DEFINE l == First(Labels(t, m))
             c == Kid(t, m, l)
  <2>1. Labels(t, m) # {}
    BY <1>3 DEF Children
  <2>2. l \in Labels(t, m)
    BY <2>1, FirstLabel
  <2>3. Filed(t, m, l, c)
    BY <2>2, KidFacts
  <2>4. next[m] = c
    OBVIOUS
  <2> HIDE DEF c, l, next
  <2>5. Rank(m) < Rank(c) /\ c \in D
    BY <2>3, RankFalls DEF Filed
  <2>6. rank[c] = 2 * b + 1 - Rank(c) /\ rank[m] = 2 * b + 1 - Rank(m)
    BY <2>5
  <2> HIDE DEF rank
  <2> QED  BY <2>4, <2>5, <2>6, <1>1 DEF Bounded
<1> HIDE DEF stop, val, next, rank
<1>4. \E f : Fits(f)
  <2> HIDE DEF D
  <2>1. \A m \in D : ~stop[m] => next[m] \in D /\ rank[next[m]] < rank[m]
    BY <1>3
  <2> QED  BY <1>2, <2>1, Recursion
<1>5. ASSUME NEW f, Fits(f) PROVE Leftward(t, f)
  <2> SUFFICES ASSUME NEW m \in DOMAIN t
               PROVE  f[m] = IF t[m].m_is_leaf THEN m
                             ELSE IF Children(t, m) = {} THEN ABORT
                                  ELSE f[Kid(t, m, First(Labels(t, m)))]
    BY DEF Leftward
  <2>1. f[m] = IF stop[m] THEN val[m] ELSE f[next[m]]
    <3>1. m \in D
      OBVIOUS
    <3> HIDE DEF D
    <3> QED  BY <1>5, <3>1, Zenon DEF Recurses
  <2> QED  BY <2>1 DEF stop, val, next
<1>6. PICK f : Fits(f) /\ \A n : Leftmost(t, n) = f[n]
  <2> DEFINE Walks(f) == f = [m \in D |->
               IF t[m].m_is_leaf THEN m
               ELSE IF Children(t, m) = {} THEN ABORT
                    ELSE f[t[m].m_children[First(Labels(t, m))]]]
  <2>1. ASSUME NEW f PROVE Walks(f) <=> Fits(f)
    <3>1. \A m \in D :
            (IF stop[m] THEN val[m] ELSE f[next[m]])
            = IF t[m].m_is_leaf THEN m
              ELSE IF Children(t, m) = {} THEN ABORT
                   ELSE f[t[m].m_children[First(Labels(t, m))]]
      BY DEF stop, val, next, Kid
    <3> QED  BY <3>1, Zenon DEF Recurses
  <2> DEFINE F == CHOOSE f : Walks(f)
  <2>2. Walks(F)
    <3> HIDE DEF Walks, Fits
    <3> QED  BY <1>4, <2>1
  <2>3. \A n : Leftmost(t, n) = F[n]
    BY DEF Leftmost
  <2>4. Fits(F)
    <3> HIDE DEF Walks, Fits, F
    <3> QED  BY <2>1, <2>2
  <2> HIDE DEF Fits, F
  <2> QED  BY <2>3, <2>4
<1> QED  BY <1>5, <1>6

(* x is the leaf with the least key below n. *)
FirstUnder(t, n, x) ==
  x \in Under(t, n) /\ \A y \in Under(t, n) : y # x => LexLess(x[1], y[1])

(* The first leaf below a node that has any. *)
LEMMA LeftmostFirst ==
  ASSUME NEW t, Tree(t), NoBare(t), NEW b, Bounded(t, b)
  PROVE  /\ \A n \in DOMAIN t : n[2] \/ Labels(t, n) # {} => FirstUnder(t, n, Leftmost(t, n))
         /\ Labels(t, Root) = {} => Leftmost(t, Root) = ABORT
<1>1. PICK f : Leftward(t, f) /\ \A n : Leftmost(t, n) = f[n]
  BY LeftmostTurns
<1> DEFINE Good(n) == FirstUnder(t, n, f[n])
           Starts == {n \in DOMAIN t : n[2] \/ Labels(t, n) # {}}
           Bad == {2 * b + 1 - Rank(n) : n \in {m \in Starts : ~Good(m)}}
<1>2. \A m \in DOMAIN t : Rank(m) \in Nat /\ Rank(m) <= 2 * b + 1
  <2> TAKE m \in DOMAIN t
  <2>1. m[1] \in Str /\ b \in Nat /\ Len(m[1]) <= b
    BY NodeFacts DEF Bounded
  <2>2. Len(m[1]) \in Nat
    BY <2>1, StringLength
  <2> QED  BY <2>1, <2>2 DEF Rank
<1>3. b \in Nat
  BY DEF Bounded
<1>4. Bad = {}
  <2> SUFFICES ASSUME Bad # {} PROVE FALSE
    OBVIOUS
  <2>1. PICK r \in Bad : \A m \in Bad : r <= m
    <3>1. Bad \subseteq Nat
      BY <1>2, <1>3
    <3> HIDE DEF Bad
    <3> QED  BY <3>1, Least
  <2>2. PICK n \in Starts : ~Good(n) /\ r = 2 * b + 1 - Rank(n)
    BY <2>1
  <2>3. n \in DOMAIN t /\ t[n].m_is_leaf = n[2] /\ n[2] \in BOOLEAN
    BY <2>2, NodeFacts
  <2>4. CASE n[2]
    <3>1. f[n] = n
      BY <2>3, <2>4, <1>1 DEF Leftward
    <3>2. Under(t, n) = {n}
      BY <2>3, <2>4 DEF Under
    <3> QED  BY <3>1, <3>2, <2>2 DEF FirstUnder
  <2>5. CASE ~n[2]
    <3> DEFINE l == First(Labels(t, n))
               c == Kid(t, n, l)
    <3>1. Labels(t, n) # {}
      BY <2>2, <2>5
    <3>2. l \in Labels(t, n) /\ \A k \in Labels(t, n) : k # l => LexLess(l, k)
      BY <2>3, <3>1, FirstLabel
    <3>3. Filed(t, n, l, c)
      BY <2>3, <3>2, KidFacts
    <3>4. f[n] = f[c]
      <4>1. Children(t, n) # {}
        BY <3>1 DEF Children
      <4> QED  BY <4>1, <2>3, <2>5, <1>1 DEF Leftward
    <3> HIDE DEF l, c
    <3>5. Rank(n) < Rank(c) /\ c \in DOMAIN t /\ c # Root
      BY <3>3, RankFalls DEF Filed
    <3>6. c \in Starts
      <4>1. ~Bare(t, c)
        BY <3>5 DEF NoBare
      <4> QED  BY <4>1, <3>5 DEF Bare
    <3>7. Good(c)
      <4>1. 2 * b + 1 - Rank(c) < r
        BY <2>2, <2>3, <3>5, <1>2, <1>3
      <4>2. 2 * b + 1 - Rank(c) \in Nat /\ r \in Nat
        BY <2>2, <2>3, <3>5, <1>2, <1>3
      <4>3. ~(2 * b + 1 - Rank(c) \in Bad)
        BY <4>1, <4>2, <2>1
      <4> HIDE DEF Good
      <4> QED  BY <4>3, <3>6
    <3> DEFINE x == f[c]
    <3>8. x \in Under(t, c) /\ \A y \in Under(t, c) : y # x => LexLess(x[1], y[1])
      BY <3>7 DEF FirstUnder
    <3> HIDE DEF x
    <3>9. x \in Under(t, n)
      BY <3>3, <3>8, UnderKid
    <3>10. ASSUME NEW y \in Under(t, n), y # x PROVE LexLess(x[1], y[1])
      <4>1. PICK k \in Labels(t, n) : y \in Under(t, Kid(t, n, k))
        BY <2>3, <2>5, UnderSplits
      <4>2. CASE k = l
        BY <4>1, <4>2, <3>8, <3>10 DEF c
      <4>3. CASE k # l
        <5>1. LexLess(l, k) /\ x \in Under(t, Kid(t, n, l))
          BY <4>3, <3>2, <3>8 DEF c
        <5> QED  BY <5>1, <4>1, <3>2, <2>3, UnderOrder
      <4> QED  BY <4>2, <4>3
    <3>11. Good(n)
      BY <3>4, <3>9, <3>10 DEF FirstUnder, x
    <3> QED  BY <3>11, <2>2
  <2> QED  BY <2>3, <2>4, <2>5
<1>5. ASSUME Labels(t, Root) = {} PROVE Leftmost(t, Root) = ABORT
  <2>1. Root \in DOMAIN t /\ ~Root[2]
    BY TreeParts, AddressFacts
  <2>2. ~t[Root].m_is_leaf
    BY <2>1, NodeFacts
  <2>3. Children(t, Root) = {}
    BY <1>5 DEF Children
  <2> QED  BY <2>1, <2>2, <2>3, <1>1 DEF Leftward
<1> HIDE DEF Good
<1>6. \A n \in Starts : Good(n)
  BY <1>4
<1> QED  BY <1>1, <1>5, <1>6 DEF Good
-----------------------------------------------------------------------------
(* increment() *)

(* The null pointer and the aborted call point to no node. *)
LEMMA NullIsNoNode ==
  ASSUME NEW t, Tree(t)
  PROVE  NullNode \notin DOMAIN t /\ ABORT \notin DOMAIN t /\ NullNode # ABORT
<1>1. NullNode \notin Address /\ ABORT \notin Address /\ NullNode # ABORT
  BY RadixTreeAssumption
<1> QED  BY <1>1, NodeFacts

(* Only the root lacks a parent. *)
LEMMA OrphanIsRoot ==
  ASSUME NEW t, Tree(t), NEW m \in DOMAIN t
  PROVE  t[m].m_parent = NullNode <=> m = Root
<1>1. CASE m = Root
  <2>1. Hangs(t, m)
    BY TreeParts
  <2> QED  BY <1>1, <2>1 DEF Hangs
<1>2. CASE m # Root
  <2>1. Parent(t, m) \in DOMAIN t
    BY <1>2, ParentFacts DEF Filed
  <2> QED  BY <1>2, <2>1, NullIsNoNode DEF Parent
<1> QED  BY <1>1, <1>2

Climbs(t, f) ==
  \A m \in DOMAIN t :
    f[m] = IF m = Root THEN NullNode
           ELSE IF Later(t, m) = {} THEN f[Parent(t, m)] ELSE NextSibling(t, m)

(* increment() as a function that calls itself. *)
LEMMA AfterTurns ==
  ASSUME NEW t, Tree(t)
  PROVE  \E f : Climbs(t, f) /\ \A n : After(t, n) = f[n]
<1> DEFINE D == DOMAIN t
           stop == [m \in D |-> m = Root \/ Later(t, m) # {}]
           val == [m \in D |-> IF m = Root THEN NullNode ELSE NextSibling(t, m)]
           next == [m \in D |-> Parent(t, m)]
           rank == [m \in D |-> Rank(m)]
           Fits(f) == Recurses(f, D, stop, val, next)
<1>1. rank \in [D -> Nat]
  BY RankNat
<1>2. ASSUME NEW m \in D, ~stop[m] PROVE next[m] \in D /\ rank[next[m]] < rank[m]
  <2>1. Filed(t, Parent(t, m), Key(t, m), m)
    BY <1>2, ParentFacts
  <2>2. Rank(Parent(t, m)) < Rank(m) /\ Parent(t, m) \in D
    BY <2>1, RankFalls DEF Filed
  <2> QED  BY <2>2
<1>a. \A m \in D : m # Root => t[m].m_key \in Labels(t, t[m].m_parent)
  <2> SUFFICES ASSUME NEW m \in D, m # Root PROVE t[m].m_key \in Labels(t, t[m].m_parent)
    OBVIOUS
  <2>1. Filed(t, Parent(t, m), Key(t, m), m)
    BY ParentFacts
  <2> QED  BY <2>1 DEF Filed, Parent, Key
<1> HIDE DEF stop, val, next, rank
<1>4. \E f : Fits(f)
  <2> HIDE DEF D
  <2>1. \A m \in D : ~stop[m] => next[m] \in D /\ rank[next[m]] < rank[m]
    BY <1>2
  <2> QED  BY <1>1, <2>1, Recursion
<1>5. ASSUME NEW f, Fits(f) PROVE Climbs(t, f)
  <2> SUFFICES ASSUME NEW m \in DOMAIN t
               PROVE  f[m] = IF m = Root THEN NullNode
                             ELSE IF Later(t, m) = {} THEN f[Parent(t, m)]
                                  ELSE NextSibling(t, m)
    BY DEF Climbs
  <2>1. f[m] = IF stop[m] THEN val[m] ELSE f[next[m]]
    <3>1. m \in D
      OBVIOUS
    <3> HIDE DEF D
    <3> QED  BY <1>5, <3>1, Zenon DEF Recurses
  <2> QED  BY <2>1 DEF stop, val, next
<1>6. PICK f : Fits(f) /\ \A n : After(t, n) = f[n]
  <2> DEFINE Walks(f) == f = [m \in D |->
               LET p == t[m].m_parent
               IN  IF p = NullNode THEN NullNode
                   ELSE IF t[m].m_key \notin Labels(t, p) THEN ABORT
                   ELSE IF Later(t, m) = {} THEN f[p]
                        ELSE NextSibling(t, m)]
  <2>1. ASSUME NEW f PROVE Walks(f) <=> Fits(f)
    <3>1. \A m \in D :
            (IF stop[m] THEN val[m] ELSE f[next[m]])
            = LET p == t[m].m_parent
              IN  IF p = NullNode THEN NullNode
                  ELSE IF t[m].m_key \notin Labels(t, p) THEN ABORT
                  ELSE IF Later(t, m) = {} THEN f[p]
                       ELSE NextSibling(t, m)
      <4> TAKE m \in D
      <4>1. t[m].m_parent = NullNode <=> m = Root
        BY OrphanIsRoot
      <4> QED  BY <4>1, <1>a DEF stop, val, next, Parent
    <3> QED  BY <3>1, Zenon DEF Recurses
  <2> DEFINE F == CHOOSE f : Walks(f)
  <2>2. Walks(F)
    <3> HIDE DEF Walks, Fits
    <3> QED  BY <1>4, <2>1
  <2>3. \A n : After(t, n) = F[n]
    BY DEF After
  <2>4. Fits(F)
    <3> HIDE DEF Walks, Fits, F
    <3> QED  BY <2>1, <2>2
  <2> HIDE DEF Fits, F
  <2> QED  BY <2>3, <2>4
<1> QED  BY <1>5, <1>6

(* The leaves with greater keys, and the first of them. *)
Greater(t, x) == {y \in DOMAIN t : y[2] /\ LexLess(x[1], y[1])}

NextOf(t, x, r) ==
  IF Greater(t, x) = {} THEN r = NullNode
  ELSE r \in Greater(t, x) /\ \A y \in Greater(t, x) : y # r => LexLess(r[1], y[1])

(* One step up: either nothing below the parent is greater, or the next    *)
(* sibling holds what is.                                                  *)
LEMMA ClimbStep ==
  ASSUME NEW t, Tree(t), NoBare(t), NEW b, Bounded(t, b), NEW x \in DOMAIN t, x[2],
         NEW p, NEW k, NEW m, Filed(t, p, k, m), x \in Under(t, m),
         Under(t, m) \cap Greater(t, x) = {}
  PROVE  /\ x \in Under(t, p)
         /\ Later(t, m) = {} => Under(t, p) \cap Greater(t, x) = {}
         /\ Later(t, m) # {} => NextOf(t, x, NextSibling(t, m))
<1>1. /\ p \in DOMAIN t /\ m \in DOMAIN t /\ k \in Labels(t, p) /\ ~p[2] /\ p[1] \in Str
      /\ Kid(t, p, k) = m /\ Parent(t, m) = p /\ Key(t, m) = k
  BY DEF Filed
<1>2. x \in Under(t, p)
  BY UnderKid
<1>3. Later(t, m) = {l \in Labels(t, p) : LexLess(k, l)}
  BY <1>1 DEF Later, Parent, Key
<1>4. \A y \in Under(t, p) : y[1] \in Str /\ y \in DOMAIN t /\ y[2] /\ Begins(p[1], y[1])
  BY <1>1, NodeFacts DEF Under
<1>5. \A l \in Labels(t, p) : l \in Str
  BY <1>1, NodeFacts
<1>6. ASSUME NEW l \in Labels(t, p), NEW y \in Under(t, Kid(t, p, l)), y \in Greater(t, x)
      PROVE  l \in Later(t, m)
  <2>1. LexLess(x[1], y[1])
    BY <1>6 DEF Greater
  <2>2. l # k
    BY <1>1, <1>6
  <2>3. Filed(t, p, l, Kid(t, p, l))
    BY <1>1, KidFacts
  <2>4. y \in Under(t, p)
    BY <2>3, UnderKid
  <2>5. ~LexLess(l, k)
    <3> SUFFICES ASSUME LexLess(l, k) PROVE FALSE
      OBVIOUS
    <3>1. x \in Under(t, Kid(t, p, k))
      BY <1>1
    <3>2. LexLess(y[1], x[1])
      BY <3>1, <1>1, UnderOrder
    <3> QED  BY <3>2, <2>1, <2>4, <1>2, <1>4, LexOnce
  <2>6. LexLess(k, l)
    BY <2>2, <2>5, <1>1, <1>5, LexTotal
  <2> QED  BY <2>6, <1>3
<1>7. ASSUME Later(t, m) = {} PROVE Under(t, p) \cap Greater(t, x) = {}
  <2> SUFFICES ASSUME NEW y \in Under(t, p), y \in Greater(t, x) PROVE FALSE
    OBVIOUS
  <2>1. PICK l \in Labels(t, p) : y \in Under(t, Kid(t, p, l))
    BY <1>1, UnderSplits
  <2> QED  BY <2>1, <1>6, <1>7
<1>8. ASSUME Later(t, m) # {} PROVE NextOf(t, x, NextSibling(t, m))
  <2> DEFINE l == First(Later(t, m))
             c == Kid(t, p, l)
             z == Leftmost(t, c)
  <2>1. l \in Later(t, m) /\ \A h \in Later(t, m) : h # l => LexLess(l, h)
    BY <1>1, <1>3, <1>8, FirstLabel
  <2>2. NextSibling(t, m) = z
    BY <1>1 DEF NextSibling, Parent, Kid
  <2> HIDE DEF l
  <2>3. l \in Labels(t, p) /\ LexLess(k, l)
    BY <2>1, <1>3
  <2>4. Filed(t, p, l, c)
    BY <2>3, <1>1, KidFacts
  <2>a. c = Kid(t, p, l)
    OBVIOUS
  <2> HIDE DEF c
  <2>5. c \in DOMAIN t /\ c # Root
    BY <2>4 DEF Filed
  <2>6. FirstUnder(t, c, z)
    <3>1. ~Bare(t, c)
      BY <2>5 DEF NoBare
    <3>2. c[2] \/ Labels(t, c) # {}
      BY <3>1, <2>5 DEF Bare
    <3> QED  BY <3>2, <2>5, LeftmostFirst
  <2> HIDE DEF z
  <2>7. z \in Under(t, c) /\ \A y \in Under(t, c) : y # z => LexLess(z[1], y[1])
    BY <2>6 DEF FirstUnder
  <2>8. z \in Under(t, p)
    BY <2>4, <2>7, UnderKid
  <2>9. LexLess(x[1], z[1])
    BY <2>3, <2>7, <2>a, <1>1, UnderOrder
  <2>10. z \in Greater(t, x)
    BY <2>8, <2>9, <1>4 DEF Greater
  <2>11. ASSUME NEW y \in Greater(t, x), y # z PROVE LexLess(z[1], y[1])
    <3>1. y \in DOMAIN t /\ y[2] /\ LexLess(x[1], y[1])
      BY DEF Greater
    <3>2. CASE y \in Under(t, p)
      <4>1. PICK h \in Labels(t, p) : y \in Under(t, Kid(t, p, h))
        BY <3>2, <1>1, UnderSplits
      <4>2. h \in Later(t, m)
        BY <4>1, <1>6
      <4>3. CASE h = l
        BY <4>1, <4>3, <2>7, <2>11, <2>a
      <4>4. CASE h # l
        <5>1. LexLess(l, h) /\ z \in Under(t, Kid(t, p, l))
          BY <4>2, <4>4, <2>1, <2>7, <2>a
        <5> QED  BY <5>1, <4>1, <2>3, <1>1, UnderOrder
      <4> QED  BY <4>3, <4>4
    <3>3. CASE y \notin Under(t, p)
      <4>1. ~Begins(p[1], y[1]) /\ y[1] \in Str
        BY <3>1, <3>3, <1>1, NodeFacts DEF Under
      <4>2. /\ x[1] \in Str /\ z[1] \in Str /\ Begins(p[1], x[1]) /\ Begins(p[1], z[1])
        BY <1>2, <1>4, <2>8
      <4> QED  BY <4>1, <4>2, <3>1, <1>1, LexPast
    <3> QED  BY <3>2, <3>3
  <2> QED  BY <2>2, <2>10, <2>11 DEF NextOf
<1> QED  BY <1>2, <1>7, <1>8

(* ++ goes to the next key. *)
LEMMA AfterNext ==
  ASSUME NEW t, Tree(t), NoBare(t), NEW b, Bounded(t, b), NEW x \in DOMAIN t, x[2]
  PROVE  NextOf(t, x, After(t, x))
<1>1. PICK f : Climbs(t, f) /\ \A n : After(t, n) = f[n]
  BY AfterTurns
<1> DEFINE Good(m) == NextOf(t, x, f[m])
           Starts == {m \in DOMAIN t : x \in Under(t, m) /\ Under(t, m) \cap Greater(t, x) = {}}
           Bad == {Rank(m) : m \in {n \in Starts : ~Good(n)}}
<1>2. Bad = {}
  <2> SUFFICES ASSUME Bad # {} PROVE FALSE
    OBVIOUS
  <2>1. PICK r \in Bad : \A m \in Bad : r <= m
    <3>1. Bad \subseteq Nat
      BY RankNat
    <3> HIDE DEF Bad
    <3> QED  BY <3>1, Least
  <2>2. PICK m \in Starts : ~Good(m) /\ r = Rank(m)
    BY <2>1
  <2>3. /\ m \in DOMAIN t /\ x \in Under(t, m) /\ Under(t, m) \cap Greater(t, x) = {}
    BY <2>2
  <2>4. CASE m = Root
    <3>1. Greater(t, x) = {}
      <4>1. \A y \in DOMAIN t : y[2] => y \in Under(t, Root)
        <5> SUFFICES ASSUME NEW y \in DOMAIN t, y[2] PROVE y \in Under(t, Root)
          OBVIOUS
        <5>1. y[1] \in Str
          BY NodeFacts
        <5>2. Begins(Root[1], y[1])
          BY <5>1, StringLength, AddressFacts, NulString DEF Begins
        <5> QED  BY <5>2, AddressFacts DEF Under
      <4> QED  BY <4>1, <2>3, <2>4 DEF Greater
    <3>2. f[m] = NullNode
      BY <2>3, <2>4, <1>1 DEF Climbs
    <3> QED  BY <3>1, <3>2, <2>2 DEF NextOf
  <2>5. CASE m # Root
    <3> DEFINE p == Parent(t, m)
               k == Key(t, m)
    <3>1. Filed(t, p, k, m)
      BY <2>3, <2>5, ParentFacts
    <3>2. f[m] = IF Later(t, m) = {} THEN f[p] ELSE NextSibling(t, m)
      BY <2>3, <2>5, <1>1 DEF Climbs
    <3> HIDE DEF p, k
    <3>3. /\ x \in Under(t, p)
          /\ Later(t, m) = {} => Under(t, p) \cap Greater(t, x) = {}
          /\ Later(t, m) # {} => NextOf(t, x, NextSibling(t, m))
      BY <2>3, <3>1, ClimbStep
    <3>4. CASE Later(t, m) = {}
      <4>1. p \in Starts
        BY <3>1, <3>3, <3>4 DEF Filed
      <4>2. Rank(p) < Rank(m) /\ Rank(p) \in Nat /\ Rank(m) \in Nat
        BY <3>1, RankFalls
      <4>3. ~(Rank(p) \in Bad)
        BY <4>2, <2>1, <2>2
      <4>4. Good(p)
        BY <4>1, <4>3
      <4> QED  BY <4>4, <3>2, <3>4, <2>2
    <3>5. CASE Later(t, m) # {}
      BY <3>2, <3>3, <3>5, <2>2
    <3> QED  BY <3>4, <3>5
  <2> QED  BY <2>4, <2>5
<1>3. x \in Starts
  <2>1. Under(t, x) = {x}
    BY DEF Under
  <2>2. x \notin Greater(t, x)
    BY NodeFacts, LexOnce DEF Greater
  <2> QED  BY <2>1, <2>2
<1> HIDE DEF Good
<1>4. Good(x)
  BY <1>2, <1>3
<1> QED  BY <1>1, <1>4 DEF Good
-----------------------------------------------------------------------------
(* longest_match() *)

Rises(t, f) ==
  /\ f[NullNode] = NullNode
  /\ \A m \in DOMAIN t :
       f[m] = IF Nul \in Labels(t, m) /\ t[Kid(t, m, Nul)].m_is_leaf
              THEN Kid(t, m, Nul) ELSE f[t[m].m_parent]

(* longest_match() as a climb from where find_node() stopped. *)
LEMMA MatchTurns ==
  ASSUME Tree(node), NEW key, m_root # NullNode
  PROVE  \E f : /\ Rises(node, f)
                /\ LongestMatch(key) =
                     LET n == FindNode(node, key)
                         matched == Substr(key, node[n].m_depth, Len(node[n].m_key)) = node[n].m_key
                     IN  IF node[n].m_is_leaf THEN n
                         ELSE f[IF matched THEN n ELSE node[n].m_parent]
<1> DEFINE D == DOMAIN node \cup {NullNode}
           ends(m) == Nul \in Labels(node, m) /\ node[Kid(node, m, Nul)].m_is_leaf
           stop == [m \in D |-> m = NullNode \/ ends(m)]
           val == [m \in D |-> IF m = NullNode THEN NullNode ELSE Kid(node, m, Nul)]
           next == [m \in D |-> node[m].m_parent]
           rank == [m \in D |-> IF m = NullNode THEN 0 ELSE Rank(m) + 1]
           Fits(f) == Recurses(f, D, stop, val, next)
<1>1. rank \in [D -> Nat]
  <2>1. \A m \in D : (IF m = NullNode THEN 0 ELSE Rank(m) + 1) \in Nat
    BY RankNat
  <2> QED  BY <2>1
<1>2. ASSUME NEW m \in D, ~stop[m] PROVE next[m] \in D /\ rank[next[m]] < rank[m]
  <2>1. m \in DOMAIN node /\ m # NullNode
    BY <1>2
  <2>2. rank[m] = Rank(m) + 1 /\ Rank(m) \in Nat
    BY <2>1, RankNat
  <2>3. next[m] = node[m].m_parent
    OBVIOUS
  <2>4. CASE m = Root
    <3>1. next[m] = NullNode
      BY <2>1, <2>3, <2>4, OrphanIsRoot
    <3> HIDE DEF next
    <3>2. rank[NullNode] = 0
      OBVIOUS
    <3> HIDE DEF rank
    <3> QED  BY <3>1, <3>2, <2>2
  <2>5. CASE m # Root
    <3> DEFINE p == Parent(node, m)
    <3>1. Filed(node, p, Key(node, m), m)
      BY <2>1, <2>5, ParentFacts
    <3>2. next[m] = p
      BY <2>3 DEF Parent
    <3> HIDE DEF p, next
    <3>3. Rank(p) < Rank(m) /\ p \in DOMAIN node /\ Rank(p) \in Nat
      BY <3>1, RankFalls DEF Filed
    <3>4. p # NullNode
      BY <3>3, NullIsNoNode
    <3>5. rank[p] = Rank(p) + 1
      BY <3>3, <3>4
    <3> HIDE DEF rank
    <3> QED  BY <3>2, <3>3, <3>5, <2>2
  <2> QED  BY <2>4, <2>5
<1> HIDE DEF stop, val, next, rank
<1>4. \E f : Fits(f)
  <2> HIDE DEF D
  <2>1. \A m \in D : ~stop[m] => next[m] \in D /\ rank[next[m]] < rank[m]
    BY <1>2
  <2> QED  BY <1>1, <2>1, Recursion
<1>5. ASSUME NEW f, Fits(f) PROVE Rises(node, f)
  <2>1. ASSUME NEW m \in D PROVE f[m] = IF stop[m] THEN val[m] ELSE f[next[m]]
    <3> HIDE DEF D
    <3> QED  BY <1>5, Zenon DEF Recurses
  <2>2. f[NullNode] = NullNode
    BY <2>1 DEF stop, val
  <2>3. ASSUME NEW m \in DOMAIN node
        PROVE  f[m] = IF ends(m) THEN Kid(node, m, Nul) ELSE f[node[m].m_parent]
    <3>1. m \in D /\ m # NullNode
      BY NullIsNoNode
    <3>2. f[m] = IF stop[m] THEN val[m] ELSE f[next[m]]
      BY <3>1, <2>1
    <3> HIDE DEF ends
    <3> QED  BY <3>1, <3>2 DEF stop, val, next
  <2> QED  BY <2>2, <2>3 DEF Rises
<1> DEFINE Walks(f) == f = [m \in DOMAIN node \cup {NullNode} |->
               IF m = NullNode THEN NullNode
               ELSE IF Nul \in Labels(node, m) /\ node[node[m].m_children[Nul]].m_is_leaf
                    THEN node[m].m_children[Nul]
                    ELSE f[node[m].m_parent]]
           F == CHOOSE f : Walks(f)
<1>6. ASSUME NEW f PROVE Walks(f) <=> Fits(f)
  <2>1. \A m \in D :
          (IF stop[m] THEN val[m] ELSE f[next[m]])
          = IF m = NullNode THEN NullNode
            ELSE IF Nul \in Labels(node, m) /\ node[node[m].m_children[Nul]].m_is_leaf
                 THEN node[m].m_children[Nul]
                 ELSE f[node[m].m_parent]
    BY DEF stop, val, next, Kid
  <2> QED  BY <2>1, Zenon DEF Recurses
<1>7. Walks(F)
  <2> HIDE DEF Walks, Fits
  <2> QED  BY <1>4, <1>6
<1>8. Fits(F)
  <2> HIDE DEF Walks, Fits, F
  <2> QED  BY <1>6, <1>7
<1>9. LongestMatch(key) =
        LET n == FindNode(node, key)
            matched == Substr(key, node[n].m_depth, Len(node[n].m_key)) = node[n].m_key
        IN  IF node[n].m_is_leaf THEN n
            ELSE F[IF matched THEN n ELSE node[n].m_parent]
  BY DEF LongestMatch
<1> HIDE DEF Fits, F
<1> QED  BY <1>5, <1>8, <1>9

(* The leaves whose keys a string begins with, and the longest of them. *)
LeafPrefixes(t, key) == {y \in DOMAIN t : y[2] /\ Begins(y[1], key)}

LongestOf(t, key, r) ==
  IF LeafPrefixes(t, key) = {} THEN r = NullNode
  ELSE r \in LeafPrefixes(t, key) /\ \A y \in LeafPrefixes(t, key) : Len(y[1]) <= Len(r[1])

(* m lies on the way, and no leaf that begins key is further on. *)
Reached(t, key, m) ==
  /\ m \in DOMAIN t /\ ~m[2] /\ Begins(m[1], key)
  /\ \A y \in LeafPrefixes(t, key) : Len(y[1]) <= Len(m[1])

(* A child further on is the one the string takes. *)
LEMMA OneWay ==
  ASSUME NEW t, Tree(t), NEW key \in Str, NEW p, NEW k, NEW m, Filed(t, p, k, m), k # Nul,
         Begins(p[1], key), Len(key) > Len(p[1]), k[1] = key[Len(p[1]) + 1],
         NEW y \in LeafPrefixes(t, key), Len(y[1]) > Len(p[1])
  PROVE  Begins(m[1], y[1])
<1>1. /\ p \in DOMAIN t /\ ~p[2] /\ p[1] \in Str
  BY DEF Filed
<1>2. y \in DOMAIN t /\ y[1] \in Str /\ Begins(y[1], key)
  BY NodeFacts DEF LeafPrefixes
<1>3. Len(p[1]) \in Nat /\ Len(y[1]) \in Nat
  BY <1>1, <1>2, StringLength
<1>4. Begins(p[1], y[1])
  <2>1. Len(p[1]) <= Len(y[1])
    BY <1>3
  <2> QED  BY <2>1, <1>1, <1>2, BeginsBoth
<1>5. PICK l : /\ Filed(t, p, l, Kid(t, p, l)) /\ l # Nul
               /\ l[1] = y[1][Len(p[1]) + 1] /\ Begins(Kid(t, p, l)[1], y[1])
  BY <1>1, <1>2, <1>4, KidToward
<1>6. Len(p[1]) + 1 \in 1..Len(y[1])
  BY <1>3
<1>7. l[1] = k[1]
  BY <1>2, <1>5, <1>6 DEF Begins
<1>8. Kid(t, p, l) = m
  BY <1>5, <1>7, OneSibling
<1> QED  BY <1>5, <1>8

(* The climb stops at the longest prefix, or goes on without missing one. *)
LEMMA RiseStep ==
  ASSUME NEW t, Tree(t), NEW key \in Str, NEW m, Reached(t, key, m)
  PROVE  /\ Nul \in Labels(t, m) => LongestOf(t, key, Kid(t, m, Nul))
                                    /\ t[Kid(t, m, Nul)].m_is_leaf
         /\ Nul \notin Labels(t, m) /\ m = Root => LeafPrefixes(t, key) = {}
         /\ Nul \notin Labels(t, m) /\ m # Root => Reached(t, key, Parent(t, m))
<1>1. /\ m \in DOMAIN t /\ ~m[2] /\ Begins(m[1], key) /\ m[1] \in Str /\ Len(m[1]) \in Nat
      /\ \A y \in LeafPrefixes(t, key) : Len(y[1]) <= Len(m[1])
  BY NodeFacts, StringLength DEF Reached
<1>2. ASSUME Nul \in Labels(t, m)
      PROVE  LongestOf(t, key, Kid(t, m, Nul)) /\ t[Kid(t, m, Nul)].m_is_leaf
  <2> DEFINE c == Kid(t, m, Nul)
  <2>1. Filed(t, m, Nul, c)
    BY <1>1, <1>2, KidFacts
  <2> HIDE DEF c
  <2>2. c \in DOMAIN t /\ c[2] /\ c[1] \in Str /\ Len(c[1]) = Len(m[1]) + Len(Nul)
        /\ Begins(m[1], c[1])
    BY <2>1 DEF Filed
  <2>3. Len(c[1]) = Len(m[1])
    BY <2>2, <1>1, NulString
  <2>4. m[1] = c[1]
    BY <2>2, <2>3, <1>1, BeginsSame
  <2>5. c \in LeafPrefixes(t, key)
    BY <2>2, <2>4, <1>1 DEF LeafPrefixes
  <2>6. LongestOf(t, key, c)
    BY <2>4, <2>5, <1>1 DEF LongestOf
  <2>7. t[c].m_is_leaf
    BY <2>2, NodeFacts
  <2> QED  BY <2>6, <2>7 DEF c
<1>3. ASSUME Nul \notin Labels(t, m), NEW y \in LeafPrefixes(t, key)
      PROVE  Len(y[1]) < Len(m[1]) /\ Len(y[1]) \in Nat
  <2>1. y \in DOMAIN t /\ y[2] /\ Begins(y[1], key) /\ y[1] \in Str /\ Len(y[1]) \in Nat
    BY NodeFacts, StringLength DEF LeafPrefixes
  <2>2. Len(y[1]) <= Len(m[1])
    BY <1>1
  <2>3. Begins(y[1], m[1])
    BY <2>1, <2>2, <1>1, BeginsBoth
  <2>4. ASSUME Len(y[1]) = Len(m[1]) PROVE FALSE
    <3>1. y[1] = m[1]
      BY <2>1, <2>3, <2>4, <1>1, BeginsSame
    <3> QED  BY <3>1, <2>1, <1>1, <1>3, KidOfOwnKey
  <2> QED  BY <2>1, <2>2, <2>4, <1>1
<1>4. ASSUME Nul \notin Labels(t, m), m = Root PROVE LeafPrefixes(t, key) = {}
  <2>1. Len(m[1]) = 0
    BY <1>4, AddressFacts, NulString
  <2> QED  BY <2>1, <1>3, <1>4
<1>5. ASSUME Nul \notin Labels(t, m), m # Root PROVE Reached(t, key, Parent(t, m))
  <2> DEFINE p == Parent(t, m)
             k == Key(t, m)
  <2>1. Filed(t, p, k, m)
    BY <1>1, <1>5, ParentFacts
  <2> HIDE DEF p, k
  <2>2. /\ p \in DOMAIN t /\ ~p[2] /\ p[1] \in Str /\ Begins(p[1], m[1]) /\ k # Nul
    BY <2>1, <1>1 DEF Filed
  <2>3. Begins(p[1], key)
    BY <2>2, <1>1, BeginsTransitive
  <2>4. Len(m[1]) > Len(p[1]) /\ m[1][Len(p[1]) + 1] = k[1]
    BY <2>1, <2>2, FirstOfLabel
  <2>5. Len(p[1]) \in Nat /\ Len(key) \in Nat
    BY <2>2, StringLength
  <2>6. Len(p[1]) + 1 \in 1..Len(m[1]) /\ Len(m[1]) <= Len(key)
    BY <2>4, <2>5, <1>1 DEF Begins
  <2>7. key[Len(p[1]) + 1] = k[1] /\ Len(key) > Len(p[1])
    BY <2>4, <2>5, <2>6, <1>1 DEF Begins
  <2>8. ASSUME NEW y \in LeafPrefixes(t, key) PROVE Len(y[1]) <= Len(p[1])
    <3> SUFFICES ASSUME ~(Len(y[1]) <= Len(p[1])) PROVE FALSE
      OBVIOUS
    <3>1. Len(y[1]) < Len(m[1]) /\ Len(y[1]) \in Nat
      BY <1>3, <1>5
    <3>2. Len(y[1]) > Len(p[1])
      BY <3>1, <2>5
    <3>3. Begins(m[1], y[1])
      BY <3>2, <2>1, <2>2, <2>3, <2>7, OneWay
    <3> QED  BY <3>1, <3>3, <1>1 DEF Begins
  <2>9. Reached(t, key, p)
    BY <2>2, <2>3, <2>8 DEF Reached
  <2> QED  BY <2>9 DEF p
<1> QED  BY <1>2, <1>4, <1>5

(* Where the climb starts. *)
LEMMA EndReached ==
  ASSUME NEW t, Tree(t), NEW key \in Str, NEW n, FoundEnd(t, key, n)
  PROVE  Reached(t, key, n)
<1>1. n \in DOMAIN t /\ ~n[2] /\ Begins(n[1], key)
  BY DEF FoundEnd
<1>2. n[1] \in Str /\ Len(n[1]) \in Nat /\ Len(key) \in Nat
  BY <1>1, NodeFacts, StringLength
<1>3. ASSUME NEW y \in LeafPrefixes(t, key) PROVE Len(y[1]) <= Len(n[1])
  <2>1. y \in DOMAIN t /\ y[1] \in Str /\ Len(y[1]) \in Nat /\ Begins(y[1], key)
    BY NodeFacts, StringLength DEF LeafPrefixes
  <2> SUFFICES ASSUME Len(y[1]) > Len(n[1]) PROVE FALSE
    BY <1>2, <2>1
  <2>2. Len(n[1]) <= Len(y[1]) /\ Len(key) > Len(n[1])
    BY <1>2, <2>1 DEF Begins
  <2>3. Begins(n[1], y[1])
    BY <2>1, <2>2, <1>1, <1>2, BeginsBoth
  <2>4. PICK l : /\ Filed(t, n, l, Kid(t, n, l)) /\ l # Nul
                 /\ l[1] = y[1][Len(n[1]) + 1] /\ Begins(Kid(t, n, l)[1], y[1])
    BY <1>1, <2>1, <2>3, KidToward
  <2>5. Len(n[1]) + 1 \in 1..Len(y[1])
    BY <1>2, <2>1
  <2>6. l[1] = key[Len(n[1]) + 1] /\ l \in Labels(t, n)
    BY <2>1, <2>4, <2>5 DEF Begins, Filed
  <2> QED  BY <2>2, <2>4, <2>6, EndIsNew
<1> QED  BY <1>1, <1>3 DEF Reached

(* It starts at the parent of a fork. *)
LEMMA ForkReached ==
  ASSUME NEW t, Tree(t), NEW key \in Str, NEW n, FoundFork(t, key, n)
  PROVE  Reached(t, key, Parent(t, n))
<1> DEFINE p == Parent(t, n)
           k == Key(t, n)
<1>1. /\ n \in DOMAIN t /\ ~n[2] /\ n # Root /\ ~Begins(n[1], key)
      /\ Begins(p[1], key) /\ Len(p[1]) < Len(key) /\ k[1] = key[Len(p[1]) + 1]
  BY DEF FoundFork
<1>2. Filed(t, p, k, n)
  BY <1>1, ParentFacts
<1> HIDE DEF p, k
<1>3. p \in DOMAIN t /\ ~p[2] /\ p[1] \in Str /\ n[1] \in Str /\ k # Nul
  BY <1>1, <1>2 DEF Filed
<1>4. Len(p[1]) \in Nat /\ Len(key) \in Nat
  BY <1>3, StringLength
<1>5. ASSUME NEW y \in LeafPrefixes(t, key) PROVE Len(y[1]) <= Len(p[1])
  <2>1. y[1] \in Str /\ Len(y[1]) \in Nat /\ Begins(y[1], key)
    BY NodeFacts, StringLength DEF LeafPrefixes
  <2> SUFFICES ASSUME Len(y[1]) > Len(p[1]) PROVE FALSE
    BY <1>4, <2>1
  <2>2. Begins(n[1], y[1])
    BY <1>1, <1>2, <1>3, <1>4, OneWay
  <2>3. Begins(n[1], key)
    BY <2>1, <2>2, <1>3, BeginsTransitive
  <2> QED  BY <2>3, <1>1
<1> QED  BY <1>1, <1>3, <1>5 DEF Reached, p

(* longest_match() finds the longest stored prefix. *)
LEMMA LongestFound ==
  ASSUME Tree(node), m_root # NullNode, NEW key \in Str
  PROVE  LongestOf(node, key, LongestMatch(key))
<1> DEFINE n == FindNode(node, key)
           matched == Substr(key, node[n].m_depth, Len(node[n].m_key)) = node[n].m_key
<1>1. PICK f : /\ Rises(node, f)
               /\ LongestMatch(key) =
                    IF node[n].m_is_leaf THEN n
                    ELSE f[IF matched THEN n ELSE node[n].m_parent]
  BY MatchTurns
<1>2. Found(node, key, n)
  BY FindFound
<1>3. ASSUME NEW m, Reached(node, key, m) PROVE LongestOf(node, key, f[m])
  <2> DEFINE Good(x) == LongestOf(node, key, f[x])
             Starts == {x \in DOMAIN node : Reached(node, key, x)}
             Bad == {Rank(x) : x \in {y \in Starts : ~Good(y)}}
  <2>1. Bad = {}
    <3> SUFFICES ASSUME Bad # {} PROVE FALSE
      OBVIOUS
    <3>1. PICK r \in Bad : \A x \in Bad : r <= x
      <4>1. Bad \subseteq Nat
        BY RankNat
      <4> HIDE DEF Bad
      <4> QED  BY <4>1, Least
    <3>2. PICK x \in Starts : ~Good(x) /\ r = Rank(x)
      BY <3>1
    <3>3. x \in DOMAIN node /\ Reached(node, key, x)
      BY <3>2
    <3>4. f[x] = IF Nul \in Labels(node, x) /\ node[Kid(node, x, Nul)].m_is_leaf
                 THEN Kid(node, x, Nul) ELSE f[node[x].m_parent]
      BY <3>3, <1>1 DEF Rises
    <3>5. CASE Nul \in Labels(node, x)
      <4>1. LongestOf(node, key, Kid(node, x, Nul)) /\ node[Kid(node, x, Nul)].m_is_leaf
        BY <3>3, <3>5, RiseStep
      <4> QED  BY <4>1, <3>2, <3>4, <3>5
    <3>6. CASE Nul \notin Labels(node, x) /\ x = Root
      <4>1. LeafPrefixes(node, key) = {}
        BY <3>3, <3>6, RiseStep
      <4>2. f[x] = NullNode
        BY <3>3, <3>4, <3>6, <1>1, OrphanIsRoot DEF Rises
      <4> QED  BY <4>1, <4>2, <3>2 DEF LongestOf
    <3>7. CASE Nul \notin Labels(node, x) /\ x # Root
      <4> DEFINE p == Parent(node, x)
      <4>1. Reached(node, key, p)
        BY <3>3, <3>7, RiseStep
      <4>2. f[x] = f[p]
        BY <3>4, <3>7 DEF Parent
      <4>3. Filed(node, p, Key(node, x), x)
        BY <3>3, <3>7, ParentFacts
      <4> HIDE DEF p
      <4>4. Rank(p) < Rank(x) /\ Rank(p) \in Nat /\ Rank(x) \in Nat
        BY <4>3, RankFalls
      <4>5. ~(Rank(p) \in Bad)
        BY <4>4, <3>1, <3>2
      <4>6. p \in Starts
        BY <4>1 DEF Reached
      <4>7. Good(p)
        BY <4>5, <4>6
      <4> QED  BY <4>2, <4>7, <3>2
    <3> QED  BY <3>5, <3>6, <3>7
  <2>2. m \in Starts
    BY <1>3 DEF Reached
  <2> HIDE DEF Good
  <2>3. Good(m)
    BY <2>1, <2>2
  <2> QED  BY <2>3 DEF Good
<1>4. matched <=> Continues(node, n, Pair(key, Default))
  BY DEF Continues, Pair
<1> HIDE DEF n, matched
<1>5. /\ n \in DOMAIN node /\ node[n].m_is_leaf = n[2]
      /\ FoundLeaf(node, key, n) <=> n[2]
      /\ FoundEnd(node, key, n) => n = Root \/ matched
      /\ FoundFork(node, key, n) => ~(n = Root \/ matched)
  BY <1>2, <1>4, FoundSplits
<1>6. CASE FoundLeaf(node, key, n)
  <2>1. LongestMatch(key) = n /\ n[1] = key
    BY <1>1, <1>5, <1>6 DEF FoundLeaf
  <2>2. n \in LeafPrefixes(node, key)
    BY <1>6, BeginsItself DEF FoundLeaf, LeafPrefixes
  <2>3. \A y \in LeafPrefixes(node, key) : Len(y[1]) <= Len(n[1])
    BY <2>1 DEF LeafPrefixes, Begins
  <2> QED  BY <2>1, <2>2, <2>3 DEF LongestOf
<1>7. CASE FoundEnd(node, key, n)
  <2>1. ~n[2] /\ n \in DOMAIN node
    BY <1>7 DEF FoundEnd
  <2>2. matched
    <3>1. CASE n = Root
      <4>1. node[n].m_depth = 0 /\ node[n].m_key = Nul
        BY <3>1, <2>1, TreeParts DEF Hangs
      <4>2. Len(key) \in Nat /\ 0 \in 0..Len(key) /\ 0 + 0 <= Len(key)
        BY StringLength
      <4>3. Substr(key, 0, 0) \in Str /\ Len(Substr(key, 0, 0)) = 0
        BY <4>2, SubstrFacts
      <4> QED  BY <4>1, <4>3, NulString DEF matched
    <3> QED  BY <3>1, <1>5, <1>7
  <2>3. LongestMatch(key) = f[n]
    BY <1>1, <1>5, <2>1, <2>2
  <2> QED  BY <2>3, <1>3, <1>7, EndReached
<1>8. CASE FoundFork(node, key, n)
  <2>1. ~n[2] /\ ~matched
    BY <1>5, <1>8 DEF FoundFork
  <2>2. LongestMatch(key) = f[Parent(node, n)]
    BY <1>1, <1>5, <2>1 DEF Parent
  <2> QED  BY <2>2, <1>3, <1>8, ForkReached
<1> QED  BY <1>2, <1>6, <1>7, <1>8 DEF Found
-----------------------------------------------------------------------------
(* What the root reaches is all there is. *)
LEMMA SubtreeOfRoot ==
  ASSUME NEW t, Tree(t), NEW b, Bounded(t, b)
  PROVE  Subtree(t, Root) = DOMAIN t
<1>1. \A m \in DOMAIN t : Children(t, m) \subseteq DOMAIN t
  <2> SUFFICES ASSUME NEW m \in DOMAIN t, NEW l \in Labels(t, m)
               PROVE  t[m].m_children[l] \in DOMAIN t
    BY DEF Children
  <2> QED  BY OwnerOfKid DEF Kid
<1>2. PICK f : /\ \A m \in DOMAIN t : f[m] = {m} \cup UNION {f[c] : c \in Children(t, m)}
               /\ \A n : Subtree(t, n) = f[n]
  BY <1>1, SubtreeUnfolds
<1>3. ASSUME NEW x \in DOMAIN t PROVE x \in f[Root]
  <2> DEFINE A == {Rank(m) : m \in {n \in DOMAIN t : x \in f[n]}}
  <2>1. A \subseteq Nat /\ A # {}
    <3>1. x \in f[x]
      BY <1>2
    <3> QED  BY <3>1, RankNat
  <2>2. PICK r \in A : \A s \in A : r <= s
    <3> HIDE DEF A
    <3> QED  BY <2>1, Least
  <2>3. PICK m \in DOMAIN t : x \in f[m] /\ r = Rank(m)
    BY <2>2
  <2>4. CASE m = Root
    BY <2>3, <2>4
  <2>5. CASE m # Root
    <3> DEFINE p == Parent(t, m)
    <3>1. Filed(t, p, Key(t, m), m)
      BY <2>5, ParentFacts
    <3> HIDE DEF p
    <3>2. Rank(p) < Rank(m) /\ Rank(p) \in Nat /\ Rank(m) \in Nat /\ p \in DOMAIN t
      BY <3>1, RankFalls DEF Filed
    <3>3. m \in Children(t, p)
      BY <3>1 DEF Filed, Children, Kid
    <3>4. x \in f[p]
      BY <3>2, <3>3, <2>3, <1>2
    <3>5. Rank(p) \in A
      BY <3>2, <3>4
    <3> QED  BY <3>2, <3>5, <2>2, <2>3
  <2> QED  BY <2>4, <2>5
<1>4. \A m \in DOMAIN t : Rank(m) \in Nat /\ Rank(m) <= 2 * b + 1
  <2> TAKE m \in DOMAIN t
  <2>1. m[1] \in Str /\ b \in Nat /\ Len(m[1]) <= b
    BY NodeFacts DEF Bounded
  <2>2. Len(m[1]) \in Nat
    BY <2>1, StringLength
  <2> QED  BY <2>1, <2>2 DEF Rank
<1>5. b \in Nat
  BY DEF Bounded
<1>6. ASSUME NEW x \in DOMAIN t PROVE f[x] \subseteq DOMAIN t
  <2> DEFINE Odd == {m \in DOMAIN t : ~(f[m] \subseteq DOMAIN t)}
             B == {2 * b + 1 - Rank(m) : m \in Odd}
  <2>1. B = {}
    <3> SUFFICES ASSUME B # {} PROVE FALSE
      OBVIOUS
    <3>1. PICK r \in B : \A s \in B : r <= s
      <4>1. B \subseteq Nat
        BY <1>4, <1>5
      <4> HIDE DEF B
      <4> QED  BY <4>1, Least
    <3>2. PICK m \in Odd : r = 2 * b + 1 - Rank(m)
      BY <3>1
    <3>3. m \in DOMAIN t
      OBVIOUS
    <3>4. PICK c \in Children(t, m) : ~(f[c] \subseteq DOMAIN t)
      BY <3>3, <1>2
    <3>5. PICK l \in Labels(t, m) : c = Kid(t, m, l)
      BY DEF Children, Kid
    <3>6. Filed(t, m, l, c)
      BY <3>3, <3>5, KidFacts
    <3>7. Rank(m) < Rank(c) /\ c \in DOMAIN t
      BY <3>6, RankFalls DEF Filed
    <3>8. c \in Odd
      BY <3>4, <3>7
    <3>9. 2 * b + 1 - Rank(c) \in B
      BY <3>8
    <3> HIDE DEF B, Odd
    <3>10. r <= 2 * b + 1 - Rank(c)
      BY <3>1, <3>9
    <3> QED  BY <3>2, <3>3, <3>7, <3>10, <1>4, <1>5
  <2> QED  BY <2>1
<1>7. Root \in DOMAIN t
  BY TreeParts
<1> QED  BY <1>2, <1>3, <1>6, <1>7

(* it->second = v *)
LEMMA AssignTree ==
  ASSUME NEW t, Tree(t), NoBare(t), NEW x \in DOMAIN t, x[2], NEW v
  PROVE  LET u == [t EXCEPT ![x].m_value.second = v]
         IN  /\ Tree(u) /\ NoBare(u) /\ DOMAIN u = DOMAIN t
             /\ \A n \in DOMAIN t : n # x => u[n] = t[n]
             /\ u[x].m_value = Pair(x[1], v)
<1> DEFINE r == t[x]
           s == [r EXCEPT !.m_value = Pair(x[1], v)]
           u == [t EXCEPT ![x] = s]
<1>1. t = [n \in DOMAIN t |-> t[n]] /\ Shaped(r) /\ LeafOK(t, x)
  BY TreeParts DEF Heap
<1>2. r.m_value = Pair(x[1], r.m_value.second)
  BY <1>1 DEF LeafOK
<1>3. [t EXCEPT ![x].m_value.second = v] = u
  <2>1. [r.m_value EXCEPT !.second = v] = Pair(x[1], v)
    <3> DEFINE w == r.m_value.second
    <3>1. r.m_value = Pair(x[1], w)
      BY <1>2
    <3> HIDE DEF w, r
    <3>2. [Pair(x[1], w) EXCEPT !.second = v] = Pair(x[1], v)
      BY DEF Pair
    <3> QED  BY <3>1, <3>2
  <2>2. [t EXCEPT ![x].m_value.second = v]
          = [t EXCEPT ![x] = [r EXCEPT !.m_value = [r.m_value EXCEPT !.second = v]]]
    OBVIOUS
  <2> HIDE DEF r
  <2> QED  BY <2>1, <2>2
<1>4. /\ s.m_children = r.m_children /\ s.m_parent = r.m_parent /\ s.m_value = Pair(x[1], v)
      /\ s.m_depth = r.m_depth /\ s.m_is_leaf = r.m_is_leaf /\ s.m_key = r.m_key
      /\ s = [m_children |-> s.m_children, m_parent |-> s.m_parent, m_value |-> s.m_value,
              m_depth |-> s.m_depth, m_is_leaf |-> s.m_is_leaf, m_key |-> s.m_key]
  <2> HIDE DEF r
  <2> QED  BY <1>1 DEF Shaped
<1> HIDE DEF s
<1>5. /\ DOMAIN u = DOMAIN t /\ u[x] = s /\ (\A n \in DOMAIN t : n # x => u[n] = t[n])
      /\ u = [n \in DOMAIN u |-> u[n]]
  BY <1>1
<1> HIDE DEF u
<1>6. Shaped(s)
  BY <1>1, <1>4 DEF Shaped
<1>7. Heap(u)
  <2>1. \A n \in DOMAIN t : n \in Address /\ Shaped(t[n])
    BY TreeParts DEF Heap
  <2> QED  BY <2>1, <1>5, <1>6 DEF Heap
<1>8. \A n \in DOMAIN t :
        /\ u[n].m_children = t[n].m_children /\ u[n].m_parent = t[n].m_parent
        /\ u[n].m_depth = t[n].m_depth /\ u[n].m_is_leaf = t[n].m_is_leaf
        /\ u[n].m_key = t[n].m_key
  BY <1>4, <1>5
<1>9. \A n \in DOMAIN t : /\ Labels(u, n) = Labels(t, n) /\ Parent(u, n) = Parent(t, n)
                          /\ Key(u, n) = Key(t, n) /\ \A l : Kid(u, n, l) = Kid(t, n, l)
  BY <1>8 DEF Labels, Parent, Key, Kid
<1>10. u[x].m_value = Pair(x[1], v)
  BY <1>4, <1>5
<1>11. ASSUME NEW n \in DOMAIN u PROVE LeafOK(u, n) /\ Hangs(u, n) /\ Branches(u, n)
  <2>1. n \in DOMAIN t /\ LeafOK(t, n) /\ Hangs(t, n) /\ Branches(t, n)
    BY <1>5, TreeParts
  <2>2. LeafOK(u, n)
    <3>1. CASE n = x
      <4>1. Pair(x[1], v) = Pair(x[1], Pair(x[1], v).second)
        BY DEF Pair
      <4> QED  BY <2>1, <3>1, <4>1, <1>8, <1>9, <1>10 DEF LeafOK
    <3>2. CASE n # x
      BY <2>1, <3>2, <1>5, <1>9 DEF LeafOK
    <3> QED  BY <3>1, <3>2
  <2>3. Hangs(u, n)
    <3>1. CASE n = Root
      BY <3>1, <2>1, <1>8 DEF Hangs
    <3>2. CASE n # Root
      <4> DEFINE p == Parent(t, n)
                 k == Key(t, n)
      <4>1. /\ p \in DOMAIN t /\ ~p[2] /\ k \in Labels(t, p) /\ Kid(t, p, k) = n
            /\ n[1] = p[1] \o k /\ t[n].m_depth = Len(p[1]) /\ (~n[2] => k # Nul)
        BY <2>1, <3>2 DEF Hangs
      <4>2. Parent(u, n) = p /\ Key(u, n) = k
        BY <2>1, <1>9
      <4> HIDE DEF p, k
      <4>3. p \in DOMAIN u /\ k \in Labels(u, p) /\ Kid(u, p, k) = n /\ u[n].m_depth = Len(p[1])
        BY <4>1, <2>1, <1>5, <1>8, <1>9
      <4> QED  BY <4>1, <4>2, <4>3, <3>2 DEF Hangs
    <3> QED  BY <3>1, <3>2
  <2>4. Branches(u, n)
    <3>1. ASSUME NEW l \in Labels(t, n)
          PROVE  /\ Kid(u, n, l) = Kid(t, n, l) /\ Kid(t, n, l) \in DOMAIN u
                 /\ Parent(u, Kid(t, n, l)) = Parent(t, Kid(t, n, l))
                 /\ Key(u, Kid(t, n, l)) = Key(t, Kid(t, n, l))
      <4>1. Kid(t, n, l) \in DOMAIN t
        BY <2>1, OwnerOfKid
      <4> QED  BY <4>1, <2>1, <1>5, <1>9
    <3> QED  BY <2>1, <3>1, <1>9, BranchesKept
  <2> QED  BY <2>2, <2>3, <2>4
<1>12. Tree(u)
  BY <1>5, <1>7, <1>11, TreeParts DEF Tree
<1>13. NoBare(u)
  BY <1>5, <1>9 DEF NoBare, Bare
<1> QED  BY <1>3, <1>5, <1>10, <1>12, <1>13

(* The tree before the first key. *)
LEMMA FirstRoot ==
  LET t == [n \in {Root} |-> TreeNode(NullNode, 0, Nul, FALSE, NullNode)]
  IN  Tree(t) /\ NoBare(t) /\ DOMAIN t = {Root}
<1> DEFINE r == TreeNode(NullNode, 0, Nul, FALSE, NullNode)
           t == [n \in {Root} |-> r]
<1>1. /\ Shaped(r) /\ DOMAIN r.m_children = {} /\ r.m_parent = NullNode /\ r.m_depth = 0
      /\ r.m_key = Nul /\ r.m_is_leaf = FALSE
  BY DEF TreeNode, Shaped, NoChildren
<1> HIDE DEF r
<1>2. DOMAIN t = {Root} /\ t[Root] = r /\ t = [n \in DOMAIN t |-> t[n]]
  OBVIOUS
<1> HIDE DEF t
<1>3. Root \in Address /\ Root[2] = FALSE
  BY AddressFacts
<1>4. Heap(t)
  BY <1>1, <1>2, <1>3 DEF Heap
<1>5. Labels(t, Root) = {}
  BY <1>1, <1>2 DEF Labels
<1>6. LeafOK(t, Root) /\ Hangs(t, Root)
  BY <1>1, <1>2, <1>3 DEF LeafOK, Hangs
<1>7. Branches(t, Root)
  BY <1>5, FS_EmptySet DEF Branches
<1>8. Tree(t)
  BY <1>2, <1>4, <1>6, <1>7 DEF Tree
<1>9. NoBare(t)
  BY <1>2 DEF NoBare, Bare
<1> QED  BY <1>2, <1>8, <1>9 DEF t, r
-----------------------------------------------------------------------------
(* The invariant of the tree. *)

LeafSet(t) == {n \in DOMAIN t : n[2]}

(* The pointer m_root and the heap t. *)
Shape(root, t) ==
  /\ root \in {NullNode, Root}
  /\ IF root = NullNode THEN t = [n \in {} |-> NullNode] ELSE Tree(t) /\ NoBare(t)

TreeInv ==
  /\ Shape(m_root, node)
  /\ IsFiniteSet(LeafSet(node)) /\ m_size = Cardinality(LeafSet(node))
  /\ \A n \in LeafSet(node) : n[1] \in Keys
  /\ it \in LeafSet(node) \cup {NullNode}
  /\ \E b : Bounded(node, b)
  /\ aborted \in BOOLEAN
  /\ aborted => m_root = Root /\ LeafSet(node) = {}

(* The null pointer, an aborted call and the root differ. *)
LEMMA RootIsNotNull == NullNode # Root /\ ABORT # Root /\ NullNode # ABORT
<1>1. Root \in Address
  BY AddressFacts
<1> QED  BY <1>1, RadixTreeAssumption

(* Keys and queries are strings. *)
LEMMA KeysAreStrings == \A k \in Queries : k \in Str
BY RadixTreeAssumption DEF Str

(* The address of a leaf is its key. *)
LEMMA LeafAddress ==
  ASSUME NEW t, Heap(t), NEW n \in LeafSet(t)
  PROVE  n = <<n[1], TRUE>> /\ n[1] \in Str /\ n \in Address
<1>1. n \in Address /\ n[2]
  BY DEF Heap, LeafSet
<1> QED  BY <1>1, AddressFacts

(* A heap of either shape. *)
LEMMA ShapeFacts ==
  ASSUME NEW root, NEW t, Shape(root, t)
  PROVE  /\ Heap(t) /\ LeafSet(t) \subseteq DOMAIN t /\ NullNode \notin LeafSet(t)
         /\ ABORT \notin LeafSet(t)
         /\ \A n \in DOMAIN t : LeafOK(t, n)
         /\ root = NullNode => DOMAIN t = {} /\ LeafSet(t) = {}
         /\ root # NullNode => root = Root /\ Tree(t) /\ NoBare(t)
<1>1. CASE root = NullNode
  <2>1. t = [n \in {} |-> NullNode]
    BY <1>1 DEF Shape
  <2>2. DOMAIN t = {} /\ t = [n \in DOMAIN t |-> t[n]]
    BY <2>1
  <2>3. LeafSet(t) = {}
    BY <2>2 DEF LeafSet
  <2> QED  BY <1>1, <2>2, <2>3 DEF Heap
<1>2. CASE root # NullNode
  <2>1. root = Root /\ Tree(t) /\ NoBare(t)
    BY <1>2 DEF Shape
  <2>2. Heap(t) /\ \A n \in DOMAIN t : LeafOK(t, n)
    BY <2>1, TreeParts
  <2>3. LeafSet(t) \subseteq DOMAIN t
    BY DEF LeafSet
  <2>4. NullNode \notin DOMAIN t /\ ABORT \notin DOMAIN t
    BY <2>1, NullIsNoNode
  <2> QED  BY <1>2, <2>1, <2>2, <2>3, <2>4
<1> QED  BY <1>1, <1>2

(* The tree insert() works on. *)
LEMMA RootedFacts ==
  ASSUME Shape(m_root, node)
  PROVE  /\ Tree(Rooted) /\ NoBare(Rooted) /\ LeafSet(Rooted) = LeafSet(node)
         /\ DOMAIN node \subseteq DOMAIN Rooted
         /\ \A n \in DOMAIN node : Rooted[n] = node[n]
         /\ \A n \in DOMAIN Rooted \ DOMAIN node : n = Root
<1>1. CASE m_root = NullNode
  <2> DEFINE t == [n \in {Root} |-> TreeNode(NullNode, 0, Nul, FALSE, NullNode)]
  <2>1. Rooted = t
    BY <1>1 DEF Rooted
  <2>2. Tree(t) /\ NoBare(t) /\ DOMAIN t = {Root}
    BY FirstRoot
  <2> HIDE DEF t
  <2>3. DOMAIN node = {} /\ LeafSet(node) = {}
    BY <1>1, ShapeFacts
  <2>4. LeafSet(t) = {}
    BY <2>2, AddressFacts DEF LeafSet
  <2> QED  BY <2>1, <2>2, <2>3, <2>4
<1>2. CASE m_root # NullNode
  <2>1. Rooted = node
    BY <1>2 DEF Rooted
  <2>2. Tree(node) /\ NoBare(node)
    BY <1>2, ShapeFacts
  <2> QED  BY <2>1, <2>2
<1> QED  BY <1>1, <1>2

(* u is t with val for key, unless key was there. *)
Puts(t, u, key, val) ==
  /\ LeafSet(u) = LeafSet(t) \cup {<<key, TRUE>>}
  /\ \A n \in LeafSet(t) : u[n].m_value = t[n].m_value
  /\ <<key, TRUE>> \notin LeafSet(t) => u[<<key, TRUE>>].m_value = val

(* A tree grown by key holds one more leaf, or the one it held. *)
LEMMA GrownPuts ==
  ASSUME NEW t, NEW u, NEW key \in Str, NEW val, Grown(t, u, key, val)
  PROVE  Puts(t, u, key, val) /\ <<key, TRUE>> \notin LeafSet(t)
<1> DEFINE a == <<key, TRUE>>
<1>1. /\ a \in DOMAIN u /\ a \notin DOMAIN t /\ u[a].m_value = val /\ DOMAIN t \subseteq DOMAIN u
      /\ (\A x \in DOMAIN t : u[x].m_value = t[x].m_value)
      /\ \A x \in DOMAIN u \ DOMAIN t : x[2] => x = a
  BY DEF Grown, Grows
<1>2. a[2]
  OBVIOUS
<1>a. <<key, TRUE>> = a
  OBVIOUS
<1> HIDE DEF a
<1> QED  BY <1>a, <1>1, <1>2 DEF Puts, LeafSet

(* insert(): no assert fails, and the leaf for key is in the new tree. *)
LEMMA InsertFacts ==
  ASSUME Shape(m_root, node), NEW key \in Str, NEW v
  PROVE  LET u == Inserted(Pair(key, v))
         IN  /\ ~PrependAborts(Pair(key, v)) /\ Tree(u) /\ NoBare(u)
             /\ Puts(node, u, key, Pair(key, v))
             /\ NewElements(key) = IF <<key, TRUE>> \in LeafSet(node) THEN 0 ELSE 1
             /\ \A x \in DOMAIN u \ DOMAIN node : Len(x[1]) <= Len(key)
<1> DEFINE t == Rooted
           n == FindNode(t, key)
           val == Pair(key, v)
           u == Inserted(val)
<1>1. /\ Tree(t) /\ NoBare(t) /\ LeafSet(t) = LeafSet(node) /\ DOMAIN node \subseteq DOMAIN t
      /\ (\A x \in DOMAIN node : t[x] = node[x]) /\ \A x \in DOMAIN t \ DOMAIN node : x = Root
  BY RootedFacts
<1>2. val.first = key
  BY DEF Pair
<1>3. Found(t, key, n)
  BY <1>1, FindFound
<1>4. /\ n \in DOMAIN t /\ t[n].m_is_leaf = n[2] /\ (FoundLeaf(t, key, n) <=> n[2])
      /\ (FoundEnd(t, key, n) => n = Root \/ Continues(t, n, val))
      /\ (FoundFork(t, key, n) => ~(n = Root \/ Continues(t, n, val)))
  BY <1>1, <1>3, FoundSplits
<1>5. /\ u = IF t[n].m_is_leaf THEN t
             ELSE IF n = Root \/ Continues(t, n, val) THEN AppendNode(t, n, val)
             ELSE Prepend(t, n, val)
      /\ (PrependAborts(val) <=> /\ ~t[n].m_is_leaf /\ n # Root /\ ~Continues(t, n, val)
                                 /\ Shared(t, n, val) = 0)
      /\ NewElements(key) = IF t[n].m_is_leaf THEN 0 ELSE 1
  BY <1>2 DEF Inserted, PrependAborts, NewElements
<1>6. /\ (<<key, TRUE>> \in DOMAIN t => n = <<key, TRUE>>)
      /\ (n[2] => n = <<key, TRUE>> /\ <<key, TRUE>> \in DOMAIN t)
  BY <1>1, FindLeaf
<1>7. Len(key) \in Nat /\ Len(Root[1]) = 0
  BY StringLength, NulString, AddressFacts
<1>8. /\ Inserted(Pair(key, v)) = u /\ Pair(key, v) = val
      /\ \A w : Puts(node, w, key, val) <=> Puts(t, w, key, val)
  <2>1. \A x \in LeafSet(node) : t[x].m_value = node[x].m_value
    BY <1>1 DEF LeafSet
  <2> QED  BY <2>1, <1>1 DEF Puts
<1>9. FoundFork(t, key, n) => Shared(t, n, val) # 0
  BY <1>1, NeverAborts
<1>10. <<key, TRUE>> \notin DOMAIN t /\ FoundEnd(t, key, n) => Grown(t, AppendNode(t, n, val), key, val)
  BY <1>1, AppendGrows
<1>11. FoundFork(t, key, n) => Grown(t, Prepend(t, n, val), key, val)
  BY <1>1, PrependGrows
<1>12. \A w : Grown(t, w, key, val) => Puts(t, w, key, val) /\ <<key, TRUE>> \notin LeafSet(t)
  BY GrownPuts
<1> HIDE DEF t, n, u, val
<1>13. ~PrependAborts(val)
  BY <1>3, <1>4, <1>5, <1>9 DEF Found
<1>14. CASE n[2]
  <2>1. u = t /\ NewElements(key) = 0 /\ <<key, TRUE>> \in LeafSet(t)
    BY <1>14, <1>4, <1>5, <1>6 DEF LeafSet
  <2>2. Puts(t, u, key, val)
    BY <2>1 DEF Puts
  <2> QED  BY <2>1, <2>2, <1>1, <1>7, <1>8, <1>13
<1>15. CASE ~n[2]
  <2>1. Grown(t, u, key, val) /\ NewElements(key) = 1
    <3>1. ~t[n].m_is_leaf /\ <<key, TRUE>> \notin DOMAIN t /\ NewElements(key) = 1
      <4>1. <<key, TRUE>>[2] = TRUE
        OBVIOUS
      <4> QED  BY <4>1, <1>15, <1>4, <1>5, <1>6
    <3>2. CASE FoundEnd(t, key, n)
      BY <3>1, <3>2, <1>4, <1>5, <1>10
    <3>3. CASE FoundFork(t, key, n)
      BY <3>1, <3>3, <1>4, <1>5, <1>11
    <3>4. ~FoundLeaf(t, key, n)
      BY <1>15, <1>4
    <3> QED  BY <3>1, <3>2, <3>3, <3>4, <1>3 DEF Found
  <2>2. Puts(t, u, key, val) /\ <<key, TRUE>> \notin LeafSet(node)
    BY <2>1, <1>12, <1>1
  <2>3. Tree(u) /\ NoBare(u) /\ \A x \in DOMAIN u \ DOMAIN t : Len(x[1]) <= Len(key)
    BY <2>1 DEF Grown, Grows
  <2> QED  BY <2>1, <2>2, <2>3, <1>1, <1>7, <1>8, <1>13
<1> QED  BY <1>14, <1>15

(* What a set of leaves keeps when insert() adds the one of key. *)
LEMMA PutSize ==
  ASSUME NEW S, IsFiniteSet(S), NEW x
  PROVE  /\ IsFiniteSet(S \cup {x})
         /\ Cardinality(S \cup {x}) = Cardinality(S) + IF x \in S THEN 0 ELSE 1
<1>1. Cardinality(S) \in Nat
  BY FS_CardinalityType
<1>2. CASE x \in S
  <2>1. S \cup {x} = S
    BY <1>2
  <2>2. Cardinality(S) = Cardinality(S) + 0
    BY <1>1
  <2> QED  BY <2>1, <2>2, <1>2, Zenon
<1>3. CASE x \notin S
  BY <1>3, FS_AddElement
<1> QED  BY <1>2, <1>3

(* The longest string of a tree that grew by key. *)
LEMMA GrownBound ==
  ASSUME NEW t, NEW u, Heap(t), Heap(u), NEW b, Bounded(t, b), NEW key \in Str,
         \A x \in DOMAIN u \ DOMAIN t : Len(x[1]) <= Len(key)
  PROVE  \E c : Bounded(u, c)
<1> DEFINE c == b + Len(key)
<1>1. b \in Nat /\ Len(key) \in Nat
  BY StringLength DEF Bounded
<1>2. \A x \in DOMAIN u : Len(x[1]) \in Nat
  BY AddressFacts, StringLength DEF Heap
<1>3. Bounded(u, c)
  <2>1. ASSUME NEW x \in DOMAIN u PROVE Len(x[1]) <= b + Len(key)
    <3>1. CASE x \in DOMAIN t
      BY <3>1, <1>1, <1>2 DEF Bounded
    <3>2. CASE x \notin DOMAIN t
      BY <3>2, <1>1, <1>2
    <3> QED  BY <3>1, <3>2
  <2> QED  BY <2>1, <1>1 DEF Bounded
<1> QED  BY <1>3

(* The invariant holds of the tree the constructor leaves. *)
LEMMA StartInv == TreeInit => TreeInv
<1> SUFFICES ASSUME TreeInit PROVE TreeInv
  OBVIOUS
<1>1. m_root = NullNode /\ m_size = 0 /\ node = [n \in {} |-> NullNode] /\ it = NullNode /\ aborted = FALSE
  BY DEF TreeInit
<1>2. Shape(m_root, node)
  BY <1>1 DEF Shape
<1>3. LeafSet(node) = {} /\ DOMAIN node = {}
  BY <1>1, <1>2, ShapeFacts
<1>4. IsFiniteSet({}) /\ Cardinality({}) = 0
  BY FS_EmptySet
<1>5. Bounded(node, 0)
  BY <1>3 DEF Bounded
<1> QED  BY <1>1, <1>2, <1>3, <1>4, <1>5 DEF TreeInv

(* insert() *)
LEMMA InsertInv ==
  ASSUME TreeInv, ~aborted, NEW k \in Keys, NEW v, Insert(k, v)
  PROVE  TreeInv' /\ m_root' = Root /\ Puts(node, node', k, Pair(k, v))
         /\ it' \in {it, <<k, TRUE>>} /\ aborted' = aborted
<1> DEFINE u == Inserted(Pair(k, v))
<1>1. k \in Str
  BY KeysAreStrings, RadixTreeAssumption
<1>2. Shape(m_root, node)
  BY DEF TreeInv
<1>3. /\ ~PrependAborts(Pair(k, v)) /\ Tree(u) /\ NoBare(u) /\ Puts(node, u, k, Pair(k, v))
      /\ NewElements(k) = IF <<k, TRUE>> \in LeafSet(node) THEN 0 ELSE 1
      /\ \A x \in DOMAIN u \ DOMAIN node : Len(x[1]) <= Len(k)
  BY <1>1, <1>2, InsertFacts
<1>4. /\ m_root' = Root /\ node' = u /\ m_size' = m_size + NewElements(k)
      /\ it' \in {it, <<k, TRUE>>} /\ aborted' = aborted
  BY <1>3 DEF Insert
<1> HIDE DEF u
<1>5. Shape(m_root', node')
  BY <1>3, <1>4, RootIsNotNull DEF Shape
<1>6. LeafSet(node') = LeafSet(node) \cup {<<k, TRUE>>}
  BY <1>3, <1>4 DEF Puts
<1>7. IsFiniteSet(LeafSet(node')) /\ m_size' = Cardinality(LeafSet(node'))
  <2>1. IsFiniteSet(LeafSet(node)) /\ m_size = Cardinality(LeafSet(node))
    BY DEF TreeInv
  <2>2. /\ IsFiniteSet(LeafSet(node) \cup {<<k, TRUE>>})
        /\ Cardinality(LeafSet(node) \cup {<<k, TRUE>>})
             = Cardinality(LeafSet(node)) + IF <<k, TRUE>> \in LeafSet(node) THEN 0 ELSE 1
    BY <2>1, PutSize
  <2> QED  BY <2>1, <2>2, <1>3, <1>4, <1>6
<1>8. \A n \in LeafSet(node') : n[1] \in Keys
  <2>1. <<k, TRUE>>[1] = k /\ \A n \in LeafSet(node) : n[1] \in Keys
    BY DEF TreeInv
  <2> QED  BY <2>1, <1>6
<1>9. it' \in LeafSet(node') \cup {NullNode}
  BY <1>4, <1>6 DEF TreeInv
<1>10. \E b : Bounded(node', b)
  <2>1. Heap(node) /\ Heap(u)
    BY <1>2, <1>3, ShapeFacts, TreeParts
  <2>2. PICK b : Bounded(node, b)
    BY DEF TreeInv
  <2>3. \E c : Bounded(u, c)
    BY <2>1, <2>2, <1>1, <1>3, GrownBound
  <2> QED  BY <2>3, <1>4
<1>11. aborted' = FALSE
  BY <1>4 DEF TreeInv
<1>12. TreeInv'
  BY <1>5, <1>7, <1>8, <1>9, <1>10, <1>11 DEF TreeInv
<1> QED  BY <1>3, <1>4, <1>12

(* find() *)
LEMMA FindIs ==
  ASSUME Shape(m_root, node), NEW key \in Str
  PROVE  Find(key) = IF <<key, TRUE>> \in LeafSet(node) THEN <<key, TRUE>> ELSE NullNode
<1>1. CASE m_root = NullNode
  BY <1>1, ShapeFacts DEF Find
<1>2. CASE m_root # NullNode
  <2> DEFINE n == FindNode(node, key)
  <2>1. Tree(node)
    BY <1>2, ShapeFacts
  <2>2. /\ (<<key, TRUE>> \in DOMAIN node => n = <<key, TRUE>>)
        /\ (n[2] => n = <<key, TRUE>> /\ <<key, TRUE>> \in DOMAIN node)
    BY <2>1, FindLeaf
  <2>3. n \in DOMAIN node /\ node[n].m_is_leaf = n[2]
    <3>1. Found(node, key, n)
      BY <2>1, FindFound
    <3>2. n \in DOMAIN node
      BY <3>1 DEF Found, FoundLeaf, FoundEnd, FoundFork
    <3> QED  BY <3>2, <2>1, NodeFacts
  <2>4. Find(key) = IF m_root # NullNode /\ node[n].m_is_leaf THEN n ELSE NullNode
    BY DEF Find
  <2>5. <<key, TRUE>>[2] = TRUE
    OBVIOUS
  <2> HIDE DEF n
  <2> QED  BY <2>2, <2>3, <2>4, <2>5, <1>2 DEF LeafSet
<1> QED  BY <1>1, <1>2

(* it->second = v *)
LEMMA AssignInv ==
  ASSUME TreeInv, ~aborted, NEW v, Assign(v)
  PROVE  /\ TreeInv' /\ it \in LeafSet(node) /\ it' = it /\ LeafSet(node') = LeafSet(node)
         /\ \A n \in LeafSet(node) : n # it => node'[n] = node[n]
         /\ node'[it].m_value = Pair(it[1], v)
<1>1. /\ it # NullNode /\ node' = [node EXCEPT ![it].m_value.second = v]
      /\ m_root' = m_root /\ m_size' = m_size /\ it' = it /\ aborted' = aborted
  BY DEF Assign
<1>2. it \in LeafSet(node) /\ Shape(m_root, node)
  BY <1>1 DEF TreeInv
<1>3. m_root = Root /\ m_root # NullNode /\ Tree(node) /\ NoBare(node) /\ it \in DOMAIN node /\ it[2]
  BY <1>2, ShapeFacts DEF LeafSet
<1>4. /\ Tree(node') /\ NoBare(node') /\ DOMAIN node' = DOMAIN node
      /\ \A n \in DOMAIN node : n # it => node'[n] = node[n]
      /\ node'[it].m_value = Pair(it[1], v)
  BY <1>1, <1>3, AssignTree
<1>5. LeafSet(node') = LeafSet(node)
  BY <1>4 DEF LeafSet
<1>6. Shape(m_root', node')
  BY <1>1, <1>3, <1>4 DEF Shape
<1>7. \E b : Bounded(node', b)
  BY <1>4 DEF TreeInv, Bounded
<1>8. TreeInv'
  BY <1>1, <1>5, <1>6, <1>7 DEF TreeInv
<1> QED  BY <1>1, <1>2, <1>4, <1>5, <1>8 DEF LeafSet

(* u is t without the leaf x. *)
Drops(t, u, x) == /\ LeafSet(u) = LeafSet(t) \ {x}
                  /\ \A n \in LeafSet(u) : u[n].m_value = t[n].m_value

(* erase() of a key that is there *)
LEMMA EraseInv ==
  ASSUME TreeInv, ~aborted, NEW k \in Str, <<k, TRUE>> \in LeafSet(node), EraseKey(k)
  PROVE  /\ TreeInv' /\ Drops(node, node', <<k, TRUE>>)
         /\ it' = IF it = <<k, TRUE>> THEN NullNode ELSE it
<1> DEFINE x == <<k, TRUE>>
           u == Erased(x)
<1>1. Shape(m_root, node) /\ x \in DOMAIN node /\ x[2] /\ x \in LeafSet(node)
  BY DEF TreeInv, LeafSet
<1>2. m_root = Root /\ Tree(node) /\ NoBare(node) /\ x # NullNode
  BY <1>1, ShapeFacts
<1>3. Find(k) = x
  BY <1>1, FindIs
<1>4. /\ node' = u /\ m_size' = m_size - 1 /\ it' = IF it = x THEN NullNode ELSE it
      /\ m_root' = m_root /\ aborted' = aborted
  BY <1>2, <1>3 DEF EraseKey
<1>5. /\ Shrinks(node, u) /\ NoBare(u) /\ x \notin DOMAIN u
      /\ \A y \in DOMAIN node : y[2] /\ y # x => y \in DOMAIN u
  BY <1>1, <1>2, EraseShrinks
<1>a. <<k, TRUE>> = x
  OBVIOUS
<1> HIDE DEF x, u
<1>6. Tree(u) /\ DOMAIN u \subseteq DOMAIN node /\ \A y \in DOMAIN u : u[y].m_value = node[y].m_value
  BY <1>5 DEF Shrinks
<1>7. Shape(m_root', node')
  BY <1>2, <1>4, <1>5, <1>6, RootIsNotNull DEF Shape
<1>8. LeafSet(node') = LeafSet(node) \ {x}
  BY <1>4, <1>5, <1>6 DEF LeafSet
<1>9. Drops(node, node', x)
  BY <1>4, <1>6, <1>8 DEF Drops, LeafSet
<1>10. IsFiniteSet(LeafSet(node')) /\ m_size' = Cardinality(LeafSet(node'))
  <2>1. IsFiniteSet(LeafSet(node)) /\ m_size = Cardinality(LeafSet(node))
    BY DEF TreeInv
  <2>2. /\ IsFiniteSet(LeafSet(node) \ {x})
        /\ Cardinality(LeafSet(node) \ {x}) = Cardinality(LeafSet(node)) - 1
    BY <2>1, <1>1, FS_RemoveElement
  <2> QED  BY <2>1, <2>2, <1>4, <1>8
<1>11. it' \in LeafSet(node') \cup {NullNode}
  BY <1>4, <1>8 DEF TreeInv
<1>12. \E b : Bounded(node', b)
  BY <1>4, <1>6 DEF TreeInv, Bounded
<1>13. TreeInv'
  BY <1>4, <1>7, <1>8, <1>10, <1>11, <1>12 DEF TreeInv
<1> QED  BY <1>a, <1>4, <1>9, <1>13

(* clear() *)
LEMMA ClearInv ==
  ASSUME TreeInv, ~aborted, ClearTree
  PROVE  TreeInv' /\ LeafSet(node') = {} /\ it' = NullNode
<1>1. /\ m_root' = NullNode /\ m_size' = 0 /\ it' = NullNode /\ aborted' = aborted
      /\ node' = IF m_root = NullNode THEN node ELSE Free(node, m_root)
  BY DEF ClearTree
<1>2. Shape(m_root, node)
  BY DEF TreeInv
<1>3. node' = [n \in {} |-> NullNode]
  <2>1. CASE m_root = NullNode
    BY <2>1, <1>1, <1>2 DEF Shape
  <2>2. CASE m_root # NullNode
    <3>1. m_root = Root /\ Tree(node)
      BY <2>2, <1>2, ShapeFacts
    <3>2. Subtree(node, Root) = DOMAIN node
      BY <3>1, SubtreeOfRoot DEF TreeInv
    <3>3. node' = Restrict(node, {})
      BY <3>1, <3>2, <1>1, <2>2 DEF Free
    <3> QED  BY <3>3 DEF Restrict
  <2> QED  BY <2>1, <2>2
<1>4. Shape(m_root', node')
  BY <1>1, <1>3 DEF Shape
<1>5. LeafSet(node') = {} /\ DOMAIN node' = {}
  BY <1>1, <1>4, ShapeFacts
<1>6. IsFiniteSet({}) /\ Cardinality({}) = 0
  BY FS_EmptySet
<1>7. Bounded(node', 0)
  BY <1>5 DEF Bounded
<1>8. TreeInv'
  BY <1>1, <1>4, <1>5, <1>6, <1>7 DEF TreeInv
<1> QED  BY <1>1, <1>5, <1>8

(* What the tree answers without a change to it. *)
LEMMA BeginIs ==
  ASSUME TreeInv
  PROVE  LET r == IF m_root = NullNode THEN NullNode ELSE Leftmost(node, m_root)
         IN  IF LeafSet(node) = {} THEN r = NullNode \/ (r = ABORT /\ m_root = Root)
             ELSE r \in LeafSet(node) /\ \A y \in LeafSet(node) : y # r => LexLess(r[1], y[1])
<1>1. Shape(m_root, node)
  BY DEF TreeInv
<1>2. CASE m_root = NullNode
  <2>1. LeafSet(node) = {}
    BY <1>1, <1>2, ShapeFacts
  <2> QED  BY <1>2, <2>1
<1>3. CASE m_root # NullNode
  <2>1. m_root = Root /\ Tree(node) /\ NoBare(node)
    BY <1>1, <1>3, ShapeFacts
  <2>2. PICK b : Bounded(node, b)
    BY DEF TreeInv
  <2>3. Under(node, Root) = LeafSet(node)
    <3>1. ~Root[2] /\ Root[1] = Nul /\ Len(Nul) = 0
      BY AddressFacts, NulString
    <3>2. \A x \in DOMAIN node : Begins(Nul, x[1])
      <4>1. \A x \in DOMAIN node : x[1] \in Str
        BY <2>1, NodeFacts
      <4>2. \A x \in DOMAIN node : Len(x[1]) \in Nat
        BY <4>1, StringLength
      <4> QED  BY <3>1, <4>2 DEF Begins
    <3> QED  BY <3>1, <3>2 DEF Under, LeafSet
  <2>4. Root \in DOMAIN node /\ ~Root[2]
    BY <2>1, TreeParts, AddressFacts
  <2>5. CASE Labels(node, Root) = {}
    <3>1. Leftmost(node, Root) = ABORT
      BY <2>1, <2>2, <2>5, LeftmostFirst
    <3>2. Under(node, Root) = {}
      BY <2>1, <2>4, <2>5, UnderSplits
    <3> QED  BY <3>1, <3>2, <2>1, <2>3, <1>3
  <2>6. CASE Labels(node, Root) # {}
    <3>1. FirstUnder(node, Root, Leftmost(node, Root))
      BY <2>1, <2>2, <2>4, <2>6, LeftmostFirst
    <3> QED  BY <3>1, <2>1, <2>3, <1>3 DEF FirstUnder
  <2> QED  BY <2>5, <2>6
<1> QED  BY <1>2, <1>3

(* operator++ goes to the next leaf. *)
LEMMA AfterIs ==
  ASSUME TreeInv, it # NullNode
  PROVE  NextOf(node, it, After(node, it)) /\ it \in LeafSet(node)
<1>1. Shape(m_root, node) /\ it \in LeafSet(node)
  BY DEF TreeInv
<1>2. Tree(node) /\ NoBare(node) /\ it \in DOMAIN node /\ it[2]
  BY <1>1, ShapeFacts DEF LeafSet
<1>3. PICK b : Bounded(node, b)
  BY DEF TreeInv
<1> QED  BY <1>1, <1>2, <1>3, AfterNext

(* longest_match() answers the leaf of the longest prefix. *)
LEMMA LongestIs ==
  ASSUME TreeInv, NEW key \in Str
  PROVE  LongestOf(node, key, LongestMatch(key))
<1>1. Shape(m_root, node)
  BY DEF TreeInv
<1>2. CASE m_root = NullNode
  <2>1. LongestMatch(key) = NullNode
    BY <1>2 DEF LongestMatch
  <2>2. LeafPrefixes(node, key) = {}
    BY <1>1, <1>2, ShapeFacts DEF LeafPrefixes
  <2> QED  BY <2>1, <2>2 DEF LongestOf
<1>3. CASE m_root # NullNode
  BY <1>1, <1>3, ShapeFacts, LongestFound
<1> QED  BY <1>2, <1>3

(* Moving the iterator keeps the invariant. *)
LEMMA MoveInv ==
  ASSUME TreeInv, ~aborted, NEW target, MoveTo(target),
         \/ target \in LeafSet(node) \cup {NullNode}
         \/ target = ABORT /\ m_root = Root /\ LeafSet(node) = {}
  PROVE  /\ TreeInv' /\ node' = node /\ m_size' = m_size /\ m_root' = m_root
         /\ it' = IF target = ABORT THEN it ELSE target
<1>1. ABORT \notin LeafSet(node) \cup {NullNode}
  BY ShapeFacts, RootIsNotNull DEF TreeInv
<1>2. /\ m_root' = m_root /\ m_size' = m_size /\ node' = node
      /\ IF target = ABORT THEN aborted' = TRUE /\ it' = it ELSE it' = target /\ aborted' = aborted
  BY DEF MoveTo
<1>3. CASE target = ABORT
  BY <1>1, <1>2, <1>3 DEF TreeInv
<1>4. CASE target # ABORT
  BY <1>2, <1>4 DEF TreeInv
<1> QED  BY <1>2, <1>3, <1>4

(* begin() *)
LEMMA BeginInv ==
  ASSUME TreeInv, ~aborted, Begin
  PROVE  /\ TreeInv' /\ node' = node /\ m_size' = m_size
         /\ IF LeafSet(node) = {} THEN it' = NullNode \/ it' = it
            ELSE it' \in LeafSet(node) /\ \A y \in LeafSet(node) : y # it' => LexLess(it'[1], y[1])
<1> DEFINE r == IF m_root = NullNode THEN NullNode ELSE Leftmost(node, m_root)
<1>1. MoveTo(r)
  BY DEF Begin
<1>2. IF LeafSet(node) = {} THEN r = NullNode \/ (r = ABORT /\ m_root = Root)
      ELSE r \in LeafSet(node) /\ \A y \in LeafSet(node) : y # r => LexLess(r[1], y[1])
  BY BeginIs
<1> HIDE DEF r
<1>3. ABORT \notin LeafSet(node) /\ NullNode # ABORT
  BY ShapeFacts, RootIsNotNull DEF TreeInv
<1>4. \/ r \in LeafSet(node) \cup {NullNode}
      \/ r = ABORT /\ m_root = Root /\ LeafSet(node) = {}
  BY <1>2
<1>5. TreeInv' /\ node' = node /\ m_size' = m_size /\ it' = IF r = ABORT THEN it ELSE r
  BY <1>1, <1>4, MoveInv
<1> QED  BY <1>2, <1>3, <1>5

(* operator++ *)
LEMMA IncrementInv ==
  ASSUME TreeInv, ~aborted, Increment
  PROVE  /\ TreeInv' /\ node' = node /\ m_size' = m_size
         /\ it \in LeafSet(node) /\ NextOf(node, it, it')
<1> DEFINE r == After(node, it)
<1>1. it # NullNode /\ MoveTo(r)
  BY DEF Increment
<1>2. NextOf(node, it, r) /\ it \in LeafSet(node)
  BY <1>1, AfterIs
<1> HIDE DEF r
<1>3. r \in LeafSet(node) \cup {NullNode}
  BY <1>2 DEF NextOf, Greater, LeafSet
<1>4. TreeInv' /\ node' = node /\ m_size' = m_size /\ it' = IF r = ABORT THEN it ELSE r
  BY <1>1, <1>3, MoveInv
<1>5. ABORT \notin LeafSet(node) /\ NullNode # ABORT
  BY ShapeFacts, RootIsNotNull DEF TreeInv
<1> QED  BY <1>2, <1>3, <1>4, <1>5

(* it = find(k) *)
LEMMA FindKeyInv ==
  ASSUME TreeInv, ~aborted, NEW k \in Str, FindKey(k)
  PROVE  /\ TreeInv' /\ node' = node /\ m_size' = m_size
         /\ it' = IF <<k, TRUE>> \in LeafSet(node) THEN <<k, TRUE>> ELSE NullNode
<1> DEFINE r == Find(k)
<1>1. MoveTo(r)
  BY DEF FindKey
<1>2. r = IF <<k, TRUE>> \in LeafSet(node) THEN <<k, TRUE>> ELSE NullNode
  BY FindIs DEF TreeInv
<1> HIDE DEF r
<1>3. TreeInv' /\ node' = node /\ m_size' = m_size /\ it' = IF r = ABORT THEN it ELSE r
  BY <1>1, <1>2, MoveInv
<1>4. ABORT \notin LeafSet(node) /\ NullNode # ABORT
  BY ShapeFacts, RootIsNotNull DEF TreeInv
<1> QED  BY <1>2, <1>3, <1>4

(* it = longest_match(q) *)
LEMMA MatchInv ==
  ASSUME TreeInv, ~aborted, NEW q \in Str, MatchLongest(q)
  PROVE  TreeInv' /\ node' = node /\ m_size' = m_size /\ LongestOf(node, q, it')
<1> DEFINE r == LongestMatch(q)
<1>1. MoveTo(r)
  BY DEF MatchLongest
<1>2. LongestOf(node, q, r)
  BY LongestIs
<1> HIDE DEF r
<1>3. r \in LeafSet(node) \cup {NullNode}
  BY <1>2 DEF LongestOf, LeafPrefixes, LeafSet
<1>4. TreeInv' /\ node' = node /\ m_size' = m_size /\ it' = IF r = ABORT THEN it ELSE r
  BY <1>1, <1>3, MoveInv
<1>5. ABORT \notin LeafSet(node) /\ NullNode # ABORT
  BY ShapeFacts, RootIsNotNull DEF TreeInv
<1> QED  BY <1>2, <1>3, <1>4, <1>5

(* A call that finds nothing to do. *)
LEMMA StutterInv == ASSUME TreeInv, UNCHANGED treeVars PROVE TreeInv'
BY DEF TreeInv, treeVars

(* The key of the element the iterator stands on. *)
LEMMA KeyOfIt ==
  ASSUME TreeInv, it # NullNode
  PROVE  /\ it \in LeafSet(node) /\ node[it].m_value.first = it[1] /\ it[1] \in Keys
         /\ it[1] \in Str /\ it = <<it[1], TRUE>>
<1>1. Shape(m_root, node) /\ it \in LeafSet(node) /\ it[1] \in Keys
  BY DEF TreeInv
<1>2. it[1] \in Str
  BY <1>1, KeysAreStrings, RadixTreeAssumption
<1>3. LeafOK(node, it) /\ it[2] /\ Heap(node)
  BY <1>1, ShapeFacts DEF LeafSet
<1>4. node[it].m_value.first = it[1]
  BY <1>3 DEF LeafOK, Pair
<1> QED  BY <1>1, <1>2, <1>3, <1>4, LeafAddress

(* Every call keeps the invariant. *)
LEMMA StepInv == ASSUME TreeInv, TreeNext PROVE TreeInv'
<1>1. ~aborted
  BY DEF TreeNext
<1>2. Keys \subseteq Str /\ Queries \subseteq Str
  BY KeysAreStrings, RadixTreeAssumption
<1>3. ASSUME NEW k \in Keys, NEW v, Insert(k, v) PROVE TreeInv'
  BY <1>1, <1>3, InsertInv
<1>4. ASSUME NEW k \in Keys, Index(k) PROVE TreeInv'
  BY <1>3, <1>4, StutterInv DEF Index
<1>5. ASSUME NEW k \in Keys, EraseKey(k) PROVE TreeInv'
  <2>1. Find(k) = IF <<k, TRUE>> \in LeafSet(node) THEN <<k, TRUE>> ELSE NullNode
    BY <1>2, FindIs DEF TreeInv
  <2>2. CASE <<k, TRUE>> \in LeafSet(node)
    BY <2>2, <1>1, <1>2, <1>5, EraseInv
  <2>3. CASE <<k, TRUE>> \notin LeafSet(node)
    BY <2>1, <2>3, <1>5, StutterInv DEF EraseKey
  <2> QED  BY <2>2, <2>3
<1>6. ASSUME EraseIt PROVE TreeInv'
  BY <1>5, <1>6, KeyOfIt DEF EraseIt
<1>7. ASSUME NEW k \in Keys, FindKey(k) PROVE TreeInv'
  BY <1>1, <1>2, <1>7, FindKeyInv
<1>8. ASSUME NEW q \in Queries, MatchLongest(q) PROVE TreeInv'
  BY <1>1, <1>2, <1>8, MatchInv
<1>9. ASSUME NEW v \in Values, Assign(v) PROVE TreeInv'
  BY <1>1, <1>9, AssignInv
<1>10. CASE ClearTree
  BY <1>1, <1>10, ClearInv
<1>11. CASE Begin
  BY <1>1, <1>11, BeginInv
<1>12. CASE Increment
  BY <1>1, <1>12, IncrementInv
<1> QED  BY <1>3, <1>4, <1>5, <1>6, <1>7, <1>8, <1>9, <1>10, <1>11, <1>12 DEF TreeNext

(* The invariant holds after every series of calls. *)
LEMMA TreeInvariant == TreeSpec => []TreeInv
<1>1. TreeInit => TreeInv
  BY StartInv
<1>2. TreeInv /\ [TreeNext]_treeVars => TreeInv'
  BY StepInv, StutterInv
<1> QED  BY <1>1, <1>2, PTL DEF TreeSpec
-----------------------------------------------------------------------------
(* What the invariant says of the tree. *)

(* The leaves are the nodes whose address says so. *)
LEMMA LeavesAre == ASSUME TreeInv PROVE Leaves = LeafSet(node)
<1>1. \A n \in DOMAIN node : node[n].m_is_leaf = n[2]
  BY ShapeFacts DEF TreeInv, LeafOK
<1> QED  BY <1>1 DEF Leaves, LeafSet

(* The fields of a node have their types, *)
LEMMA NodeTypes ==
  ASSUME NEW t, Tree(t), NEW n \in DOMAIN t
  PROVE  /\ t[n].m_depth \in Nat /\ t[n].m_is_leaf \in BOOLEAN
         /\ Children(t, n) \subseteq DOMAIN t /\ t[n].m_parent \in DOMAIN t \cup {NullNode}
<1>1. t[n].m_is_leaf \in BOOLEAN
  BY NodeFacts
<1>2. Children(t, n) \subseteq DOMAIN t
  BY TreeParts DEF Branches, Children, Kid
<1>3. t[n].m_depth \in Nat /\ t[n].m_parent \in DOMAIN t \cup {NullNode}
  <2>1. CASE n = Root
    BY <2>1, TreeParts DEF Hangs
  <2>2. CASE n # Root
    <3>1. /\ Parent(t, n) \in DOMAIN t /\ Parent(t, n)[1] \in Str
          /\ t[n].m_depth = Len(Parent(t, n)[1])
      BY <2>2, ParentFacts DEF Filed
    <3> QED  BY <3>1, StringLength DEF Parent
  <2> QED  BY <2>1, <2>2
<1> QED  BY <1>1, <1>2, <1>3

(* and spell the string it stands for. *)
LEMMA NodePath ==
  ASSUME NEW t, Tree(t), NEW n \in DOMAIN t
  PROVE  /\ n[1] = Substr(n[1], 0, t[n].m_depth) \o t[n].m_key
         /\ t[n].m_parent # NullNode => t[n].m_parent[1] = Substr(n[1], 0, t[n].m_depth)
<1>1. CASE n = Root
  <2>1. t[n].m_parent = NullNode /\ t[n].m_depth = 0 /\ t[n].m_key = Nul /\ n[1] = Nul
    BY <1>1, TreeParts, AddressFacts DEF Hangs
  <2>2. Substr(Nul, 0, 0) = Nul
    <3>1. 0 \in 0..Len(Nul) /\ 0 + 0 <= Len(Nul)
      BY NulString
    <3>2. Substr(Nul, 0, 0) \in Str /\ Len(Substr(Nul, 0, 0)) = 0
      BY <3>1, NulString, SubstrFacts
    <3> QED  BY <3>2, NulString
  <2>3. Nul \o Nul = Nul
    <3>1. Nul \o Nul \in Str /\ Len(Nul \o Nul) = Len(Nul) + Len(Nul)
      BY NulString, Joined
    <3>2. Len(Nul \o Nul) = 0
      BY <3>1, NulString
    <3> QED  BY <3>1, <3>2, NulString
  <2> QED  BY <2>1, <2>2, <2>3
<1>2. CASE n # Root
  <2> DEFINE p == Parent(t, n)[1]
             s == Substr(n[1], 0, Len(p))
  <2>1. /\ t[n].m_depth = Len(p) /\ n[1] = p \o Key(t, n) /\ p \in Str /\ n[1] \in Str
        /\ Begins(p, n[1])
    BY <1>2, ParentFacts DEF Filed
  <2>2. Len(p) \in Nat /\ Len(n[1]) \in Nat /\ Len(p) <= Len(n[1])
        /\ \A i \in 1..Len(p) : p[i] = n[1][i]
    BY <2>1, StringLength DEF Begins
  <2>a. Parent(t, n)[1] = p
    OBVIOUS
  <2> HIDE DEF p
  <2>3. s = p
    <3>1. 0 \in 0..Len(n[1])
      BY <2>2
    <3>2. /\ s \in Str /\ Len(s) = IF 0 + Len(p) <= Len(n[1]) THEN Len(p) ELSE Len(n[1]) - 0
          /\ \A i \in 1..Len(s) : s[i] = n[1][0 + i]
      BY <3>1, <2>1, <2>2, SubstrFacts
    <3> HIDE DEF s
    <3>3. Len(s) = Len(p)
      BY <3>2, <2>2
    <3>4. \A i \in 1..Len(s) : s[i] = p[i]
      BY <3>2, <3>3, <2>2
    <3> QED  BY <3>2, <3>3, <3>4, <2>1, SameString
  <2> HIDE DEF s
  <2>4. Substr(n[1], 0, t[n].m_depth) = s
    BY <2>1 DEF s
  <2> QED  BY <2>a, <2>1, <2>3, <2>4 DEF Parent, Key
<1> QED  BY <1>1, <1>2

(* The invariant implies the type invariant, *)
LEMMA TypesHold == TreeInv => TreeTypeOK
<1> SUFFICES ASSUME TreeInv PROVE TreeTypeOK
  OBVIOUS
<1>1. m_root \in {NullNode, Root} /\ aborted \in BOOLEAN /\ it \in Leaves \cup {NullNode}
  BY LeavesAre DEF TreeInv, Shape
<1>2. m_size \in Nat
  BY FS_CardinalityType DEF TreeInv
<1>3. ASSUME NEW n \in DOMAIN node PROVE Tree(node)
  BY <1>3, ShapeFacts DEF TreeInv
<1> QED  BY <1>1, <1>2, <1>3, NodeTypes DEF TreeTypeOK

(* that the nodes are linked well, *)
LEMMA LinksHold == TreeInv => WellLinked
<1> SUFFICES ASSUME TreeInv PROVE WellLinked
  OBVIOUS
<1>1. Shape(m_root, node)
  BY DEF TreeInv
<1>2. ASSUME NEW n \in DOMAIN node PROVE Tree(node)
  BY <1>1, <1>2, ShapeFacts
<1>3. PathsAgree
  <2>1. ASSUME NEW n \in DOMAIN node, node[n].m_is_leaf PROVE node[n].m_value.first = n[1]
    <3>1. LeafOK(node, n)
      BY <1>1, ShapeFacts
    <3>2. node[n].m_value = Pair(n[1], node[n].m_value.second)
      BY <3>1, <2>1 DEF LeafOK
    <3> QED  BY <3>2 DEF Pair
  <2> QED  BY <1>2, <2>1, NodePath DEF PathsAgree
<1>4. DOMAIN node = IF m_root = NullNode THEN {} ELSE Subtree(node, Root)
  <2>1. CASE m_root = NullNode
    BY <2>1, <1>1, ShapeFacts
  <2>2. CASE m_root # NullNode
    <3>1. Tree(node)
      BY <2>2, <1>1, ShapeFacts
    <3> QED  BY <3>1, <2>2, SubtreeOfRoot DEF TreeInv
  <2> QED  BY <2>1, <2>2
<1>5. ASSUME NEW n \in DOMAIN node
      PROVE  /\ (node[n].m_parent = NullNode) <=> (n = Root)
             /\ \A l \in Labels(node, n) :
                  LET c == node[n].m_children[l]
                  IN  node[c].m_parent = n /\ node[c].m_key = l
  <2>1. node[n].m_parent = NullNode <=> n = Root
    BY <1>2, OrphanIsRoot
  <2>2. \A l \in Labels(node, n) : Parent(node, Kid(node, n, l)) = n /\ Key(node, Kid(node, n, l)) = l
    BY <1>2, TreeParts DEF Branches
  <2> QED  BY <2>1, <2>2 DEF Parent, Key, Kid
<1> QED  BY <1>3, <1>4, <1>5, TypesHold DEF WellLinked

(* that the tree is compressed, *)
LEMMA CompressedHolds == TreeInv => Compressed
<1> SUFFICES ASSUME TreeInv, NEW n \in DOMAIN node
             PROVE  /\ \A l1, l2 \in Labels(node, n) : l1 # l2 => CommonLen(l1, l2) = 0
                    /\ n # Root /\ ~node[n].m_is_leaf =>
                         Cardinality(Labels(node, n)) > 1 \/ Labels(node, n) = {Nul}
  BY DEF Compressed
<1>1. Tree(node) /\ NoBare(node)
  BY ShapeFacts DEF TreeInv
<1>2. Labels(node, n) \subseteq Str /\ node[n].m_is_leaf = n[2]
  BY <1>1, NodeFacts
<1>3. /\ IsFiniteSet(Labels(node, n))
      /\ \A l1, l2 \in Labels(node, n) : l1 # l2 /\ l1 # Nul /\ l2 # Nul => l1[1] # l2[1]
  BY <1>1, TreeParts DEF Branches
<1>4. ASSUME NEW l1 \in Labels(node, n), NEW l2 \in Labels(node, n), l1 # l2
      PROVE  CommonLen(l1, l2) = 0
  <2> DEFINE m == CommonLen(l1, l2)
  <2>1. /\ m \in Nat /\ m <= Len(l1) /\ m <= Len(l2) /\ \A i \in 1..m : l1[i] = l2[i]
    BY <1>2, CommonFacts
  <2>2. Len(l1) \in Nat /\ Len(l2) \in Nat
    BY <1>2, StringLength
  <2> HIDE DEF m
  <2>3. ASSUME m # 0 PROVE FALSE
    <3>1. 1 \in 1..m /\ l1 # Nul /\ l2 # Nul
      BY <2>1, <2>2, <2>3, NulString
    <3> QED  BY <3>1, <2>1, <1>3, <1>4
  <2> QED  BY <2>3 DEF m
<1>5. ASSUME n # Root, ~node[n].m_is_leaf, Labels(node, n) # {Nul}
      PROVE  Cardinality(Labels(node, n)) > 1
  <2>1. \E l1, l2 \in Labels(node, n) : l1 # l2
    BY <1>5, <1>1, <1>2 DEF NoBare, Bare
  <2> QED  BY <2>1, <1>3, OneOrMore
<1> QED  BY <1>4, <1>5

(* and that only begin() aborts. *)
LEMMA AbortsHold == TreeInv => OnlyBeginAborts
BY LeavesAre DEF TreeInv, OnlyBeginAborts

(* Every series of calls leaves a heap in which the pointers agree, nothing *)
(* is lost or dangling, and the labels spell the keys.                      *)
THEOREM LinksSafe == TreeSpec => []WellLinked
<1>1. TreeInv => WellLinked
  BY LinksHold
<1> QED  BY <1>1, TreeInvariant, PTL

(* Every series of calls leaves the tree compressed. *)
THEOREM CompressionSafe == TreeSpec => []Compressed
<1>1. TreeInv => Compressed
  BY CompressedHolds
<1> QED  BY <1>1, TreeInvariant, PTL

(* No assert fails, but the one of begin() on a tree without a key. *)
THEOREM AssertsSafe == TreeSpec => []OnlyBeginAborts
<1>1. TreeInv => OnlyBeginAborts
  BY AbortsHold
<1> QED  BY <1>1, TreeInvariant, PTL
-----------------------------------------------------------------------------
(* The dictionary a heap stands for. *)

View(t) == [k \in {n[1] : n \in LeafSet(t)} |-> t[<<k, TRUE>>].m_value.second]

At(i) == IF i = NullNode THEN NullNode ELSE i[1]

(* Its keys are those of the leaves, *)
LEMMA ViewDomain ==
  ASSUME NEW t, Heap(t)
  PROVE  /\ DOMAIN View(t) \subseteq Str
         /\ \A k \in Str : k \in DOMAIN View(t) <=> <<k, TRUE>> \in LeafSet(t)
         /\ \A n \in LeafSet(t) : n[1] \in DOMAIN View(t)
<1>1. \A n \in LeafSet(t) : n = <<n[1], TRUE>> /\ n[1] \in Str
  BY LeafAddress
<1>2. DOMAIN View(t) = {n[1] : n \in LeafSet(t)}
  BY DEF View
<1>3. ASSUME NEW k \in Str PROVE k \in DOMAIN View(t) <=> <<k, TRUE>> \in LeafSet(t)
  <2>1. <<k, TRUE>>[1] = k
    OBVIOUS
  <2> QED  BY <2>1, <1>1, <1>2
<1> QED  BY <1>1, <1>2, <1>3

(* as many as there are leaves. *)
LEMMA ViewSize ==
  ASSUME NEW t, Heap(t), IsFiniteSet(LeafSet(t))
  PROVE  Cardinality(DOMAIN View(t)) = Cardinality(LeafSet(t))
<1> DEFINE S == LeafSet(t)
           T == DOMAIN View(t)
           f == [n \in S |-> n[1]]
<1>1. \A n \in S : n = <<n[1], TRUE>> /\ n[1] \in T
  BY LeafAddress, ViewDomain
<1>2. \A k \in T : \E n \in S : n[1] = k
  BY DEF View
<1> HIDE DEF S, T
<1>3. f \in Bijection(S, T)
  BY <1>1, <1>2 DEF Bijection, Injection, Surjection, IsInjective
<1>4. Cardinality(T) = Cardinality(S)
  <2>1. ExistsBijection(S, T) /\ IsFiniteSet(S)
    BY <1>3 DEF ExistsBijection, S
  <2> QED  BY <2>1, FS_Bijection
<1> QED  BY <1>4 DEF S, T

(* The dictionary of the refinement mapping is that one, *)
LEMMA DictionaryIs == TreeInv => Dictionary = View(node)
<1> SUFFICES ASSUME TreeInv PROVE Dictionary = View(node)
  OBVIOUS
<1>1. /\ Leaves = LeafSet(node)
      /\ \A n \in LeafSet(node) : node[n].m_value.first = n[1] /\ n = <<n[1], TRUE>> /\ n[1] \in Str
  <2>1. ASSUME NEW n \in LeafSet(node)
        PROVE  node[n].m_value.first = n[1] /\ n = <<n[1], TRUE>> /\ n[1] \in Str
    <3>1. LeafOK(node, n) /\ n[2] /\ Heap(node)
      BY ShapeFacts DEF TreeInv, LeafSet
    <3>2. node[n].m_value.first = n[1]
      BY <3>1 DEF LeafOK, Pair
    <3> QED  BY <3>1, <3>2, LeafAddress
  <2> QED  BY <2>1, LeavesAre
<1>2. Stored = {n[1] : n \in LeafSet(node)}
  BY <1>1 DEF Stored
<1>3. ASSUME NEW k \in Stored
      PROVE  (CHOOSE n \in Leaves : node[n].m_value.first = k) = <<k, TRUE>>
  <2>1. PICK m \in LeafSet(node) : m[1] = k
    BY <1>2
  <2>2. m = <<k, TRUE>> /\ node[m].m_value.first = k
    BY <2>1, <1>1
  <2>3. \A n \in Leaves : node[n].m_value.first = k => n = m
    BY <1>1, <2>2
  <2> QED  BY <2>1, <2>2, <2>3, <1>1
<1> DEFINE at == [k \in Stored |-> CHOOSE n \in Leaves : node[n].m_value.first = k]
<1>4. Dictionary = [k \in Stored |-> node[at[k]].m_value.second]
  BY DEF Dictionary
<1>5. \A k \in Stored : at[k] = <<k, TRUE>>
  BY <1>3
<1> HIDE DEF at
<1>6. Dictionary = [k \in Stored |-> node[<<k, TRUE>>].m_value.second]
  BY <1>4, <1>5
<1> QED  BY <1>2, <1>6 DEF View

(* and its cursor the key of the iterator's leaf. *)
LEMMA CursorIs == TreeInv => Cursor = At(it)
<1> SUFFICES ASSUME TreeInv PROVE Cursor = At(it)
  OBVIOUS
<1>1. CASE it = NullNode
  BY <1>1 DEF Cursor, At
<1>2. CASE it # NullNode
  BY <1>2, KeyOfIt DEF Cursor, At
<1> QED  BY <1>1, <1>2

(* The abstract specification's own copies of the operators on strings. *)
LEMMA SameFirst == \A S : Map!First(S) = First(S)
BY DEF Map!First, First, Map!LexLess, LexLess, Map!CommonLen, CommonLen, Map!Min, Min

(* So is the size of a set, *)
LEMMA SameCardinality == \A S : Map!Cardinality(S) = Cardinality(S)
BY DEF Map!Cardinality, Cardinality

(* the order of strings, *)
LEMMA SameLess == \A a, b : Map!LexLess(a, b) <=> LexLess(a, b)
BY DEF Map!LexLess, LexLess, Map!CommonLen, CommonLen, Map!Min, Min

(* and the prefix of a string. *)
LEMMA PrefixIs ==
  ASSUME NEW a \in Str, NEW b \in Str
  PROVE  Map!IsPrefix(a, b) <=> Begins(a, b)
<1>1. a \in Seq(Nat) /\ b \in Seq(Nat) /\ Len(a) \in Nat /\ Len(b) \in Nat
  BY DEF Str
<1>2. SubSeq(a, 1, Len(a)) = a
  BY <1>1
<1>3. ASSUME Len(a) <= Len(b)
      PROVE  SubSeq(b, 1, Len(a)) = a <=> \A i \in 1..Len(a) : a[i] = b[i]
  <2>1. /\ SubSeq(b, 1, Len(a)) \in Seq(Nat) /\ Len(SubSeq(b, 1, Len(a))) = Len(a)
        /\ \A i \in 1..Len(a) : SubSeq(b, 1, Len(a))[i] = b[i]
    BY <1>1, <1>3
  <2> DEFINE s == SubSeq(b, 1, Len(a))
  <2> HIDE DEF s
  <2>2. ASSUME \A i \in 1..Len(a) : a[i] = b[i] PROVE s = a
    <3>1. s \in Str /\ Len(s) = Len(a) /\ \A i \in 1..Len(s) : s[i] = a[i]
      BY <2>1, <2>2 DEF s, Str
    <3> QED  BY <3>1, SameString
  <2>3. ASSUME s = a PROVE \A i \in 1..Len(a) : a[i] = b[i]
    BY <2>1, <2>3 DEF s
  <2> QED  BY <2>2, <2>3 DEF s
<1>4. Map!IsPrefix(a, b) <=> Len(a) <= Len(b) /\ SubSeq(a, 1, Len(a)) = SubSeq(b, 1, Len(a))
  BY DEF Map!IsPrefix
<1> QED  BY <1>2, <1>3, <1>4 DEF Begins

(* The mapping in the next state. *)
LEMMA NextDictionaryIs == TreeInv' => Dictionary' = View(node')
<1>1. TreeInv => Dictionary = View(node)
  BY DictionaryIs
<1>2. (TreeInv => Dictionary = View(node))'
  BY <1>1, PTL
<1> QED  BY <1>2

(* The cursor in the next state. *)
LEMMA NextCursorIs == TreeInv' => Cursor' = At(it')
<1>1. TreeInv => Cursor = At(it)
  BY CursorIs
<1>2. (TreeInv => Cursor = At(it))'
  BY <1>1, PTL
<1> QED  BY <1>2

(* The dictionary e is d with v for k, unless k is there; d without k. *)
Completes(d, e, k, v) ==
  e = [x \in DOMAIN d \cup {k} |-> IF x \in DOMAIN d THEN d[x] ELSE v]

Loses(d, e, k) == e = [x \in DOMAIN d \ {k} |-> d[x]]

(* insert() completes the dictionary, *)
LEMMA ViewPuts ==
  ASSUME NEW t, NEW u, Heap(t), Heap(u), NEW k \in Str, NEW v, Puts(t, u, k, Pair(k, v))
  PROVE  Completes(View(t), View(u), k, v)
<1>1. /\ LeafSet(u) = LeafSet(t) \cup {<<k, TRUE>>}
      /\ \A n \in LeafSet(t) : u[n].m_value = t[n].m_value
      /\ <<k, TRUE>> \notin LeafSet(t) => u[<<k, TRUE>>].m_value = Pair(k, v)
  BY DEF Puts
<1>2. /\ DOMAIN View(t) \subseteq Str
      /\ \A x \in Str : x \in DOMAIN View(t) <=> <<x, TRUE>> \in LeafSet(t)
  BY ViewDomain
<1>3. /\ DOMAIN View(u) \subseteq Str
      /\ \A x \in Str : x \in DOMAIN View(u) <=> <<x, TRUE>> \in LeafSet(u)
  BY ViewDomain
<1>4. DOMAIN View(u) = DOMAIN View(t) \cup {k}
  <2>1. \A x \in Str : <<x, TRUE>> \in LeafSet(u) <=> <<x, TRUE>> \in LeafSet(t) \/ x = k
    BY <1>1
  <2> QED  BY <2>1, <1>2, <1>3
<1>5. /\ View(u) = [x \in DOMAIN View(u) |-> u[<<x, TRUE>>].m_value.second]
      /\ View(t) = [x \in DOMAIN View(t) |-> t[<<x, TRUE>>].m_value.second]
  BY DEF View
<1>6. Pair(k, v).second = v
  BY DEF Pair
<1>7. ASSUME NEW x \in DOMAIN View(u)
      PROVE  View(u)[x] = IF x \in DOMAIN View(t) THEN View(t)[x] ELSE v
  <2>1. View(u)[x] = u[<<x, TRUE>>].m_value.second
    BY <1>5
  <2>2. CASE x \in DOMAIN View(t)
    <3>1. View(t)[x] = t[<<x, TRUE>>].m_value.second /\ <<x, TRUE>> \in LeafSet(t)
      BY <2>2, <1>2, <1>5
    <3> QED  BY <3>1, <2>1, <2>2, <1>1
  <2>3. CASE x \notin DOMAIN View(t)
    <3>1. x = k /\ <<k, TRUE>> \notin LeafSet(t)
      BY <2>3, <1>2, <1>4
    <3> QED  BY <3>1, <2>1, <2>3, <1>1, <1>6
  <2> QED  BY <2>2, <2>3
<1> QED  BY <1>4, <1>5, <1>7 DEF Completes

(* erase() takes a key out, *)
LEMMA ViewDrops ==
  ASSUME NEW t, NEW u, Heap(t), Heap(u), NEW k \in Str, Drops(t, u, <<k, TRUE>>)
  PROVE  Loses(View(t), View(u), k)
<1>1. LeafSet(u) = LeafSet(t) \ {<<k, TRUE>>} /\ \A n \in LeafSet(u) : u[n].m_value = t[n].m_value
  BY DEF Drops
<1>2. /\ DOMAIN View(t) \subseteq Str
      /\ \A x \in Str : x \in DOMAIN View(t) <=> <<x, TRUE>> \in LeafSet(t)
  BY ViewDomain
<1>3. /\ DOMAIN View(u) \subseteq Str
      /\ \A x \in Str : x \in DOMAIN View(u) <=> <<x, TRUE>> \in LeafSet(u)
  BY ViewDomain
<1>4. DOMAIN View(u) = DOMAIN View(t) \ {k}
  <2>1. \A x \in Str : <<x, TRUE>> \in LeafSet(u) <=> <<x, TRUE>> \in LeafSet(t) /\ x # k
    BY <1>1
  <2> QED  BY <2>1, <1>2, <1>3
<1>5. /\ View(u) = [x \in DOMAIN View(u) |-> u[<<x, TRUE>>].m_value.second]
      /\ View(t) = [x \in DOMAIN View(t) |-> t[<<x, TRUE>>].m_value.second]
  BY DEF View
<1>6. ASSUME NEW x \in DOMAIN View(u) PROVE View(u)[x] = View(t)[x]
  <2>1. View(u)[x] = u[<<x, TRUE>>].m_value.second /\ View(t)[x] = t[<<x, TRUE>>].m_value.second
    BY <1>4, <1>5
  <2>2. <<x, TRUE>> \in LeafSet(u)
    BY <1>3
  <2> QED  BY <2>1, <2>2, <1>1
<1> QED  BY <1>4, <1>5, <1>6 DEF Loses

(* and an assignment through the iterator changes one value. *)
LEMMA ViewAssigned ==
  ASSUME NEW t, NEW u, Heap(t), LeafSet(u) = LeafSet(t), NEW i \in LeafSet(t), NEW v,
         \A n \in LeafSet(t) : n # i => u[n] = t[n], u[i].m_value = Pair(i[1], v)
  PROVE  View(u) = [View(t) EXCEPT ![i[1]] = v]
<1>1. DOMAIN View(u) = DOMAIN View(t)
  BY DEF View
<1>2. /\ View(u) = [x \in DOMAIN View(t) |-> u[<<x, TRUE>>].m_value.second]
      /\ View(t) = [x \in DOMAIN View(t) |-> t[<<x, TRUE>>].m_value.second]
  BY DEF View
<1>3. /\ DOMAIN View(t) \subseteq Str
      /\ \A x \in Str : x \in DOMAIN View(t) <=> <<x, TRUE>> \in LeafSet(t)
  BY ViewDomain
<1>4. i = <<i[1], TRUE>>
  BY LeafAddress
<1>5. Pair(i[1], v).second = v
  BY DEF Pair
<1>6. ASSUME NEW x \in DOMAIN View(t)
      PROVE  View(u)[x] = IF x = i[1] THEN v ELSE View(t)[x]
  <2>1. View(u)[x] = u[<<x, TRUE>>].m_value.second /\ View(t)[x] = t[<<x, TRUE>>].m_value.second
    BY <1>2
  <2>2. <<x, TRUE>> \in LeafSet(t)
    BY <1>3
  <2>3. CASE x = i[1]
    <3>1. u[<<x, TRUE>>].m_value = Pair(i[1], v)
      BY <2>3, <1>4
    <3> QED  BY <3>1, <2>1, <2>3, <1>5
  <2>4. CASE x # i[1]
    <3>1. <<x, TRUE>> # i
      <4>1. <<x, TRUE>>[1] = x
        OBVIOUS
      <4> QED  BY <4>1, <2>4
    <3> QED  BY <3>1, <2>1, <2>2, <2>4
  <2> QED  BY <2>3, <2>4
<1> HIDE DEF View
<1> QED  BY <1>1, <1>2, <1>6

(* The keys of the leaves, and the iterator's key, in both worlds. *)
LEMMA HeapOf == TreeInv => Heap(node)
BY ShapeFacts DEF TreeInv

(* The heap of the next state is one, too. *)
LEMMA NextHeapOf == TreeInv' => Heap(node')
<1>1. TreeInv => Heap(node)
  BY HeapOf
<1>2. (TreeInv => Heap(node))'
  BY <1>1, PTL
<1> QED  BY <1>2

(* The cursor at a leaf is its key. *)
LEMMA AtLeaf ==
  ASSUME TreeInv
  PROVE  /\ \A n \in LeafSet(node) : At(n) = n[1] /\ n[1] \in Keys /\ n[1] \in Str /\ n # NullNode
         /\ At(NullNode) = NullNode /\ NullNode \notin Keys
         /\ At(it) = NullNode <=> it = NullNode
<1>1. NullNode \notin LeafSet(node) /\ \A n \in LeafSet(node) : n[1] \in Keys
  BY ShapeFacts DEF TreeInv
<1>2. NullNode \notin Keys /\ Keys \subseteq Str
  BY KeysAreStrings, RadixTreeAssumption
<1>3. it \in LeafSet(node) \cup {NullNode}
  BY DEF TreeInv
<1>4. \A n \in LeafSet(node) : At(n) = n[1]
  BY <1>1 DEF At
<1>5. At(NullNode) = NullNode
  BY DEF At
<1> QED  BY <1>1, <1>2, <1>3, <1>4, <1>5

(* The cursor at the leaf of a key is that key. *)
LEMMA AtKey ==
  ASSUME NEW k \in Str
  PROVE  At(<<k, TRUE>>) = k /\ <<k, TRUE>> # NullNode
<1>1. <<k, TRUE>> \in Address
  BY AddressFacts
<1> QED  BY <1>1, RadixTreeAssumption DEF At
-----------------------------------------------------------------------------
(* Each call is a step of the ordered dictionary. *)

(* insert(), *)
LEMMA MapInsert ==
  ASSUME TreeInv, ~aborted, NEW k \in Keys, NEW v, Insert(k, v)
  PROVE  Map!Insert(k, v) /\ (it' = it => Dictionary' = Map!Completed(k, v) /\ Cursor' = Cursor)
<1>1. TreeInv' /\ Puts(node, node', k, Pair(k, v)) /\ it' \in {it, <<k, TRUE>>}
  BY InsertInv
<1>2. k \in Str
  BY KeysAreStrings, RadixTreeAssumption
<1>3. /\ Dictionary = View(node) /\ Dictionary' = View(node') /\ Heap(node) /\ Heap(node')
      /\ Cursor = At(it) /\ Cursor' = At(it')
  BY <1>1, DictionaryIs, NextDictionaryIs, CursorIs, NextCursorIs, HeapOf, NextHeapOf
<1>4. Completes(View(node), View(node'), k, v)
  BY <1>1, <1>2, <1>3, ViewPuts
<1>5. Dictionary' = Map!Completed(k, v)
  BY <1>3, <1>4 DEF Completes, Map!Completed, Map!Stored
<1>6. Cursor' \in {Cursor, k}
  BY <1>1, <1>2, <1>3, AtKey
<1> QED  BY <1>3, <1>5, <1>6 DEF Map!Insert

(* operator[], *)
LEMMA MapIndex ==
  ASSUME TreeInv, ~aborted, NEW k \in Keys, Index(k)
  PROVE  Map!Index(k) \/ UNCHANGED treeVars
<1>1. CASE Find(k) # NullNode
  BY <1>1 DEF Index
<1>2. CASE Find(k) = NullNode
  <2>1. Insert(k, Default) /\ it' = it
    BY <1>2 DEF Index
  <2> QED  BY <2>1, MapInsert DEF Map!Index
<1> QED  BY <1>1, <1>2

(* it->second = v, *)
LEMMA MapAssign ==
  ASSUME TreeInv, ~aborted, NEW v, Assign(v)
  PROVE  Map!Assign(v)
<1>1. /\ TreeInv' /\ it \in LeafSet(node) /\ it' = it /\ LeafSet(node') = LeafSet(node)
      /\ \A n \in LeafSet(node) : n # it => node'[n] = node[n]
      /\ node'[it].m_value = Pair(it[1], v)
  BY AssignInv
<1>2. /\ Dictionary = View(node) /\ Dictionary' = View(node') /\ Heap(node)
      /\ Cursor = At(it) /\ Cursor' = At(it')
  BY <1>1, DictionaryIs, NextDictionaryIs, CursorIs, NextCursorIs, HeapOf
<1>3. View(node') = [View(node) EXCEPT ![it[1]] = v]
  BY <1>1, <1>2, ViewAssigned
<1>4. At(it) = it[1] /\ At(it) # NullNode
  BY <1>1, AtLeaf
<1> QED  BY <1>1, <1>2, <1>3, <1>4 DEF Map!Assign

(* erase(), *)
LEMMA MapErase ==
  ASSUME TreeInv, ~aborted, NEW k \in Keys, EraseKey(k)
  PROVE  Map!Erase(k) \/ UNCHANGED treeVars
<1>1. k \in Str
  BY KeysAreStrings, RadixTreeAssumption
<1>2. CASE <<k, TRUE>> \notin LeafSet(node)
  <2>1. Find(k) = NullNode
    BY <1>1, <1>2, FindIs DEF TreeInv
  <2> QED  BY <2>1 DEF EraseKey
<1>3. CASE <<k, TRUE>> \in LeafSet(node)
  <2>1. /\ TreeInv' /\ Drops(node, node', <<k, TRUE>>)
        /\ it' = IF it = <<k, TRUE>> THEN NullNode ELSE it
    BY <1>1, <1>3, EraseInv
  <2>2. /\ Dictionary = View(node) /\ Dictionary' = View(node') /\ Heap(node) /\ Heap(node')
        /\ Cursor = At(it) /\ Cursor' = At(it')
    BY <2>1, DictionaryIs, NextDictionaryIs, CursorIs, NextCursorIs, HeapOf, NextHeapOf
  <2>3. Loses(View(node), View(node'), k)
    BY <1>1, <2>1, <2>2, ViewDrops
  <2>4. it = <<k, TRUE>> <=> At(it) = k
    <3>1. At(<<k, TRUE>>) = k
      BY <1>1, AtKey
    <3>2. ASSUME At(it) = k PROVE it = <<k, TRUE>>
      <4>1. it # NullNode
        BY <3>2, AtLeaf
      <4>2. it = <<it[1], TRUE>> /\ At(it) = it[1]
        BY <4>1, KeyOfIt DEF At
      <4> QED  BY <4>2, <3>2
    <3> QED  BY <3>1, <3>2
  <2>5. Cursor' = IF Cursor = k THEN NullNode ELSE Cursor
    BY <2>1, <2>2, <2>4, AtLeaf
  <2> QED  BY <2>2, <2>3, <2>5 DEF Loses, Map!Erase, Map!Restrict, Map!Stored
<1> QED  BY <1>2, <1>3

(* clear(), *)
LEMMA MapClear ==
  ASSUME TreeInv, ~aborted, ClearTree
  PROVE  Map!Clear
<1>1. TreeInv' /\ LeafSet(node') = {} /\ it' = NullNode
  BY ClearInv
<1>2. Dictionary' = View(node') /\ Cursor' = At(it')
  BY <1>1, NextDictionaryIs, NextCursorIs
<1>3. View(node') = [k \in {} |-> Default]
  BY <1>1 DEF View
<1>4. At(it') = NullNode
  BY <1>1 DEF At
<1> QED  BY <1>2, <1>3, <1>4 DEF Map!Clear

(* find(), *)
LEMMA MapFind ==
  ASSUME TreeInv, ~aborted, NEW k \in Keys, FindKey(k)
  PROVE  Map!Find(k)
<1>1. k \in Str
  BY KeysAreStrings, RadixTreeAssumption
<1>2. /\ TreeInv' /\ node' = node
      /\ it' = IF <<k, TRUE>> \in LeafSet(node) THEN <<k, TRUE>> ELSE NullNode
  BY <1>1, FindKeyInv
<1>3. /\ Dictionary = View(node) /\ Dictionary' = View(node') /\ Heap(node) /\ Cursor' = At(it')
  BY <1>2, DictionaryIs, NextDictionaryIs, NextCursorIs, HeapOf
<1>4. k \in DOMAIN View(node) <=> <<k, TRUE>> \in LeafSet(node)
  BY <1>1, <1>3, ViewDomain
<1>5. At(it') = IF k \in DOMAIN View(node) THEN k ELSE NullNode
  BY <1>1, <1>2, <1>4, AtKey, AtLeaf
<1> QED  BY <1>2, <1>3, <1>5 DEF Map!Find, Map!Stored

(* longest_match(), *)
LEMMA MapLongest ==
  ASSUME TreeInv, ~aborted, NEW q \in Queries, MatchLongest(q)
  PROVE  Map!LongestMatch(q)
<1>1. q \in Str
  BY KeysAreStrings
<1>2. TreeInv' /\ node' = node /\ LongestOf(node, q, it')
  BY <1>1, MatchInv
<1>3. /\ Dictionary = View(node) /\ Dictionary' = View(node') /\ Heap(node) /\ Cursor' = At(it')
  BY <1>2, DictionaryIs, NextDictionaryIs, NextCursorIs, HeapOf
<1> DEFINE D == DOMAIN View(node)
           P == {k \in D : Map!IsPrefix(k, q)}
           longest == CHOOSE k \in P : \A p \in P : Len(p) <= Len(k)
<1>4. /\ D \subseteq Str /\ (\A k \in Str : k \in D <=> <<k, TRUE>> \in LeafSet(node))
      /\ \A n \in LeafSet(node) : n[1] \in D
  BY <1>3, ViewDomain
<1>5. \A k \in P : k \in Str /\ Begins(k, q) /\ <<k, TRUE>> \in LeafPrefixes(node, q)
  <2> TAKE k \in P
  <2>1. k \in Str /\ <<k, TRUE>> \in LeafSet(node) /\ <<k, TRUE>>[1] = k
    BY <1>4
  <2>2. Begins(k, q)
    BY <2>1, <1>1, PrefixIs
  <2> QED  BY <2>1, <2>2 DEF LeafPrefixes, LeafSet
<1>6. \A y \in LeafPrefixes(node, q) : y \in LeafSet(node) /\ y[1] \in P
  <2> TAKE y \in LeafPrefixes(node, q)
  <2>1. y \in LeafSet(node) /\ Begins(y[1], q)
    BY DEF LeafPrefixes, LeafSet
  <2>2. y[1] \in Str /\ y[1] \in D
    BY <2>1, <1>3, <1>4, LeafAddress
  <2> QED  BY <2>1, <2>2, <1>1, PrefixIs
<1> HIDE DEF D, P
<1>7. CASE LeafPrefixes(node, q) = {}
  <2>1. it' = NullNode /\ P = {}
    BY <1>2, <1>5, <1>7 DEF LongestOf
  <2>2. Cursor' = NullNode
    BY <2>1, <1>3 DEF At
  <2> QED  BY <2>1, <2>2, <1>2, <1>3 DEF Map!LongestMatch, Map!Stored, P, D
<1>8. CASE LeafPrefixes(node, q) # {}
  <2> DEFINE a == it'[1]
  <2>1. /\ it' \in LeafPrefixes(node, q)
        /\ \A y \in LeafPrefixes(node, q) : Len(y[1]) <= Len(a)
    BY <1>2, <1>8 DEF LongestOf
  <2>2. a \in P /\ it' \in LeafSet(node) /\ \A k \in P : Len(k) <= Len(a)
    <3>1. \A k \in P : <<k, TRUE>>[1] = k
      OBVIOUS
    <3> QED  BY <3>1, <2>1, <1>5, <1>6
  <2>3. Cursor' = a
    BY <2>2, <1>3, AtLeaf
  <2> HIDE DEF a
  <2>4. ASSUME NEW k \in P, \A p \in P : Len(p) <= Len(k) PROVE k = a
    <3>1. k \in Str /\ a \in Str /\ Begins(k, q) /\ Begins(a, q)
      BY <2>2, <1>5
    <3>2. Len(k) <= Len(a) /\ Len(a) <= Len(k) /\ Len(k) \in Nat /\ Len(a) \in Nat
      BY <2>2, <2>4, <3>1, StringLength
    <3>3. Begins(k, a)
      BY <3>1, <3>2, <1>1, BeginsBoth
    <3> QED  BY <3>1, <3>2, <3>3, BeginsSame
  <2>5. longest = a /\ P # {}
    BY <2>2, <2>4
  <2> HIDE DEF longest
  <2>6. Cursor' = IF P = {} THEN NullNode ELSE longest
    BY <2>3, <2>5
  <2> QED  BY <2>6, <1>2, <1>3 DEF Map!LongestMatch, Map!Stored, P, D, longest
<1> QED  BY <1>7, <1>8

(* begin(), *)
LEMMA MapBegin ==
  ASSUME TreeInv, ~aborted, Begin
  PROVE  Map!Begin
<1>1. /\ TreeInv' /\ node' = node
      /\ IF LeafSet(node) = {} THEN it' = NullNode \/ it' = it
         ELSE it' \in LeafSet(node) /\ \A y \in LeafSet(node) : y # it' => LexLess(it'[1], y[1])
  BY BeginInv
<1>2. /\ Dictionary = View(node) /\ Dictionary' = View(node') /\ Heap(node) /\ Cursor' = At(it')
  BY <1>1, DictionaryIs, NextDictionaryIs, NextCursorIs, HeapOf
<1> DEFINE D == DOMAIN View(node)
<1>3. /\ D \subseteq Str /\ (\A k \in Str : k \in D <=> <<k, TRUE>> \in LeafSet(node))
      /\ \A n \in LeafSet(node) : n[1] \in D
  BY <1>2, ViewDomain
<1> HIDE DEF D
<1>4. Cursor' = Map!Least(D)
  <2>1. CASE LeafSet(node) = {}
    <3>1. it' = NullNode
      BY <2>1, <1>1 DEF TreeInv
    <3>2. D = {}
      BY <2>1, <1>3
    <3> QED  BY <3>1, <3>2, <1>2 DEF At, Map!Least
  <2>2. CASE LeafSet(node) # {}
    <3>1. it' \in LeafSet(node) /\ \A y \in LeafSet(node) : y # it' => LexLess(it'[1], y[1])
      BY <2>2, <1>1
    <3>2. it'[1] \in D /\ Cursor' = it'[1]
      BY <3>1, <1>2, <1>3, AtLeaf
    <3>3. ASSUME NEW k \in D \ {it'[1]} PROVE LexLess(it'[1], k)
      <4>1. <<k, TRUE>> \in LeafSet(node) /\ <<k, TRUE>>[1] = k
        BY <1>3
      <4>2. <<k, TRUE>> # it'
        BY <4>1
      <4> QED  BY <4>1, <4>2, <3>1
    <3>4. First(D) = it'[1]
      BY <3>2, <3>3, <1>3, FirstIs
    <3> QED  BY <3>2, <3>4, SameFirst DEF Map!Least
  <2> QED  BY <2>1, <2>2
<1> QED  BY <1>1, <1>2, <1>4 DEF Map!Begin, Map!Stored, D

(* and operator++. *)
LEMMA MapIncrement ==
  ASSUME TreeInv, ~aborted, Increment
  PROVE  Map!Increment
<1>1. TreeInv' /\ node' = node /\ it \in LeafSet(node) /\ NextOf(node, it, it')
  BY IncrementInv
<1>2. /\ Dictionary = View(node) /\ Dictionary' = View(node') /\ Heap(node)
      /\ Cursor = At(it) /\ Cursor' = At(it')
  BY <1>1, DictionaryIs, NextDictionaryIs, CursorIs, NextCursorIs, HeapOf
<1>3. Cursor = it[1] /\ Cursor # NullNode
  BY <1>1, <1>2, AtLeaf
<1> DEFINE D == DOMAIN View(node)
           G == {k \in D : Map!LexLess(Cursor, k)}
<1>4. /\ D \subseteq Str /\ (\A k \in Str : k \in D <=> <<k, TRUE>> \in LeafSet(node))
      /\ \A n \in LeafSet(node) : n[1] \in D
  BY <1>2, ViewDomain
<1>5. \A k \in G : k \in Str /\ <<k, TRUE>> \in Greater(node, it) /\ <<k, TRUE>>[1] = k
  BY <1>3, <1>4, SameLess DEF Greater, LeafSet
<1>6. \A y \in Greater(node, it) : y \in LeafSet(node) /\ y[1] \in G
  BY <1>3, <1>4, SameLess DEF Greater, LeafSet
<1> HIDE DEF D
<1>7. Cursor' = Map!Least(G)
  <2> HIDE DEF G
  <2>1. CASE Greater(node, it) = {}
    <3>1. it' = NullNode /\ G = {}
      BY <2>1, <1>1, <1>5 DEF NextOf
    <3> QED  BY <3>1, <1>2 DEF At, Map!Least
  <2>2. CASE Greater(node, it) # {}
    <3>1. /\ it' \in Greater(node, it)
          /\ \A y \in Greater(node, it) : y # it' => LexLess(it'[1], y[1])
      BY <2>2, <1>1 DEF NextOf
    <3>2. it'[1] \in G /\ Cursor' = it'[1]
      BY <3>1, <1>2, <1>6, AtLeaf
    <3>3. ASSUME NEW k \in G \ {it'[1]} PROVE LexLess(it'[1], k)
      <4>1. <<k, TRUE>> \in Greater(node, it) /\ <<k, TRUE>>[1] = k
        BY <1>5
      <4>2. <<k, TRUE>> # it'
        BY <4>1
      <4> QED  BY <4>1, <4>2, <3>1
    <3>4. First(G) = it'[1]
      BY <3>2, <3>3, <1>5, FirstIs
    <3> QED  BY <3>2, <3>4, SameFirst DEF Map!Least
  <2> QED  BY <2>1, <2>2
<1> QED  BY <1>1, <1>2, <1>3, <1>7 DEF Map!Increment, Map!Stored, D
-----------------------------------------------------------------------------
(* The refinement. *)

(* The empty tree is the empty dictionary. *)
LEMMA MapInit == TreeInit => Map!Init
<1> SUFFICES ASSUME TreeInit PROVE Map!Init
  OBVIOUS
<1>1. TreeInv /\ m_size = 0 /\ it = NullNode /\ node = [n \in {} |-> NullNode]
  BY StartInv DEF TreeInit
<1>2. LeafSet(node) = {}
  BY <1>1 DEF LeafSet
<1>3. View(node) = [k \in {} |-> Default]
  BY <1>2 DEF View
<1>4. Dictionary = View(node) /\ Cursor = NullNode
  BY <1>1, DictionaryIs DEF Cursor
<1> QED  BY <1>1, <1>3, <1>4 DEF Map!Init

(* size() counts the keys. *)
LEMMA SizeCounts == TreeInv => m_size = Cardinality(DOMAIN Dictionary)
<1> SUFFICES ASSUME TreeInv PROVE m_size = Cardinality(DOMAIN Dictionary)
  OBVIOUS
<1>1. Heap(node) /\ IsFiniteSet(LeafSet(node)) /\ m_size = Cardinality(LeafSet(node))
  BY HeapOf DEF TreeInv
<1> QED  BY <1>1, ViewSize, DictionaryIs

(* Every call is one step of the dictionary, or changes nothing. *)
LEMMA MapStep ==
  ASSUME TreeInv, TreeNext
  PROVE  Map!Next \/ UNCHANGED treeVars
<1>1. ~aborted
  BY DEF TreeNext
<1>2. ASSUME NEW k \in Keys, NEW v \in Values, Insert(k, v) PROVE Map!Next
  BY <1>1, <1>2, MapInsert DEF Map!Next
<1>3. ASSUME NEW k \in Keys, Index(k) PROVE Map!Next \/ UNCHANGED treeVars
  BY <1>1, <1>3, MapIndex DEF Map!Next
<1>4. ASSUME NEW k \in Keys, EraseKey(k) PROVE Map!Next \/ UNCHANGED treeVars
  BY <1>1, <1>4, MapErase DEF Map!Next
<1>5. ASSUME EraseIt PROVE Map!Next \/ UNCHANGED treeVars
  BY <1>4, <1>5, KeyOfIt DEF EraseIt
<1>6. ASSUME NEW k \in Keys, FindKey(k) PROVE Map!Next
  BY <1>1, <1>6, MapFind DEF Map!Next
<1>7. ASSUME NEW q \in Queries, MatchLongest(q) PROVE Map!Next
  BY <1>1, <1>7, MapLongest DEF Map!Next
<1>8. ASSUME NEW v \in Values, Assign(v) PROVE Map!Next
  BY <1>1, <1>8, MapAssign DEF Map!Next
<1>9. CASE ClearTree
  BY <1>1, <1>9, MapClear DEF Map!Next
<1>10. CASE Begin
  BY <1>1, <1>10, MapBegin DEF Map!Next
<1>11. CASE Increment
  BY <1>1, <1>11, MapIncrement DEF Map!Next
<1> QED  BY <1>2, <1>3, <1>4, <1>5, <1>6, <1>7, <1>8, <1>9, <1>10, <1>11 DEF TreeNext

(* Every call acts on the keys, their values and the iterator as one step  *)
(* of an ordered dictionary does, for any set of keys.                      *)
THEOREM TreeIsMap == TreeSpec => RefinesMap
<1>1. TreeInit => Map!Init
  BY MapInit
<1>2. TreeInv => m_size = Map!Cardinality(DOMAIN Dictionary)
  BY SizeCounts, SameCardinality
<1>3. TreeInv /\ TreeInv' /\ [TreeNext]_treeVars /\ (m_size = Map!Cardinality(DOMAIN Dictionary))'
        => [Map!Next /\ m_size' = Map!Cardinality(DOMAIN Dictionary')]_(Map!vars)
  <2>1. UNCHANGED treeVars => UNCHANGED Map!vars
    BY DEF treeVars, Map!vars, Dictionary, Stored, Leaves, Cursor
  <2> QED  BY <2>1, MapStep
<1>4. TreeSpec => Map!Spec
  <2>1. TreeSpec => []TreeInv
    BY TreeInvariant
  <2> QED  BY <2>1, <1>1, <1>2, <1>3, PTL DEF TreeSpec, Map!Spec
<1> QED  BY <1>4 DEF RefinesMap
-----------------------------------------------------------------------------
(* The matches. *)

(* s names the leaves of A in the order of their keys, each once. *)
Vector(s, A) ==
  /\ s \in Seq(A)
  /\ \A x \in A : \E i \in 1..Len(s) : s[i] = x
  /\ \A i, j \in 1..Len(s) : i < j => LexLess(s[i][1], s[j][1])

(* Leaves are named by strings. *)
Named(A) == \A x \in A : x[1] \in Str

(* One list of a set has every element of another at the same place. *)
LEMMA VectorsAgree ==
  ASSUME NEW A, Named(A), NEW s, NEW u, Vector(s, A), Vector(u, A)
  PROVE  \A k \in 1..Len(s) : k <= Len(u) /\ s[k] = u[k]
<1> DEFINE Bad == {k \in 1..Len(s) : ~(k <= Len(u) /\ s[k] = u[k])}
<1>0. /\ s \in Seq(A) /\ u \in Seq(A) /\ Len(s) \in Nat /\ Len(u) \in Nat
      /\ \A i \in 1..Len(s) : s[i] \in A
      /\ \A i \in 1..Len(u) : u[i] \in A
  BY DEF Vector
<1>1. SUFFICES ASSUME Bad # {} PROVE FALSE
  OBVIOUS
<1>2. PICK k \in Bad : \A i \in Bad : k <= i
  <2>1. Bad \subseteq Nat
    BY <1>0
  <2> HIDE DEF Bad
  <2> QED  BY <2>1, <1>1, Least
<1>3. /\ k \in 1..Len(s) /\ ~(k <= Len(u) /\ s[k] = u[k])
      /\ \A i \in 1..Len(s) : i < k => i <= Len(u) /\ s[i] = u[i]
  BY <1>0, <1>2
<1> HIDE DEF Bad
<1>4. \A x, y \in A : ~(LexLess(x[1], y[1]) /\ LexLess(y[1], x[1]))
  BY LexOnce DEF Named
<1>5. PICK j \in 1..Len(u) : u[j] = s[k]
  BY <1>0, <1>3 DEF Vector
<1>6. ~(j < k)
  <2> SUFFICES ASSUME j < k PROVE FALSE
    OBVIOUS
  <2>1. j \in 1..Len(s) /\ s[j] = u[j]
    BY <1>0, <1>3
  <2>2. LexLess(s[j][1], s[k][1])
    BY <2>1, <1>3 DEF Vector
  <2> QED  BY <2>1, <2>2, <1>0, <1>4, <1>5
<1>7. j # k
  BY <1>0, <1>3, <1>5
<1>8. k \in 1..Len(u) /\ LexLess(u[k][1], u[j][1])
  <2>1. k \in 1..Len(u) /\ k < j
    BY <1>0, <1>3, <1>6, <1>7
  <2> QED  BY <2>1 DEF Vector
<1>9. PICK i \in 1..Len(s) : s[i] = u[k]
  BY <1>0, <1>8 DEF Vector
<1>10. i # k
  BY <1>0, <1>3, <1>8, <1>9
<1>11. CASE i < k
  <2>1. i \in 1..Len(u) /\ s[i] = u[i]
    BY <1>0, <1>3, <1>11
  <2>2. LexLess(u[i][1], u[k][1])
    BY <2>1, <1>8, <1>11 DEF Vector
  <2> QED  BY <2>1, <2>2, <1>0, <1>4, <1>8, <1>9
<1>12. CASE i > k
  <2>1. LexLess(s[k][1], s[i][1])
    BY <1>3, <1>12 DEF Vector
  <2> QED  BY <2>1, <1>0, <1>4, <1>5, <1>8, <1>9
<1> QED  BY <1>0, <1>3, <1>10, <1>11, <1>12

(* A set of leaves has one list. *)
LEMMA VectorOnce ==
  ASSUME NEW A, Named(A), NEW s, NEW u, Vector(s, A), Vector(u, A)
  PROVE  s = u
<1>1. /\ s \in Seq(A) /\ u \in Seq(A) /\ Len(s) \in Nat /\ Len(u) \in Nat
  BY DEF Vector
<1>2. \A k \in 1..Len(s) : k <= Len(u) /\ s[k] = u[k]
  BY VectorsAgree
<1>3. \A k \in 1..Len(u) : k <= Len(s) /\ u[k] = s[k]
  BY VectorsAgree
<1>4. Len(s) = Len(u)
  <2>1. Len(s) > 0 => Len(s) <= Len(u)
    BY <1>1, <1>2
  <2>2. Len(u) > 0 => Len(u) <= Len(s)
    BY <1>1, <1>3
  <2> QED  BY <1>1, <2>1, <2>2
<1> QED  BY <1>1, <1>2, <1>4

(* The list of nothing, and of one leaf. *)
LEMMA VectorOfFew ==
  /\ Vector(<< >>, {})
  /\ \A x : Vector(<<x>>, {x})
<1>1. Vector(<< >>, {})
  BY DEF Vector
<1>2. ASSUME NEW x PROVE Vector(<<x>>, {x})
  <2>1. <<x>> \in Seq({x}) /\ Len(<<x>>) = 1 /\ <<x>>[1] = x
    OBVIOUS
  <2> HIDE DEF Vector
  <2>2. \A i, j \in 1..1 : ~(i < j)
    OBVIOUS
  <2> QED  BY <2>1, <2>2 DEF Vector
<1> QED  BY <1>1, <1>2

(* A list of what comes first, and one of what comes later. *)
LEMMA VectorJoined ==
  ASSUME NEW A, NEW B, NEW s, NEW u, Vector(s, A), Vector(u, B),
         \A x \in A, y \in B : LexLess(x[1], y[1])
  PROVE  Vector(s \o u, A \cup B)
<1> DEFINE w == s \o u
           m == Len(s)
<1>1. /\ s \in Seq(A) /\ u \in Seq(B) /\ Len(s) \in Nat /\ Len(u) \in Nat
      /\ \A i \in 1..Len(s) : s[i] \in A
      /\ \A i \in 1..Len(u) : u[i] \in B
  BY DEF Vector
<1>2. s \in Seq(A \cup B) /\ u \in Seq(A \cup B)
  BY <1>1
<1>3. /\ w \in Seq(A \cup B) /\ Len(w) = m + Len(u)
      /\ \A i \in 1..m : w[i] = s[i]
      /\ \A i \in 1..Len(w) : i > m => i - m \in 1..Len(u) /\ w[i] = u[i - m]
  BY <1>1, <1>2
<1> HIDE DEF w
<1>4. \A x \in A \cup B : \E i \in 1..Len(w) : w[i] = x
  <2>1. ASSUME NEW x \in A PROVE \E i \in 1..Len(w) : w[i] = x
    <3>1. PICK i \in 1..m : s[i] = x
      BY DEF Vector
    <3> QED  BY <3>1, <1>1, <1>3
  <2>2. ASSUME NEW x \in B PROVE \E i \in 1..Len(w) : w[i] = x
    <3>1. PICK i \in 1..Len(u) : u[i] = x
      BY DEF Vector
    <3>2. i + m \in 1..Len(w) /\ i + m > m /\ (i + m) - m = i
      BY <1>1, <1>3
    <3> QED  BY <3>1, <3>2, <1>3
  <2> QED  BY <2>1, <2>2
<1>5. ASSUME NEW i \in 1..Len(w), NEW j \in 1..Len(w), i < j
      PROVE  LexLess(w[i][1], w[j][1])
  <2>1. CASE j <= m
    <3>1. i \in 1..m /\ j \in 1..m
      BY <1>1, <1>3, <1>5, <2>1
    <3>2. LexLess(s[i][1], s[j][1])
      BY <3>1, <1>5 DEF Vector
    <3> QED  BY <3>1, <3>2, <1>3
  <2>2. CASE i <= m /\ j > m
    <3>1. i \in 1..m /\ w[i] = s[i] /\ j - m \in 1..Len(u) /\ w[j] = u[j - m]
      BY <1>1, <1>3, <2>2
    <3> QED  BY <3>1, <1>1
  <2>3. CASE i > m
    <3>1. /\ i - m \in 1..Len(u) /\ w[i] = u[i - m] /\ i - m < j - m
          /\ j - m \in 1..Len(u) /\ w[j] = u[j - m]
      BY <1>1, <1>3, <1>5, <2>3
    <3>2. LexLess(u[i - m][1], u[j - m][1])
      BY <3>1 DEF Vector
    <3> QED  BY <3>1, <3>2
  <2> QED  BY <1>1, <1>3, <2>1, <2>2, <2>3
<1> QED  BY <1>3, <1>4, <1>5 DEF Vector, w

(* The leaves that greedy_match() has still to put into its vector while   *)
(* the labels S of n are ahead.                                            *)
Ahead(t, n, S) == IF n[2] THEN {n} ELSE UNION {Under(t, Kid(t, n, l)) : l \in S}

(* Before the loop these are the leaves below n. *)
LEMMA AheadOfAll ==
  ASSUME NEW t, Tree(t), NEW n \in DOMAIN t
  PROVE  Ahead(t, n, Labels(t, n)) = Under(t, n)
<1>1. CASE n[2]
  BY <1>1 DEF Ahead, Under
<1>2. CASE ~n[2]
  <2>1. ASSUME NEW l \in Labels(t, n), NEW x \in Under(t, Kid(t, n, l)) PROVE x \in Under(t, n)
    <3>1. Filed(t, n, l, Kid(t, n, l))
      BY KidFacts
    <3> QED  BY <3>1, UnderKid
  <2>2. ASSUME NEW x \in Under(t, n) PROVE \E l \in Labels(t, n) : x \in Under(t, Kid(t, n, l))
    BY <1>2, UnderSplits
  <2>3. Ahead(t, n, Labels(t, n)) = UNION {Under(t, Kid(t, n, l)) : l \in Labels(t, n)}
    BY <1>2 DEF Ahead
  <2> QED  BY <2>1, <2>2, <2>3
<1> QED  BY <1>1, <1>2

(* They are leaves. *)
LEMMA AheadNamed ==
  ASSUME NEW t, Tree(t), NEW n \in DOMAIN t, NEW S \in SUBSET Labels(t, n)
  PROVE  Named(Ahead(t, n, S))
<1>1. ASSUME NEW x \in Ahead(t, n, S) PROVE x \in DOMAIN t
  BY DEF Ahead, Under
<1> QED  BY <1>1, NodeFacts DEF Named

(* One round of the loop. *)
LEMMA AheadRound ==
  ASSUME NEW t, Tree(t), NEW n \in DOMAIN t, ~n[2], NEW S \in SUBSET Labels(t, n), S # {}
  PROVE  LET l == First(S)
             c == Kid(t, n, l)
         IN  /\ Filed(t, n, l, c) /\ l \in S
             /\ Ahead(t, n, S) = Ahead(t, c, Labels(t, c)) \cup Ahead(t, n, S \ {l})
             /\ \A x \in Ahead(t, c, Labels(t, c)), y \in Ahead(t, n, S \ {l}) : LexLess(x[1], y[1])
<1> DEFINE l == First(S)
           c == Kid(t, n, l)
<1>1. l \in S /\ \A k \in S : k # l => LexLess(l, k)
  BY FirstLabel
<1>a. c = Kid(t, n, l)
  OBVIOUS
<1> HIDE DEF l
<1>2. Filed(t, n, l, c)
  BY <1>1, KidFacts
<1> HIDE DEF c
<1>3. c \in DOMAIN t
  BY <1>2 DEF Filed
<1>4. Ahead(t, c, Labels(t, c)) = Under(t, c)
  BY <1>3, AheadOfAll
<1>5. /\ Ahead(t, n, S) = UNION {Under(t, Kid(t, n, k)) : k \in S}
      /\ Ahead(t, n, S \ {l}) = UNION {Under(t, Kid(t, n, k)) : k \in S \ {l}}
  BY DEF Ahead
<1>6. Ahead(t, n, S) = Under(t, c) \cup Ahead(t, n, S \ {l})
  BY <1>1, <1>5, <1>a
<1>7. ASSUME NEW x \in Under(t, c), NEW y \in Ahead(t, n, S \ {l}) PROVE LexLess(x[1], y[1])
  <2>1. PICK k \in S \ {l} : y \in Under(t, Kid(t, n, k))
    BY <1>5
  <2>2. LexLess(l, k) /\ l \in Labels(t, n) /\ k \in Labels(t, n)
    BY <1>1
  <2>3. x \in Under(t, Kid(t, n, l))
    BY <1>a
  <2> QED  BY <2>1, <2>2, <2>3, UnderOrder
<1> QED  BY <1>1, <1>2, <1>4, <1>6, <1>7 DEF l, c

(* A call of the loop and its rounds: the kid it calls itself for, and the *)
(* rest.                                                                   *)
Inner(t, n, S) == <<Kid(t, n, First(S)), Labels(t, Kid(t, n, First(S)))>>
Rest(n, S) == <<n, S \ {First(S)}>>

(* Every call ends: what holds of a call if it holds of its inner call and *)
(* of the rest of the loop holds of all calls.                             *)
LEMMA CallsEnd ==
  ASSUME NEW t, Tree(t), NEW b, Bounded(t, b), NEW Good,
         \A n \in DOMAIN t : \A S \in SUBSET Labels(t, n) :
           (n[2] \/ S = {} \/ (Inner(t, n, S) \in Good /\ Rest(n, S) \in Good))
             => <<n, S>> \in Good
  PROVE  \A n \in DOMAIN t : \A S \in SUBSET Labels(t, n) : <<n, S>> \in Good
<1> DEFINE Odd == {n \in DOMAIN t : \E S \in SUBSET Labels(t, n) : <<n, S>> \notin Good}
           B == {2 * b + 1 - Rank(n) : n \in Odd}
<1>1. \A m \in DOMAIN t : Rank(m) \in Nat /\ Rank(m) <= 2 * b + 1
  <2> TAKE m \in DOMAIN t
  <2>1. m[1] \in Str /\ b \in Nat /\ Len(m[1]) <= b
    BY NodeFacts DEF Bounded
  <2>2. Len(m[1]) \in Nat
    BY <2>1, StringLength
  <2> QED  BY <2>1, <2>2 DEF Rank
<1>2. b \in Nat
  BY DEF Bounded
<1>3. SUFFICES ASSUME Odd # {} PROVE FALSE
  OBVIOUS
<1>4. PICK r \in B : \A s \in B : r <= s
  <2>1. B \subseteq Nat /\ B # {}
    BY <1>1, <1>2, <1>3
  <2> HIDE DEF B
  <2> QED  BY <2>1, Least
<1>5. PICK n \in Odd : r = 2 * b + 1 - Rank(n)
  BY <1>4
<1>6. n \in DOMAIN t
  OBVIOUS
<1>7. ASSUME NEW S \in SUBSET Labels(t, n), S # {}, ~n[2]
      PROVE  Inner(t, n, S) \in Good
  <2> DEFINE c == Kid(t, n, First(S))
  <2>1. First(S) \in Labels(t, n)
    BY <1>6, <1>7, FirstLabel
  <2>2. Filed(t, n, First(S), c)
    BY <2>1, <1>6, KidFacts
  <2> HIDE DEF c
  <2>3. Rank(n) < Rank(c) /\ c \in DOMAIN t
    BY <2>2, RankFalls DEF Filed
  <2>4. c \notin Odd
    <3> SUFFICES ASSUME c \in Odd PROVE FALSE
      OBVIOUS
    <3>1. 2 * b + 1 - Rank(c) \in B
      OBVIOUS
    <3> HIDE DEF B, Odd
    <3>2. r <= 2 * b + 1 - Rank(c)
      BY <3>1, <1>4
    <3> QED  BY <3>2, <2>3, <1>1, <1>2, <1>5, <1>6
  <2>5. <<c, Labels(t, c)>> \in Good
    BY <2>3, <2>4
  <2> QED  BY <2>5 DEF Inner, c
<1> DEFINE Counts == {Cardinality(S) : S \in {T \in SUBSET Labels(t, n) : <<n, T>> \notin Good}}
<1>8. \A S \in SUBSET Labels(t, n) : IsFiniteSet(S) /\ Cardinality(S) \in Nat
  <2> TAKE S \in SUBSET Labels(t, n)
  <2>1. IsFiniteSet(Labels(t, n))
    BY <1>6, TreeParts DEF Branches
  <2>2. IsFiniteSet(S)
    BY <2>1, FS_Subset
  <2> QED  BY <2>2, FS_CardinalityType
<1>9. Counts \subseteq Nat /\ Counts # {}
  <2>1. Counts \subseteq Nat
    BY <1>8
  <2>2. PICK T \in SUBSET Labels(t, n) : <<n, T>> \notin Good
    BY <1>5
  <2>3. Cardinality(T) \in Counts
    BY <2>2
  <2> QED  BY <2>1, <2>3
<1>10. PICK i \in Counts : \A j \in Counts : i <= j
  <2> HIDE DEF Counts
  <2> QED  BY <1>9, Least
<1>11. PICK S \in SUBSET Labels(t, n) : <<n, S>> \notin Good /\ i = Cardinality(S)
  BY <1>10
<1>12. ~n[2] /\ S # {}
  BY <1>6, <1>11
<1>13. Rest(n, S) \in Good
  <2> DEFINE T == S \ {First(S)}
  <2>1. First(S) \in S
    BY <1>6, <1>12, FirstLabel
  <2>2. Cardinality(T) = Cardinality(S) - 1
    BY <2>1, <1>8, FS_RemoveElement
  <2>3. T \in SUBSET Labels(t, n)
    OBVIOUS
  <2> HIDE DEF T
  <2>4. <<n, T>> \in Good
    <3> SUFFICES ASSUME <<n, T>> \notin Good PROVE FALSE
      OBVIOUS
    <3>1. Cardinality(T) \in Counts
      BY <2>3
    <3> HIDE DEF Counts
    <3> QED  BY <3>1, <2>2, <2>3, <1>8, <1>10, <1>11
  <2> QED  BY <2>4 DEF Rest, T
<1> HIDE DEF Odd, B, Counts
<1>14. Inner(t, n, S) \in Good
  BY <1>7, <1>12
<1> QED  BY <1>6, <1>11, <1>13, <1>14

(* greedy_match() as a function of its calls. *)
Walks(t, f) ==
  \A n \in DOMAIN t : \A S \in SUBSET Labels(t, n) :
    f[<<n, S>>] = IF n[2] THEN <<n>> ELSE IF S = {} THEN << >>
                  ELSE f[Inner(t, n, S)] \o f[Rest(n, S)]

(* Every call has a list to answer. *)
LEMMA VectorsExist ==
  ASSUME NEW t, Tree(t), NEW b, Bounded(t, b)
  PROVE  \A n \in DOMAIN t : \A S \in SUBSET Labels(t, n) : \E s : Vector(s, Ahead(t, n, S))
<1> DEFINE Good == {x \in Calls(t) : \E s : Vector(s, Ahead(t, x[1], x[2]))}
<1>1. \A n \in DOMAIN t : \A S \in SUBSET Labels(t, n) :
        /\ <<n, S>> \in Calls(t) /\ <<n, S>>[1] = n /\ <<n, S>>[2] = S
  BY DEF Calls
<1>2. \A n \in DOMAIN t : \A S \in SUBSET Labels(t, n) :
        <<n, S>> \in Good <=> \E s : Vector(s, Ahead(t, n, S))
  BY <1>1
<1> HIDE DEF Good
<1>3. ASSUME NEW n \in DOMAIN t, NEW S \in SUBSET Labels(t, n),
             n[2] \/ S = {} \/ (Inner(t, n, S) \in Good /\ Rest(n, S) \in Good)
      PROVE  <<n, S>> \in Good
  <2>1. CASE n[2]
    <3>1. Ahead(t, n, S) = {n}
      BY <2>1 DEF Ahead
    <3> QED  BY <3>1, <1>2, VectorOfFew
  <2>2. CASE ~n[2] /\ S = {}
    <3>1. Ahead(t, n, S) = {}
      BY <2>2 DEF Ahead
    <3> QED  BY <3>1, <1>2, VectorOfFew
  <2>3. CASE ~n[2] /\ S # {}
    <3> DEFINE l == First(S)
               c == Kid(t, n, l)
    <3>1. /\ Filed(t, n, l, c) /\ l \in S
          /\ Ahead(t, n, S) = Ahead(t, c, Labels(t, c)) \cup Ahead(t, n, S \ {l})
          /\ \A x \in Ahead(t, c, Labels(t, c)), y \in Ahead(t, n, S \ {l}) : LexLess(x[1], y[1])
      BY <2>3, AheadRound
    <3>2. <<c, Labels(t, c)>> \in Good /\ <<n, S \ {l}>> \in Good
      BY <1>3, <2>3 DEF Inner, Rest
    <3>3. c \in DOMAIN t /\ S \ {l} \in SUBSET Labels(t, n)
      BY <3>1 DEF Filed
    <3> HIDE DEF l, c
    <3>4. PICK s : Vector(s, Ahead(t, c, Labels(t, c)))
      BY <3>2, <3>3, <1>2
    <3>5. PICK u : Vector(u, Ahead(t, n, S \ {l}))
      BY <3>2, <3>3, <1>2
    <3>6. Vector(s \o u, Ahead(t, n, S))
      <4> DEFINE A == Ahead(t, c, Labels(t, c))
                 B == Ahead(t, n, S \ {l})
      <4>1. /\ Vector(s, A) /\ Vector(u, B)
            /\ \A x \in A, y \in B : LexLess(x[1], y[1])
        BY <3>1, <3>4, <3>5
      <4>2. Ahead(t, n, S) = A \cup B
        BY <3>1
      <4> HIDE DEF A, B
      <4>3. Vector(s \o u, A \cup B)
        BY <4>1, VectorJoined
      <4> QED  BY <4>2, <4>3
    <3> QED  BY <3>6, <1>2
  <2> QED  BY <2>1, <2>2, <2>3
<1>4. \A n \in DOMAIN t : \A S \in SUBSET Labels(t, n) : <<n, S>> \in Good
  BY <1>3, CallsEnd
<1> QED  BY <1>2, <1>4

(* A function that is defined as greedy_match() lists what is ahead. *)
LEMMA WalkFills ==
  ASSUME NEW t, Tree(t), NEW b, Bounded(t, b), NEW f, Walks(t, f)
  PROVE  \A n \in DOMAIN t : \A S \in SUBSET Labels(t, n) : Vector(f[<<n, S>>], Ahead(t, n, S))
<1> DEFINE Good == {x \in Calls(t) : Vector(f[x], Ahead(t, x[1], x[2]))}
<1>1. \A n \in DOMAIN t : \A S \in SUBSET Labels(t, n) :
        /\ <<n, S>> \in Calls(t) /\ <<n, S>>[1] = n /\ <<n, S>>[2] = S
  BY DEF Calls
<1>2. \A n \in DOMAIN t : \A S \in SUBSET Labels(t, n) :
        <<n, S>> \in Good <=> Vector(f[<<n, S>>], Ahead(t, n, S))
  BY <1>1
<1> HIDE DEF Good
<1>3. ASSUME NEW n \in DOMAIN t, NEW S \in SUBSET Labels(t, n),
             n[2] \/ S = {} \/ (Inner(t, n, S) \in Good /\ Rest(n, S) \in Good)
      PROVE  <<n, S>> \in Good
  <2>0. f[<<n, S>>] = IF n[2] THEN <<n>> ELSE IF S = {} THEN << >>
                      ELSE f[Inner(t, n, S)] \o f[Rest(n, S)]
    BY DEF Walks
  <2>1. CASE n[2]
    <3>1. Ahead(t, n, S) = {n} /\ f[<<n, S>>] = <<n>>
      BY <2>0, <2>1 DEF Ahead
    <3> QED  BY <3>1, <1>2, VectorOfFew
  <2>2. CASE ~n[2] /\ S = {}
    <3>1. Ahead(t, n, S) = {} /\ f[<<n, S>>] = << >>
      BY <2>0, <2>2 DEF Ahead
    <3> QED  BY <3>1, <1>2, VectorOfFew
  <2>3. CASE ~n[2] /\ S # {}
    <3> DEFINE l == First(S)
               c == Kid(t, n, l)
    <3>1. /\ Filed(t, n, l, c) /\ l \in S
          /\ Ahead(t, n, S) = Ahead(t, c, Labels(t, c)) \cup Ahead(t, n, S \ {l})
          /\ \A x \in Ahead(t, c, Labels(t, c)), y \in Ahead(t, n, S \ {l}) : LexLess(x[1], y[1])
      BY <2>3, AheadRound
    <3>2. <<c, Labels(t, c)>> \in Good /\ <<n, S \ {l}>> \in Good
      BY <1>3, <2>3 DEF Inner, Rest
    <3>a. f[<<n, S>>] = f[<<c, Labels(t, c)>>] \o f[<<n, S \ {l}>>]
      BY <2>0, <2>3 DEF Inner, Rest
    <3>3. c \in DOMAIN t /\ S \ {l} \in SUBSET Labels(t, n)
      BY <3>1 DEF Filed
    <3> HIDE DEF l, c
    <3>4. Vector(f[<<c, Labels(t, c)>>], Ahead(t, c, Labels(t, c)))
      BY <3>2, <3>3, <1>2
    <3>5. Vector(f[<<n, S \ {l}>>], Ahead(t, n, S \ {l}))
      BY <3>2, <3>3, <1>2
    <3>6. Vector(f[<<n, S>>], Ahead(t, n, S))
      <4> DEFINE A == Ahead(t, c, Labels(t, c))
                 B == Ahead(t, n, S \ {l})
      <4>1. /\ Vector(f[<<c, Labels(t, c)>>], A) /\ Vector(f[<<n, S \ {l}>>], B)
            /\ \A x \in A, y \in B : LexLess(x[1], y[1])
        BY <3>1, <3>4, <3>5
      <4>2. Ahead(t, n, S) = A \cup B
        BY <3>1
      <4> HIDE DEF A, B
      <4>3. Vector(f[<<c, Labels(t, c)>>] \o f[<<n, S \ {l}>>], A \cup B)
        BY <4>1, VectorJoined
      <4> QED  BY <4>2, <4>3, <3>a
    <3> QED  BY <3>6, <1>2
  <2> QED  BY <2>1, <2>2, <2>3
<1>4. \A n \in DOMAIN t : \A S \in SUBSET Labels(t, n) : <<n, S>> \in Good
  BY <1>3, CallsEnd
<1> QED  BY <1>2, <1>4

(* The definition has a solution: it answers the lists. *)
LEMMA WalkTurns ==
  ASSUME NEW t, Tree(t), NEW b, Bounded(t, b)
  PROVE  \E f : Walks(t, f) /\ \A n : LeavesInOrder(t, n) = f[<<n, Labels(t, n)>>]
<1> DEFINE Turn(f, x) == IF t[x[1]].m_is_leaf THEN <<x[1]>>
                         ELSE IF x[2] = {} THEN << >>
                         ELSE f[Inner(t, x[1], x[2])] \o f[Rest(x[1], x[2])]
           Fits(f) == f = [x \in Calls(t) |-> Turn(f, x)]
           g == [x \in Calls(t) |-> CHOOSE s : Vector(s, Ahead(t, x[1], x[2]))]
<1>1. \A n \in DOMAIN t : \A S \in SUBSET Labels(t, n) :
        /\ <<n, S>> \in Calls(t) /\ <<n, S>>[1] = n /\ <<n, S>>[2] = S
  BY DEF Calls
<1>2. \A x \in Calls(t) : x[1] \in DOMAIN t /\ x[2] \in SUBSET Labels(t, x[1]) /\ x = <<x[1], x[2]>>
  BY DEF Calls
<1>3. \A n \in DOMAIN t : \A S \in SUBSET Labels(t, n) : Vector(g[<<n, S>>], Ahead(t, n, S))
  <2> TAKE n \in DOMAIN t
  <2> TAKE S \in SUBSET Labels(t, n)
  <2>1. g[<<n, S>>] = CHOOSE s : Vector(s, Ahead(t, n, S))
    BY <1>1
  <2>2. \E s : Vector(s, Ahead(t, n, S))
    BY VectorsExist
  <2> HIDE DEF g
  <2> QED  BY <2>1, <2>2
<1>4. ASSUME NEW x \in Calls(t) PROVE g[x] = Turn(g, x)
  <2> DEFINE n == x[1]
             S == x[2]
  <2>0. n \in DOMAIN t /\ S \in SUBSET Labels(t, n) /\ x = <<n, S>>
    BY <1>2
  <2>a. t[n].m_is_leaf = n[2] /\ Turn(g, x) = IF t[n].m_is_leaf THEN <<n>>
                         ELSE IF S = {} THEN << >>
                         ELSE g[Inner(t, n, S)] \o g[Rest(n, S)]
    BY <2>0, NodeFacts
  <2> HIDE DEF n, S, g, Turn
  <2>1. Vector(g[x], Ahead(t, n, S)) /\ Named(Ahead(t, n, S))
    BY <2>0, <1>3, AheadNamed
  <2>2. CASE n[2]
    <3>1. Ahead(t, n, S) = {n} /\ Turn(g, x) = <<n>>
      BY <2>a, <2>2 DEF Ahead
    <3>2. Vector(Turn(g, x), Ahead(t, n, S))
      BY <3>1, VectorOfFew
    <3> QED  BY <3>2, <2>1, VectorOnce
  <2>3. CASE ~n[2] /\ S = {}
    <3>1. Ahead(t, n, S) = {} /\ Turn(g, x) = << >>
      BY <2>a, <2>3 DEF Ahead
    <3>2. Vector(Turn(g, x), Ahead(t, n, S))
      BY <3>1, VectorOfFew
    <3> QED  BY <3>2, <2>1, VectorOnce
  <2>4. CASE ~n[2] /\ S # {}
    <3> DEFINE l == First(S)
               c == Kid(t, n, l)
    <3>1. /\ Filed(t, n, l, c) /\ l \in S
          /\ Ahead(t, n, S) = Ahead(t, c, Labels(t, c)) \cup Ahead(t, n, S \ {l})
          /\ \A y \in Ahead(t, c, Labels(t, c)), z \in Ahead(t, n, S \ {l}) : LexLess(y[1], z[1])
      BY <2>0, <2>4, AheadRound
    <3>2. Turn(g, x) = g[<<c, Labels(t, c)>>] \o g[<<n, S \ {l}>>]
      BY <2>a, <2>4 DEF Inner, Rest
    <3>3. c \in DOMAIN t /\ S \ {l} \in SUBSET Labels(t, n)
      BY <3>1, <2>0 DEF Filed
    <3> HIDE DEF l, c
    <3>4. /\ Vector(g[<<c, Labels(t, c)>>], Ahead(t, c, Labels(t, c)))
          /\ Vector(g[<<n, S \ {l}>>], Ahead(t, n, S \ {l}))
      BY <3>3, <2>0, <1>3
    <3>5. Vector(Turn(g, x), Ahead(t, n, S))
      <4> DEFINE A == Ahead(t, c, Labels(t, c))
                 B == Ahead(t, n, S \ {l})
      <4>1. /\ Vector(g[<<c, Labels(t, c)>>], A) /\ Vector(g[<<n, S \ {l}>>], B)
            /\ \A y \in A, z \in B : LexLess(y[1], z[1])
        BY <3>1, <3>4
      <4>2. Ahead(t, n, S) = A \cup B
        BY <3>1
      <4> HIDE DEF A, B
      <4>3. Vector(g[<<c, Labels(t, c)>>] \o g[<<n, S \ {l}>>], A \cup B)
        BY <4>1, VectorJoined
      <4> QED  BY <4>2, <4>3, <3>2
    <3> QED  BY <3>5, <2>1, VectorOnce
  <2> QED  BY <2>2, <2>3, <2>4
<1>5. Fits(g)
  <2>1. g = [x \in Calls(t) |-> g[x]]
    OBVIOUS
  <2> HIDE DEF g, Turn
  <2> QED  BY <2>1, <1>4
<1> DEFINE F == CHOOSE f : Fits(f)
<1>6. Fits(F)
  <2> HIDE DEF Fits, g
  <2> QED  BY <1>5
<1>7. \A n : LeavesInOrder(t, n) = F[<<n, Labels(t, n)>>]
  BY DEF LeavesInOrder, Inner, Rest, Kid
<1> HIDE DEF F, g
<1>8. Walks(t, F)
  <2> SUFFICES ASSUME NEW n \in DOMAIN t, NEW S \in SUBSET Labels(t, n)
               PROVE  F[<<n, S>>] = IF n[2] THEN <<n>> ELSE IF S = {} THEN << >>
                                    ELSE F[Inner(t, n, S)] \o F[Rest(n, S)]
    BY DEF Walks
  <2>1. <<n, S>> \in Calls(t) /\ <<n, S>>[1] = n /\ <<n, S>>[2] = S
    BY <1>1
  <2>2. F[<<n, S>>] = Turn(F, <<n, S>>)
    <3> HIDE DEF Turn
    <3> QED  BY <2>1, <1>6
  <2>3. t[n].m_is_leaf = n[2]
    BY NodeFacts
  <2> QED  BY <2>1, <2>2, <2>3
<1> QED  BY <1>7, <1>8

(* The vector of greedy_match() holds the leaves below n, in order. *)
LEMMA GreedyFills ==
  ASSUME NEW t, Tree(t), NEW b, Bounded(t, b), NEW n \in DOMAIN t
  PROVE  Vector(LeavesInOrder(t, n), Under(t, n))
<1>1. PICK f : Walks(t, f) /\ \A m : LeavesInOrder(t, m) = f[<<m, Labels(t, m)>>]
  BY WalkTurns
<1>2. Vector(f[<<n, Labels(t, n)>>], Ahead(t, n, Labels(t, n)))
  BY <1>1, WalkFills
<1> QED  BY <1>1, <1>2, AheadOfAll

(* The leaves whose keys begin with q. *)
Starting(t, q) == {x \in LeafSet(t) : Begins(q, x[1])}

(* h begins q and some key. *)
HeadOf(t, q, h) == h \in Str /\ Begins(h, q) /\ \E y \in LeafSet(t) : Begins(h, y[1])

(* The leaves that share with q the longest prefix that one does. *)
Sharing(t, q) == {x \in LeafSet(t) : \A h \in Str : HeadOf(t, q, h) => Begins(h, x[1])}

(* What a match makes of the node n at which it stops. *)
Stops(t, q, n) ==
  /\ n \in DOMAIN t /\ ~n[2] /\ (n # Root => Begins(Parent(t, n)[1], q))
  /\ Under(t, n) = Sharing(t, q)
  /\ Starting(t, q) = IF Begins(q, n[1]) THEN Under(t, n) ELSE {}

(* Below an internal node are the leaves that begin with its string. *)
LEMMA UnderStarts ==
  ASSUME NEW t, Tree(t), NEW n \in DOMAIN t, ~n[2]
  PROVE  Under(t, n) = Starting(t, n[1])
BY DEF Under, Starting, LeafSet

(* The longest head says which leaves share it. *)
LEMMA LongestHead ==
  ASSUME NEW t, Tree(t), NEW q \in Str, NEW g, HeadOf(t, q, g),
         \A h \in Str : HeadOf(t, q, h) => Begins(h, g)
  PROVE  Sharing(t, q) = Starting(t, g)
<1>1. \A x \in LeafSet(t) : x[1] \in Str
  BY NodeFacts DEF LeafSet
<1>2. ASSUME NEW x \in Sharing(t, q) PROVE x \in Starting(t, g)
  BY <1>2 DEF Sharing, Starting, HeadOf
<1>3. ASSUME NEW x \in Starting(t, g) PROVE x \in Sharing(t, q)
  <2>1. x \in LeafSet(t) /\ Begins(g, x[1]) /\ x[1] \in Str /\ g \in Str
    BY <1>1 DEF Starting, HeadOf
  <2>2. ASSUME NEW h \in Str, HeadOf(t, q, h) PROVE Begins(h, x[1])
    <3>1. Begins(h, g)
      BY <2>2
    <3> QED  BY <3>1, <2>1, BeginsTransitive
  <2> QED  BY <2>1, <2>2 DEF Sharing
<1> QED  BY <1>2, <1>3

(* A match that has found the key goes back to the node above it. *)
LEMMA LeafStops ==
  ASSUME NEW t, Tree(t), NEW q \in Str, NEW m, FoundLeaf(t, q, m)
  PROVE  Stops(t, q, Parent(t, m))
<1> DEFINE n == Parent(t, m)
<1>1. m \in DOMAIN t /\ m[2] /\ m[1] = q /\ m # Root /\ m \in LeafSet(t)
  BY AddressFacts DEF FoundLeaf, LeafSet
<1>2. Filed(t, n, Key(t, m), m)
  BY <1>1, ParentFacts
<1> HIDE DEF n
<1>3. n \in DOMAIN t /\ ~n[2] /\ n[1] \in Str /\ Begins(n[1], q) /\ Len(q) = Len(n[1])
  BY <1>1, <1>2, NulString, StringLength DEF Filed
<1>4. n[1] = q /\ Begins(q, q)
  BY <1>3, BeginsSame, BeginsItself
<1>5. HeadOf(t, q, q)
  BY <1>1, <1>4 DEF HeadOf
<1>6. Sharing(t, q) = Starting(t, q)
  BY <1>5, LongestHead DEF HeadOf
<1>7. Under(t, n) = Starting(t, q)
  BY <1>3, <1>4, UnderStarts
<1>8. n # Root => Begins(Parent(t, n)[1], q)
  <2> SUFFICES ASSUME n # Root PROVE Begins(Parent(t, n)[1], q)
    OBVIOUS
  <2>1. Filed(t, Parent(t, n), Key(t, n), n)
    BY <1>3, ParentFacts
  <2> QED  BY <2>1, <1>4 DEF Filed
<1> QED  BY <1>3, <1>4, <1>6, <1>7, <1>8 DEF Stops, n

(* Every leaf is below the root. *)
LEMMA UnderRoot ==
  ASSUME NEW t, Tree(t)
  PROVE  Under(t, Root) = LeafSet(t)
<1>1. Root[1] = Nul /\ ~Root[2] /\ Len(Nul) = 0
  BY AddressFacts, NulString
<1>2. \A x \in LeafSet(t) : Begins(Nul, x[1])
  <2> TAKE x \in LeafSet(t)
  <2>1. x[1] \in Str
    BY NodeFacts DEF LeafSet
  <2>2. Len(x[1]) \in Nat
    BY <2>1, StringLength
  <2> QED  BY <2>2, <1>1 DEF Begins
<1> QED  BY <1>1, <1>2 DEF Under, LeafSet

(* A leaf that shares more with q than the node at which the way of q ends *)
(* would be on that way.                                                   *)
LEMMA EndOfHeads ==
  ASSUME NEW t, Tree(t), NEW q \in Str, NEW n, FoundEnd(t, q, n), NEW h \in Str, HeadOf(t, q, h)
  PROVE  Begins(h, n[1])
<1>1. n \in DOMAIN t /\ ~n[2] /\ Begins(n[1], q) /\ n[1] \in Str
  BY NodeFacts DEF FoundEnd
<1>2. Len(n[1]) \in Nat /\ Len(h) \in Nat /\ Len(q) \in Nat
  BY <1>1, StringLength
<1>3. PICK y \in LeafSet(t) : Begins(h, y[1])
  BY DEF HeadOf
<1>4. y \in DOMAIN t /\ y[1] \in Str /\ Begins(h, q)
  BY NodeFacts DEF LeafSet, HeadOf
<1>5. CASE Len(h) <= Len(n[1])
  BY <1>1, <1>4, <1>5, BeginsBoth
<1>6. CASE Len(h) > Len(n[1])
  <2>1. Begins(n[1], h)
    BY <1>1, <1>2, <1>4, <1>6, BeginsBoth
  <2>2. Begins(n[1], y[1])
    BY <2>1, <1>1, <1>3, <1>4, BeginsTransitive
  <2>3. Len(n[1]) + 1 \in 1..Len(h) /\ Len(y[1]) > Len(n[1]) /\ Len(q) > Len(n[1])
    <3>1. Len(y[1]) \in Nat
      BY <1>4, StringLength
    <3> QED  BY <3>1, <1>2, <1>3, <1>4, <1>6 DEF Begins
  <2>4. PICK l : /\ Filed(t, n, l, Kid(t, n, l)) /\ l # Nul
                 /\ l[1] = y[1][Len(n[1]) + 1] /\ Begins(Kid(t, n, l)[1], y[1])
    BY <1>1, <1>4, <2>2, <2>3, KidToward
  <2>5. y[1][Len(n[1]) + 1] = q[Len(n[1]) + 1]
    BY <2>3, <1>3, <1>4 DEF Begins
  <2>6. l \in Labels(t, n) /\ l[1] = q[Len(n[1]) + 1]
    BY <2>4, <2>5 DEF Filed
  <2> QED  BY <2>3, <2>4, <2>6, EndIsNew
<1> QED  BY <1>2, <1>5, <1>6

(* The string above the node where the way of q ends begins q. *)
LEMMA ParentOfEnd ==
  ASSUME NEW t, Tree(t), NEW q \in Str, NEW n, FoundEnd(t, q, n), n # Root
  PROVE  Begins(Parent(t, n)[1], q)
<1>1. n \in DOMAIN t /\ Begins(n[1], q)
  BY DEF FoundEnd
<1>2. Filed(t, Parent(t, n), Key(t, n), n)
  BY <1>1, ParentFacts
<1> QED  BY <1>1, <1>2, BeginsTransitive DEF Filed

(* A match that ends at a node. *)
LEMMA EndStops ==
  ASSUME NEW t, Tree(t), NoBare(t), NEW b, Bounded(t, b), NEW q \in Str,
         NEW n, FoundEnd(t, q, n)
  PROVE  Stops(t, q, n)
<1>1. n \in DOMAIN t /\ ~n[2] /\ Begins(n[1], q) /\ n[1] \in Str
  BY NodeFacts DEF FoundEnd
<1>2. Under(t, n) = Starting(t, n[1])
  BY <1>1, UnderStarts
<1>3. Under(t, n) = Sharing(t, q)
  <2>1. CASE Labels(t, n) = {}
    <3>1. n = Root
      BY <1>1, <2>1 DEF NoBare, Bare
    <3>2. Under(t, n) = {}
      BY <1>1, <2>1, UnderSplits
    <3>3. LeafSet(t) = {}
      BY <3>1, <3>2, UnderRoot
    <3> QED  BY <3>2, <3>3 DEF Sharing
  <2>2. CASE Labels(t, n) # {}
    <3>1. FirstUnder(t, n, Leftmost(t, n))
      BY <1>1, <2>2, LeftmostFirst
    <3>2. PICK x : x \in Under(t, n)
      BY <3>1 DEF FirstUnder
    <3>3. HeadOf(t, q, n[1])
      BY <3>2, <1>1, <1>2 DEF HeadOf, Starting
    <3>4. \A h \in Str : HeadOf(t, q, h) => Begins(h, n[1])
      BY EndOfHeads
    <3>5. Sharing(t, q) = Starting(t, n[1])
      BY <3>3, <3>4, LongestHead
    <3> QED  BY <3>5, <1>2
  <2> QED  BY <2>1, <2>2
<1>4. CASE Begins(q, n[1])
  <2>1. q = n[1]
    BY <1>1, <1>4, BeginsSame DEF Begins
  <2>2. Starting(t, q) = Under(t, n)
    BY <2>1, <1>2
  <2> QED  BY <2>2, <1>1, <1>3, <1>4, ParentOfEnd DEF Stops
<1>5. CASE ~Begins(q, n[1])
  <2>1. ASSUME NEW x \in Starting(t, q) PROVE FALSE
    <3>1. HeadOf(t, q, q)
      BY <2>1, BeginsItself DEF HeadOf, Starting
    <3> QED  BY <3>1, <1>5, EndOfHeads
  <2> QED  BY <2>1, <1>1, <1>3, <1>5, ParentOfEnd DEF Stops
<1> QED  BY <1>4, <1>5

(* A match that leaves a label before its end. *)
LEMMA ForkStops ==
  ASSUME NEW t, Tree(t), NoBare(t), NEW b, Bounded(t, b), NEW q \in Str,
         NEW n, FoundFork(t, q, n)
  PROVE  Stops(t, q, n)
<1> DEFINE p == Parent(t, n)
           k == Key(t, n)
<1>1. /\ n \in DOMAIN t /\ ~n[2] /\ n # Root /\ ~Begins(n[1], q)
      /\ Begins(p[1], q) /\ Len(p[1]) < Len(q) /\ k[1] = q[Len(p[1]) + 1]
  BY DEF FoundFork
<1>2. Filed(t, p, k, n)
  BY <1>1, ParentFacts
<1>a. p = Parent(t, n)
  OBVIOUS
<1> HIDE DEF p, k
<1>3. p \in DOMAIN t /\ ~p[2] /\ p[1] \in Str /\ n[1] \in Str /\ k # Nul /\ Begins(p[1], n[1])
  BY <1>1, <1>2 DEF Filed
<1>4. Len(p[1]) \in Nat /\ Len(q) \in Nat
  BY <1>3, StringLength
<1>5. Under(t, n) = Starting(t, n[1])
  BY <1>1, UnderStarts
<1>6. ASSUME NEW h \in Str, Begins(h, q), Len(h) > Len(p[1]), NEW y \in LeafSet(t), Begins(h, y[1])
      PROVE  Begins(n[1], y[1])
  <2>1. y \in DOMAIN t /\ y[1] \in Str /\ Len(y[1]) \in Nat /\ Len(h) \in Nat
    BY <1>6, NodeFacts, StringLength DEF LeafSet
  <2>2. Begins(p[1], h)
    BY <1>1, <1>3, <1>4, <1>6, <2>1, BeginsBoth
  <2>3. Begins(p[1], y[1])
    BY <2>1, <2>2, <1>3, <1>6, BeginsTransitive
  <2>4. Len(y[1]) > Len(p[1]) /\ Len(p[1]) + 1 \in 1..Len(h)
    BY <2>1, <1>4, <1>6 DEF Begins
  <2>5. y[1][Len(p[1]) + 1] = k[1]
    BY <2>4, <1>1, <1>6 DEF Begins
  <2> QED  BY <2>1, <2>3, <2>4, <2>5, <1>2, <1>3, OnlyThrough
<1>7. PICK x : x \in Under(t, n)
  <2>1. Labels(t, n) # {}
    BY <1>1 DEF NoBare, Bare
  <2>2. FirstUnder(t, n, Leftmost(t, n))
    BY <1>1, <2>1, LeftmostFirst
  <2> QED  BY <2>2 DEF FirstUnder
<1>8. ASSUME NEW y \in Under(t, n), NEW h \in Str, HeadOf(t, q, h) PROVE Begins(h, y[1])
  <2>1. y \in LeafSet(t) /\ Begins(n[1], y[1]) /\ y[1] \in Str /\ Len(h) \in Nat /\ Begins(h, q)
    BY <1>5, <1>8, NodeFacts, StringLength DEF Starting, HeadOf, LeafSet
  <2>2. CASE Len(h) <= Len(p[1])
    <3>1. Begins(h, p[1])
      BY <2>1, <2>2, <1>1, <1>3, BeginsBoth
    <3>2. Begins(p[1], y[1])
      BY <2>1, <1>3, BeginsTransitive
    <3> QED  BY <3>1, <3>2, <2>1, <1>3, BeginsTransitive
  <2>3. CASE Len(h) > Len(p[1])
    <3>1. PICK z \in LeafSet(t) : Begins(h, z[1])
      BY <1>8 DEF HeadOf
    <3>2. Begins(n[1], z[1]) /\ z[1] \in Str
      BY <3>1, <2>1, <2>3, <1>6, NodeFacts DEF LeafSet
    <3>3. CASE Len(h) <= Len(n[1])
      <4>1. Begins(h, n[1])
        BY <3>1, <3>2, <3>3, <1>3, BeginsBoth
      <4> QED  BY <4>1, <2>1, <1>3, BeginsTransitive
    <3>4. CASE Len(h) > Len(n[1])
      <4>1. Len(n[1]) <= Len(h)
        BY <3>4, <2>1, <1>3, StringLength
      <4>2. Begins(n[1], h)
        BY <4>1, <3>1, <3>2, <1>3, BeginsBoth
      <4>3. Begins(n[1], q)
        BY <4>2, <2>1, <1>3, BeginsTransitive
      <4> QED  BY <4>3, <1>1
    <3>5. Len(n[1]) \in Nat
      BY <1>3, StringLength
    <3> QED  BY <3>3, <3>4, <3>5, <2>1
  <2> QED  BY <2>1, <2>2, <2>3, <1>4
<1>9. ASSUME NEW y \in Sharing(t, q) PROVE y \in Under(t, n)
  <2> DEFINE h == SubSeq(q, 1, Len(p[1]) + 1)
  <2>1. h \in Str /\ Len(h) = Len(p[1]) + 1 /\ \A i \in 1..Len(h) : h[i] = q[i]
    <3>1. q \in Seq(Nat) /\ Len(p[1]) + 1 \in 1..Len(q)
      BY <1>1, <1>4 DEF Str
    <3> QED  BY <3>1, <1>4 DEF Str
  <2> HIDE DEF h
  <2>2. Begins(h, q) /\ Len(h) > Len(p[1])
    BY <2>1, <1>1, <1>4 DEF Begins
  <2>3. x \in LeafSet(t) /\ Begins(n[1], x[1]) /\ x[1] \in Str /\ Len(n[1]) \in Nat
    BY <1>3, <1>5, <1>7, NodeFacts, StringLength DEF Starting, LeafSet
  <2>4. Begins(h, n[1])
    <3>1. Len(n[1]) = Len(p[1]) + Len(k) /\ k \in Str /\ \A i \in 1..Len(k) : n[1][Len(p[1]) + i] = k[i]
      BY <1>2 DEF Filed
    <3>2. Len(k) \in Nat /\ Len(k) > 0
      BY <3>1, <1>3, NulString, StringLength
    <3>3. n[1][Len(p[1]) + 1] = k[1]
      BY <3>1, <3>2
    <3>4. \A i \in 1..Len(p[1]) : n[1][i] = q[i]
      BY <1>1, <1>3 DEF Begins
    <3> QED  BY <3>1, <3>2, <3>3, <3>4, <2>1, <1>1, <1>4 DEF Begins
  <2>5. Begins(h, x[1])
    BY <2>1, <2>3, <2>4, <1>3, BeginsTransitive
  <2>6. Begins(h, y[1]) /\ y \in LeafSet(t)
    BY <2>1, <2>2, <2>3, <2>5, <1>9 DEF Sharing, HeadOf
  <2>7. Begins(n[1], y[1])
    BY <2>1, <2>2, <2>6, <1>6
  <2> QED  BY <2>6, <2>7, <1>5 DEF Starting
<1>10. Under(t, n) = Sharing(t, q)
  <2>1. \A y \in Under(t, n) : y \in LeafSet(t)
    BY <1>5 DEF Starting
  <2>2. \A y \in Under(t, n) : y \in Sharing(t, q)
    BY <2>1, <1>8 DEF Sharing
  <2> QED  BY <2>2, <1>9
<1>11. \A y \in Starting(t, q) : Begins(n[1], y[1]) /\ y \in LeafSet(t) /\ Begins(q, y[1]) /\ y[1] \in Str
  <2> TAKE y \in Starting(t, q)
  <2>1. y \in LeafSet(t) /\ Begins(q, y[1]) /\ y[1] \in Str
    BY NodeFacts DEF Starting, LeafSet
  <2>2. Begins(n[1], y[1])
    BY <2>1, <1>1, <1>6, BeginsItself
  <2> QED  BY <2>1, <2>2
<1>12. CASE Begins(q, n[1])
  <2>1. ASSUME NEW y \in Under(t, n) PROVE y \in Starting(t, q)
    <3>1. y \in LeafSet(t) /\ Begins(n[1], y[1]) /\ y[1] \in Str
      BY <1>5, NodeFacts DEF Starting, LeafSet
    <3>2. Begins(q, y[1])
      BY <3>1, <1>3, <1>12, BeginsTransitive
    <3> QED  BY <3>1, <3>2 DEF Starting
  <2>2. Starting(t, q) = Under(t, n)
    BY <2>1, <1>5, <1>11 DEF Starting
  <2> QED  BY <2>2, <1>1, <1>10, <1>12, <1>a DEF Stops
<1>13. CASE ~Begins(q, n[1])
  <2>1. ASSUME NEW y \in Starting(t, q) PROVE FALSE
    <3>1. Begins(n[1], y[1]) /\ Begins(q, y[1]) /\ y[1] \in Str
      BY <1>11
    <3>2. Len(q) <= Len(n[1]) \/ Len(n[1]) <= Len(q)
      BY <1>3, StringLength
    <3>3. Begins(q, n[1]) \/ Begins(n[1], q)
      BY <3>1, <3>2, <1>3, BeginsBoth
    <3> QED  BY <3>3, <1>1, <1>13
  <2> QED  BY <2>1, <1>1, <1>10, <1>13, <1>a DEF Stops
<1> QED  BY <1>12, <1>13

(* prefix_match() compares what is left of q with the label of n. *)
LEMMA PrefixTest ==
  ASSUME NEW t, Tree(t), NEW q \in Str, NEW n, Stops(t, q, n)
  PROVE  LET len == Len(q) - t[n].m_depth
         IN  Substr(q, t[n].m_depth, len) = Substr(t[n].m_key, 0, len) <=> Begins(q, n[1])
<1>1. n \in DOMAIN t /\ ~n[2] /\ (n # Root => Begins(Parent(t, n)[1], q)) /\ n[1] \in Str
  BY NodeFacts DEF Stops
<1>2. Len(q) \in Nat /\ Len(n[1]) \in Nat
  BY <1>1, StringLength
<1>3. ASSUME NEW a \in Str, NEW k \in Str, Begins(a, q), n[1] = a \o k,
             t[n].m_depth = Len(a), t[n].m_key = k
      PROVE  LET len == Len(q) - t[n].m_depth
             IN  Substr(q, t[n].m_depth, len) = Substr(t[n].m_key, 0, len) <=> Begins(q, n[1])
  <2> DEFINE len == Len(q) - Len(a)
             rest == Substr(q, Len(a), len)
             front == Substr(k, 0, len)
  <2>1. Len(a) \in Nat /\ Len(k) \in Nat /\ len \in Nat /\ Len(a) <= Len(q)
    BY <1>2, <1>3, StringLength DEF Begins
  <2>2. /\ rest \in Str /\ Len(rest) = len
        /\ \A i \in 1..len : rest[i] = q[Len(a) + i]
    BY <1>3, RestOf
  <2>3. /\ front \in Str /\ Len(front) = IF len <= Len(k) THEN len ELSE Len(k)
        /\ \A i \in 1..Len(front) : front[i] = k[i]
    <3>1. 0 \in 0..Len(k)
      BY <2>1
    <3> HIDE DEF len
    <3>2. /\ front \in Str /\ Len(front) = IF 0 + len <= Len(k) THEN len ELSE Len(k) - 0
          /\ \A i \in 1..Len(front) : front[i] = k[0 + i]
      BY <3>1, <2>1, SubstrFacts
    <3> HIDE DEF front
    <3>3. \A i \in 1..Len(front) : 0 + i = i
      BY <2>1
    <3> QED  BY <3>2, <3>3, <2>1
  <2>4. /\ Len(n[1]) = Len(a) + Len(k)
        /\ \A i \in 1..Len(a) : n[1][i] = a[i]
        /\ \A i \in 1..Len(k) : n[1][Len(a) + i] = k[i]
    BY <1>3, Joined
  <2>a. len = Len(q) - Len(a)
    OBVIOUS
  <2> HIDE DEF rest, front, len
  <2>5. ASSUME rest = front PROVE Begins(q, n[1])
    <3>1. len <= Len(k) /\ Len(front) = len
      BY <2>1, <2>2, <2>3, <2>5
    <3>2. ASSUME NEW i \in 1..Len(q) PROVE q[i] = n[1][i]
      <4>1. CASE i <= Len(a)
        <5>1. i \in 1..Len(a)
          BY <4>1, <2>1, <1>2
        <5> QED  BY <5>1, <1>3, <2>4 DEF Begins
      <4>2. CASE i > Len(a)
        <5> DEFINE j == i - Len(a)
        <5>1. j \in 1..len /\ j \in 1..Len(k) /\ i = Len(a) + j
          BY <4>2, <3>1, <2>1, <2>a, <1>2
        <5> HIDE DEF j
        <5>2. q[i] = rest[j] /\ rest[j] = k[j]
          BY <5>1, <3>1, <2>2, <2>3, <2>5
        <5> QED  BY <5>1, <5>2, <2>4
      <4> QED  BY <4>1, <4>2, <2>1, <1>2
    <3>3. Len(q) <= Len(n[1])
      BY <3>1, <2>1, <2>4, <2>a, <1>2
    <3> QED  BY <3>2, <3>3 DEF Begins
  <2>6. ASSUME Begins(q, n[1]) PROVE rest = front
    <3>1. len <= Len(k) /\ Len(front) = len
      BY <2>1, <2>3, <2>4, <2>6, <2>a, <1>2 DEF Begins
    <3>2. ASSUME NEW i \in 1..Len(rest) PROVE rest[i] = front[i]
      <4>1. /\ i \in 1..len /\ i \in 1..Len(k) /\ i \in 1..Len(front)
            /\ Len(a) + i \in 1..Len(q)
        BY <3>1, <2>1, <2>2, <2>a, <1>2
      <4>2. q[Len(a) + i] = n[1][Len(a) + i]
        BY <4>1, <2>6 DEF Begins
      <4> QED  BY <4>1, <4>2, <2>2, <2>3, <2>4
    <3> QED  BY <3>1, <3>2, <2>2, <2>3, SameString
  <2>7. rest = front <=> Begins(q, n[1])
    BY <2>5, <2>6
  <2> QED  BY <2>7, <1>3 DEF rest, front, len
<1>4. CASE n = Root
  <2>1. t[n].m_depth = 0 /\ t[n].m_key = Nul /\ n[1] = Nul
    BY <1>1, <1>4, TreeParts, AddressFacts DEF Hangs
  <2>2. Nul \in Str /\ Len(Nul) = 0 /\ Nul = Nul \o Nul
    BY NulString
  <2>3. Begins(Nul, q)
    BY <2>2, <1>2 DEF Begins
  <2> QED  BY <2>1, <2>2, <2>3, <1>3
<1>5. CASE n # Root
  <2> DEFINE p == Parent(t, n)
             k == Key(t, n)
  <2>1. Filed(t, p, k, n)
    BY <1>1, <1>5, ParentFacts
  <2>2. /\ p[1] \in Str /\ k \in Str /\ n[1] = p[1] \o k /\ t[n].m_depth = Len(p[1])
        /\ Begins(p[1], q)
    BY <2>1, <1>1, <1>5 DEF Filed
  <2>3. t[n].m_key = k
    BY DEF Key
  <2> HIDE DEF p, k
  <2> QED  BY <2>2, <2>3, <1>3
<1> QED  BY <1>4, <1>5

(* A match ends where the longest head of the query does. *)
LEMMA StemStops ==
  ASSUME Tree(node), NoBare(node), NEW b, Bounded(node, b), NEW q \in Str
  PROVE  Stops(node, q, Stem(q))
<1> DEFINE m == FindNode(node, q)
<1>1. Found(node, q, m)
  BY FindFound
<1>2. Stem(q) = IF node[m].m_is_leaf THEN Parent(node, m) ELSE m
  BY DEF Stem, Parent
<1> HIDE DEF m
<1>3. m \in DOMAIN node /\ node[m].m_is_leaf = m[2]
  <2>1. m \in DOMAIN node
    BY <1>1 DEF Found, FoundLeaf, FoundEnd, FoundFork
  <2> QED  BY <2>1, NodeFacts
<1>4. CASE FoundLeaf(node, q, m)
  <2>1. Stem(q) = Parent(node, m)
    BY <1>2, <1>3, <1>4 DEF FoundLeaf
  <2> QED  BY <2>1, <1>4, LeafStops
<1>5. CASE FoundEnd(node, q, m)
  <2>1. Stem(q) = m
    BY <1>2, <1>3, <1>5 DEF FoundEnd
  <2> QED  BY <2>1, <1>5, EndStops
<1>6. CASE FoundFork(node, q, m)
  <2>1. Stem(q) = m
    BY <1>2, <1>3, <1>6 DEF FoundFork
  <2> QED  BY <2>1, <1>6, ForkStops
<1> QED  BY <1>1, <1>4, <1>5, <1>6 DEF Found

(* What the two matches put into the vector. *)
LEMMA MatchVectors ==
  ASSUME TreeInv, NEW q \in Str
  PROVE  /\ Vector(PrefixMatch(q), Starting(node, q))
         /\ Vector(GreedyMatch(q), Sharing(node, q))
<1>1. Shape(m_root, node)
  BY DEF TreeInv
<1>2. CASE m_root = NullNode
  <2>1. LeafSet(node) = {}
    BY <1>1, <1>2, ShapeFacts
  <2>2. Starting(node, q) = {} /\ Sharing(node, q) = {}
    BY <2>1 DEF Starting, Sharing
  <2>3. PrefixMatch(q) = << >> /\ GreedyMatch(q) = << >>
    BY <1>2 DEF PrefixMatch, GreedyMatch
  <2> QED  BY <2>2, <2>3, VectorOfFew
<1>3. CASE m_root # NullNode
  <2> DEFINE n == Stem(q)
             len == Len(q) - node[n].m_depth
             same == Substr(q, node[n].m_depth, len) = Substr(node[n].m_key, 0, len)
  <2>1. Tree(node) /\ NoBare(node)
    BY <1>1, <1>3, ShapeFacts
  <2>2. PICK b : Bounded(node, b)
    BY DEF TreeInv
  <2>3. Stops(node, q, n)
    BY <2>1, <2>2, StemStops
  <2>4. same <=> Begins(q, n[1])
    BY <2>1, <2>3, PrefixTest
  <2>5. /\ PrefixMatch(q) = IF same THEN LeavesInOrder(node, n) ELSE << >>
        /\ GreedyMatch(q) = LeavesInOrder(node, n)
    BY <1>3 DEF PrefixMatch, GreedyMatch
  <2> HIDE DEF n, same
  <2>6. /\ n \in DOMAIN node /\ Under(node, n) = Sharing(node, q)
        /\ Starting(node, q) = IF Begins(q, n[1]) THEN Under(node, n) ELSE {}
    BY <2>3 DEF Stops
  <2>7. Vector(LeavesInOrder(node, n), Under(node, n))
    BY <2>1, <2>2, <2>6, GreedyFills
  <2> QED  BY <2>4, <2>5, <2>6, <2>7, VectorOfFew
<1> QED  BY <1>2, <1>3

(* The keys of a vector. *)
LEMMA KeysOfVector ==
  ASSUME TreeInv, NEW A \in SUBSET LeafSet(node), NEW s, Vector(s, A)
  PROVE  InOrder(KeysOf(s)) /\ ToSet(KeysOf(s)) = {x[1] : x \in A}
<1>1. \A n \in LeafSet(node) : node[n].m_value.first = n[1]
  <2> TAKE n \in LeafSet(node)
  <2>1. n \in DOMAIN node /\ n[2] /\ LeafOK(node, n)
    BY ShapeFacts DEF TreeInv, LeafSet
  <2>2. node[n].m_value = Pair(n[1], node[n].m_value.second)
    BY <2>1 DEF LeafOK
  <2> QED  BY <2>2 DEF Pair
<1>2. s \in Seq(A) /\ Len(s) \in Nat /\ \A i \in 1..Len(s) : s[i] \in A
  BY DEF Vector
<1> DEFINE w == KeysOf(s)
<1>3. w = [i \in 1..Len(s) |-> s[i][1]]
  BY <1>1, <1>2 DEF KeysOf
<1>4. DOMAIN w = 1..Len(s) /\ Len(w) = Len(s) /\ \A i \in 1..Len(s) : w[i] = s[i][1]
  <2>1. DOMAIN w = 1..Len(s) /\ \A i \in 1..Len(s) : w[i] = s[i][1]
    BY <1>3
  <2>2. Len(w) = Len(s)
    BY <2>1, <1>2
  <2> QED  BY <2>1, <2>2
<1> HIDE DEF w
<1>5. InOrder(w)
  <2> SUFFICES ASSUME NEW i \in 1..Len(w) - 1 PROVE LexLess(w[i], w[i + 1])
    BY DEF InOrder
  <2>1. i \in 1..Len(s) /\ i + 1 \in 1..Len(s) /\ i < i + 1
    BY <1>2, <1>4
  <2>2. LexLess(s[i][1], s[i + 1][1])
    BY <2>1 DEF Vector
  <2> QED  BY <2>1, <2>2, <1>4
<1>6. ASSUME NEW y \in ToSet(w) PROVE y \in {x[1] : x \in A}
  <2>1. PICK i \in 1..Len(s) : y = w[i]
    BY <1>4, <1>6 DEF ToSet
  <2> QED  BY <2>1, <1>2, <1>4
<1>7. ASSUME NEW x \in A PROVE x[1] \in ToSet(w)
  <2>1. PICK i \in 1..Len(s) : s[i] = x
    BY DEF Vector
  <2>2. w[i] = x[1] /\ i \in DOMAIN w
    BY <2>1, <1>4
  <2> QED  BY <2>2 DEF ToSet
<1> QED  BY <1>5, <1>6, <1>7 DEF w

(* IsPrefix is about the beginnings of strings, *)
LEMMA IsPrefixIs ==
  ASSUME NEW a \in Str, NEW b \in Str
  PROVE  IsPrefix(a, b) <=> Begins(a, b)
<1>1. Map!IsPrefix(a, b) <=> Begins(a, b)
  BY PrefixIs
<1> QED  BY <1>1 DEF Map!IsPrefix, IsPrefix

(* and so is Prefixes. *)
LEMMA PrefixesAre ==
  ASSUME NEW q \in Str
  PROVE  \A p : p \in Prefixes(q) <=> p \in Str /\ Begins(p, q)
<1>1. Len(q) \in Nat /\ q \in Seq(Nat)
  BY DEF Str
<1>2. \A l \in 0..Len(q) : /\ SubSeq(q, 1, l) \in Str /\ Len(SubSeq(q, 1, l)) = l
                           /\ \A i \in 1..l : SubSeq(q, 1, l)[i] = q[i]
  <2> TAKE l \in 0..Len(q)
  <2> QED  BY <1>1 DEF Str
<1>3. ASSUME NEW p \in Prefixes(q) PROVE p \in Str /\ Begins(p, q)
  <2>1. PICK l \in 0..Len(q) : p = SubSeq(q, 1, l)
    BY <1>3 DEF Prefixes
  <2>2. p \in Str /\ Len(p) = l /\ \A i \in 1..l : p[i] = q[i]
    BY <2>1, <1>2
  <2> QED  BY <2>2, <1>1 DEF Begins
<1>4. ASSUME NEW p \in Str, Begins(p, q) PROVE p \in Prefixes(q)
  <2>1. Len(p) \in 0..Len(q) /\ \A i \in 1..Len(p) : p[i] = q[i]
    BY <1>1, <1>4, StringLength DEF Begins
  <2> DEFINE s == SubSeq(q, 1, Len(p))
  <2>2. s \in Str /\ Len(s) = Len(p) /\ \A i \in 1..Len(s) : s[i] = p[i]
    BY <2>1, <1>2
  <2>3. s = p
    <3> HIDE DEF s
    <3> QED  BY <2>2, SameString
  <2> QED  BY <2>1, <2>3 DEF Prefixes
<1> QED  BY <1>3, <1>4

(* What is stored are the strings of the leaves. *)
LEMMA StoredAre ==
  ASSUME TreeInv
  PROVE  Stored = {x[1] : x \in LeafSet(node)}
<1>1. \A n \in LeafSet(node) : node[n].m_value.first = n[1]
  <2> TAKE n \in LeafSet(node)
  <2>1. n \in DOMAIN node /\ n[2] /\ LeafOK(node, n)
    BY ShapeFacts DEF TreeInv, LeafSet
  <2>2. node[n].m_value = Pair(n[1], node[n].m_value.second)
    BY <2>1 DEF LeafOK
  <2> QED  BY <2>2 DEF Pair
<1>2. Stored = {node[n].m_value.first : n \in LeafSet(node)}
  BY LeavesAre DEF Stored
<1> QED  BY <1>1, <1>2

(* The invariant implies that the matches are right. *)
LEMMA MatchesHold == TreeInv => MatchesCorrect
<1> SUFFICES ASSUME TreeInv PROVE MatchesCorrect
  OBVIOUS
<1>1. \A x \in LeafSet(node) : x[1] \in Str
  BY LeafAddress, ShapeFacts DEF TreeInv
<1>2. Stored = {x[1] : x \in LeafSet(node)}
  BY StoredAre
<1>3. ASSUME NEW q \in Queries
      PROVE  LET heads == {p \in Prefixes(q) : \E k \in Stored : IsPrefix(p, k)}
             IN  /\ {x[1] : x \in Starting(node, q)} = {k \in Stored : IsPrefix(q, k)}
                 /\ {x[1] : x \in Sharing(node, q)}
                      = {k \in Stored : \A p \in heads : IsPrefix(p, k)}
  <2> DEFINE heads == {p \in Prefixes(q) : \E k \in Stored : IsPrefix(p, k)}
  <2>1. q \in Str
    BY KeysAreStrings
  <2>2. \A x \in LeafSet(node) : IsPrefix(q, x[1]) <=> Begins(q, x[1])
    BY <2>1, <1>1, IsPrefixIs
  <2>3. {x[1] : x \in Starting(node, q)} = {k \in Stored : IsPrefix(q, k)}
    BY <2>2, <1>2 DEF Starting
  <2>4. \A p \in Str, x \in LeafSet(node) : IsPrefix(p, x[1]) <=> Begins(p, x[1])
    BY <1>1, IsPrefixIs
  <2>5. \A p : p \in heads <=> p \in Str /\ HeadOf(node, q, p)
    <3> TAKE p
    <3>1. p \in Prefixes(q) <=> p \in Str /\ Begins(p, q)
      BY <2>1, PrefixesAre
    <3>2. p \in Str => ((\E k \in Stored : IsPrefix(p, k)) <=> \E y \in LeafSet(node) : Begins(p, y[1]))
      BY <2>4, <1>2
    <3> QED  BY <3>1, <3>2 DEF HeadOf
  <2> HIDE DEF heads
  <2>6. \A x \in LeafSet(node) :
          x \in Sharing(node, q) <=> \A p \in heads : IsPrefix(p, x[1])
    BY <2>4, <2>5 DEF Sharing
  <2>7. \A x \in Sharing(node, q) : x \in LeafSet(node)
    BY DEF Sharing
  <2>8. {x[1] : x \in Sharing(node, q)} = {k \in Stored : \A p \in heads : IsPrefix(p, k)}
    BY <2>6, <2>7, <1>2
  <2> QED  BY <2>3, <2>8 DEF heads
<1>4. ASSUME NEW q \in Queries
      PROVE  /\ InOrder(KeysOf(PrefixMatch(q))) /\ InOrder(KeysOf(GreedyMatch(q)))
             /\ ToSet(KeysOf(PrefixMatch(q))) = {x[1] : x \in Starting(node, q)}
             /\ ToSet(KeysOf(GreedyMatch(q))) = {x[1] : x \in Sharing(node, q)}
  <2>1. q \in Str
    BY KeysAreStrings
  <2>2. Starting(node, q) \in SUBSET LeafSet(node) /\ Sharing(node, q) \in SUBSET LeafSet(node)
    BY DEF Starting, Sharing
  <2> QED  BY <2>1, <2>2, MatchVectors, KeysOfVector
<1> QED  BY <1>3, <1>4, Zenon DEF MatchesCorrect

(* prefix_match() answers the keys with the prefix, and greedy_match()     *)
(* those that share the longest prefix with the query, each once and in    *)
(* order, after any sequence of calls and for strings of any length.       *)
THEOREM MatchesSafe == TreeSpec => []MatchesCorrect
<1>1. TreeInv => MatchesCorrect
  BY MatchesHold
<1> QED  BY <1>1, TreeInvariant, PTL
=============================================================================
