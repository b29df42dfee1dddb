------------------------------ MODULE RadixTree ------------------------------
(***************************************************************************)
(* RadixTree<std::string, T> (radix_tree.hpp, radix_tree_node.hpp,         *)
(* radix_tree_iterator.hpp) with one iterator held by a client.            *)
(*                                                                         *)
(* The heap is the function node from addresses to node records.  An       *)
(* address is <<string, isLeaf>>: the string the node stands for when it   *)
(* is allocated.  Nothing reads an address but through the pointers, as in *)
(* the code; that a node keeps standing for that string while its m_depth, *)
(* m_key and m_parent are rewritten is the checked invariant PathsAgree.   *)
(* A call whose assert fails sets aborted and ends the program.            *)
(***************************************************************************)
EXTENDS LexOrder

CONSTANTS
  Keys,     \* the keys the client stores, finds and erases
  Queries,  \* the strings it matches against the stored keys
  Values, Default,
  NullNode,     \* the null pointer and the iterator end()
  ABORT     \* the outcome of a function whose assert fails

(* Where a node can be: nothing else is a pointer to one. *)
Address == Seq(Nat) \X BOOLEAN

ASSUME RadixTreeAssumption ==
  /\ Keys \subseteq Queries
  /\ \A k \in Queries : k \in Seq(Nat)
  /\ Default \in Values
  /\ {NullNode, ABORT} \cap (Address \cup Keys) = {} /\ NullNode # ABORT

VARIABLES
  m_root, m_size,
  node,     \* the heap: address -> RadixTreeNode
  it,       \* m_pointee of the client's iterator
  aborted

treeVars == <<m_root, m_size, node, it, aborted>>

Root == <<Nul, FALSE>>
NoChildren == [label \in {} |-> NullNode]

(* new RadixTreeNode: the fields as the code around each `new` sets them   *)
TreeNode(parent, depth, key, leaf, val) ==
  [m_children |-> NoChildren, m_parent |-> parent, m_value |-> val,
   m_depth |-> depth, m_is_leaf |-> leaf, m_key |-> key]

Pair(k, v) == [first |-> k, second |-> v]
-----------------------------------------------------------------------------
(* Reading and editing a heap t. *)

Labels(t, n) == DOMAIN t[n].m_children
Children(t, n) == {t[n].m_children[label] : label \in Labels(t, n)}

(* map[x] = v *)
Put(map, x, v) == [y \in DOMAIN map \cup {x} |-> IF y = x THEN v ELSE map[y]]

(* t[p].m_children[label] = n, and t[p].m_children.erase(label)            *)
Link(t, p, label, n) == [t EXCEPT ![p].m_children = Put(@, label, n)]
Unlink(t, p, label) ==
  [t EXCEPT ![p].m_children = Restrict(@, DOMAIN @ \ {label})]

(* The node n goes to another parent, or to another depth below it. *)
Moved(t, n, parent, depth, key) ==
  [t EXCEPT ![n].m_depth = depth, ![n].m_parent = parent, ![n].m_key = key]

Add(t, n, rec) == Link(Put(t, n, rec), rec.m_parent, rec.m_key, n)

Subtree(t, n) ==
  LET below[m \in DOMAIN t] == {m} \cup UNION {below[c] : c \in Children(t, m)}
  IN  below[n]

(* delete n: ~RadixTreeNode() deletes the children first *)
Free(t, n) == Restrict(t, DOMAIN t \ Subtree(t, n))
-----------------------------------------------------------------------------
(* The labels at n among which find_node() looks for the rest of key.      *)
Hits(t, key, n, depth) ==
  LET leaf(label) == t[t[n].m_children[label]].m_is_leaf
  IN  IF Len(key) = depth THEN {l \in Labels(t, n) : leaf(l)}
      ELSE {l \in Labels(t, n) : ~leaf(l) /\ l[1] = key[depth + 1]}

(* find_node(): the leaf for key; otherwise the node inside or below which *)
(* key would branch off.                                                   *)
FindNode(t, key) ==
  LET find[call \in (DOMAIN t) \X Nat] ==
        LET n == call[1]
            depth == call[2]
            hits == Hits(t, key, n, depth)
            l1 == First(hits)
            child == t[n].m_children[l1]
        IN  IF hits = {} THEN n
            ELSE IF Len(key) > depth /\ Substr(key, depth, Len(l1)) = l1
                 THEN find[<<child, depth + Len(l1)>>]
                 ELSE child
  IN  find[<<Root, 0>>]

(* begin(node) and descend(): the first leaf below n *)
Leftmost(t, n) ==
  LET first[m \in DOMAIN t] ==
        IF t[m].m_is_leaf THEN m
        ELSE IF Children(t, m) = {} THEN ABORT
             ELSE first[t[m].m_children[First(Labels(t, m))]]
  IN  first[n]

(* The siblings behind n. *)
Later(t, n) == {l \in Labels(t, t[n].m_parent) : LexLess(t[n].m_key, l)}

NextSibling(t, n) ==
  Leftmost(t, t[t[n].m_parent].m_children[First(Later(t, n))])

AfterStopsAtParent(t, n) ==                       \* mutant of After
  IF Later(t, n) = {} THEN NullNode ELSE NextSibling(t, n)

(* increment(): the leaf after n, climbing while n is a last child *)
After(t, n) ==
  LET climb[m \in DOMAIN t] ==
        LET p == t[m].m_parent
        IN  IF p = NullNode THEN NullNode
            ELSE IF t[m].m_key \notin Labels(t, p) THEN ABORT
            ELSE IF Later(t, m) = {} THEN climb[p]
                 ELSE NextSibling(t, m)
  IN  climb[n]

(* A call of greedy_match(node, vec) and the labels its loop has yet to go *)
(* through.                                                                *)
Calls(t) == UNION {{m} \X SUBSET Labels(t, m) : m \in DOMAIN t}

(* greedy_match(node, vec): the leaves below n in the order of the maps *)
LeavesInOrder(t, n) ==
  LET walk[call \in Calls(t)] ==
        LET m == call[1]
            label == First(call[2])
            child == t[m].m_children[label]
        IN  IF t[m].m_is_leaf THEN <<m>>
            ELSE IF call[2] = {} THEN << >>
            ELSE walk[<<child, Labels(t, child)>>] \o walk[<<m, call[2] \ {label}>>]
  IN  walk[<<n, Labels(t, n)>>]

StemKeepsLeaf(key) == FindNode(node, key)         \* mutant of Stem

(* The internal node at which a match of key ends. *)
Stem(key) == LET n == FindNode(node, key)
             IN  IF node[n].m_is_leaf THEN node[n].m_parent ELSE n

Find(key) == LET n == FindNode(node, key)
             IN  IF m_root # NullNode /\ node[n].m_is_leaf THEN n ELSE NullNode

PrefixMatch(key) ==
  LET n == Stem(key)
      len == Len(key) - node[n].m_depth
  IN  IF \/ m_root = NullNode
         \/ Substr(key, node[n].m_depth, len) # Substr(node[n].m_key, 0, len)
      THEN << >> ELSE LeavesInOrder(node, n)

GreedyMatch(key) ==
  IF m_root = NullNode THEN << >> ELSE LeavesInOrder(node, Stem(key))

LongestMatch(key) ==
  LET n == FindNode(node, key)
      matched == Substr(key, node[n].m_depth, Len(node[n].m_key)) = node[n].m_key
      up[m \in DOMAIN node \cup {NullNode}] ==
        IF m = NullNode THEN NullNode
        ELSE IF Nul \in Labels(node, m) /\ node[node[m].m_children[Nul]].m_is_leaf
             THEN node[m].m_children[Nul]
             ELSE up[node[m].m_parent]
  IN  IF m_root = NullNode THEN NullNode
      ELSE IF node[n].m_is_leaf THEN n
      ELSE up[IF matched THEN n ELSE node[n].m_parent]
-----------------------------------------------------------------------------
(* append(): hang val's rest below parent, and a leaf below that rest *)
AppendNode(t, parent, val) ==
  LET depth == t[parent].m_depth + Len(t[parent].m_key)
      len == Len(val.first) - depth
      rest == Substr(val.first, depth, len)
      inner == <<val.first, FALSE>>
      leaf == <<val.first, TRUE>>
  IN  IF len = 0
      THEN Add(t, leaf, TreeNode(parent, depth, Nul, TRUE, val))
      ELSE Add(Add(t, inner, TreeNode(parent, depth, rest, FALSE, val)),
               leaf, TreeNode(inner, depth + len, Nul, TRUE, val))

(* The characters of n's label that val continues with. *)
Shared(t, n, val) ==
  CommonLen(t[n].m_key, Substr(val.first, t[n].m_depth, Len(val.first)))

(* prepend(): split n's label after count characters at a new node *)
Split(t, n, count) ==
  LET old == t[n]
      head == Substr(old.m_key, 0, count)
      tail == Substr(old.m_key, count, Len(old.m_key) - count)
      a == <<Substr(n[1], 0, old.m_depth + count), FALSE>>
      moved == Moved(Unlink(t, old.m_parent, old.m_key), n,
                     a, old.m_depth + count, tail)
  IN  Link(Add(moved, a, TreeNode(old.m_parent, old.m_depth, head, FALSE, NullNode)),
           a, tail, n)

Prepend(t, n, val) ==
  LET count == Shared(t, n, val)
      split == Split(t, n, count)
      a == split[n].m_parent
      depth == t[n].m_depth + count
      b == <<val.first, FALSE>>
      leaf == <<val.first, TRUE>>
      rest == Substr(val.first, depth, Len(val.first) - depth)
  IN  IF Len(val.first) = depth
      THEN Add(split, leaf, TreeNode(a, depth, Nul, TRUE, val))
      ELSE Add(Add(split, b, TreeNode(a, depth, rest, FALSE, NullNode)),
               leaf, TreeNode(b, Len(val.first), Nul, TRUE, val))

(* insert(): the heap it starts from, and the heap it leaves *)
Rooted == IF m_root = NullNode
          THEN [n \in {Root} |-> TreeNode(NullNode, 0, Nul, FALSE, NullNode)] ELSE node

Continues(t, n, val) ==
  Substr(val.first, t[n].m_depth, Len(t[n].m_key)) = t[n].m_key

Inserted(val) ==
  LET n == FindNode(Rooted, val.first)
  IN  IF Rooted[n].m_is_leaf THEN Rooted
      ELSE IF n = Root \/ Continues(Rooted, n, val) THEN AppendNode(Rooted, n, val)
      ELSE Prepend(Rooted, n, val)

(* assert(count != 0) of prepend() *)
PrependAborts(val) ==
  LET n == FindNode(Rooted, val.first)
  IN  /\ ~Rooted[n].m_is_leaf /\ n # Root /\ ~Continues(Rooted, n, val)
      /\ Shared(Rooted, n, val) = 0

MergesNothing(t, n) == t                          \* mutant of MergeOnlyChild

MergeFreesUncle(t, n) ==                          \* mutant of MergeOnlyChild
  LET uncle == t[n].m_children[First(Labels(t, n))]
      joined == t[n].m_key \o t[uncle].m_key
      moved == Moved(t, uncle, t[n].m_parent, t[n].m_depth, joined)
  IN  IF t[uncle].m_is_leaf THEN t
      ELSE Free(Link(Unlink(moved, t[n].m_parent, t[n].m_key),
                     t[n].m_parent, joined, uncle), n)

(* "merge grandparent with the uncle": n hands its label to an only child *)
MergeOnlyChild(t, n) ==
  LET label == First(Labels(t, n))
      uncle == t[n].m_children[label]
      above == t[n].m_parent
      joined == t[n].m_key \o t[uncle].m_key
      moved == Moved(t, uncle, above, t[n].m_depth, joined)
      unlinked == Unlink(Unlink(moved, n, label), above, t[n].m_key)
  IN  IF t[uncle].m_is_leaf THEN t
      ELSE Free(Link(unlinked, above, joined, uncle), n)

ErasedKeepsBareParent(leaf) ==                    \* mutant of Erased
  Free(Unlink(node, node[leaf].m_parent, Nul), leaf)

(* erase(key) once find_node() has returned leaf *)
Erased(leaf) ==
  LET parent == node[leaf].m_parent
      cut == Free(Unlink(node, parent, Nul), leaf)
      bare == Labels(cut, parent) = {}
      grandparent == IF bare THEN cut[parent].m_parent ELSE parent
      pruned == IF bare THEN Free(Unlink(cut, grandparent, cut[parent].m_key), parent)
                ELSE cut
  IN  IF parent = Root \/ Cardinality(Labels(cut, parent)) > 1 THEN cut
      ELSE IF grandparent = Root \/ Cardinality(Labels(pruned, grandparent)) # 1
      THEN pruned
      ELSE MergeOnlyChild(pruned, grandparent)
-----------------------------------------------------------------------------
TreeInit ==
  /\ m_root = NullNode /\ m_size = 0 /\ node = [n \in {} |-> NullNode]
  /\ it = NullNode /\ aborted = FALSE

NewElements(k) == IF Rooted[FindNode(Rooted, k)].m_is_leaf THEN 0 ELSE 1

(* insert(); the client may keep the returned iterator *)
Insert(k, v) ==
  LET val == Pair(k, v)
  IN  IF PrependAborts(val)
      THEN aborted' = TRUE /\ UNCHANGED <<m_root, m_size, node, it>>
      ELSE /\ m_root' = Root
           /\ node' = Inserted(val)
           /\ m_size' = m_size + NewElements(k)
           /\ it' \in {it, <<k, TRUE>>}
           /\ UNCHANGED aborted

(* operator[]: find(), and insert() of a default value when that fails *)
Index(k) ==
  IF Find(k) # NullNode THEN UNCHANGED treeVars
  ELSE Insert(k, Default) /\ it' = it

(* it->second = v *)
Assign(v) == /\ it # NullNode
             /\ node' = [node EXCEPT ![it].m_value.second = v]
             /\ UNCHANGED <<m_root, m_size, it, aborted>>

(* erase(key).  An iterator to the erased element is not used again. *)
EraseKey(k) ==
  IF Find(k) = NullNode THEN UNCHANGED treeVars
  ELSE /\ node' = Erased(Find(k))
       /\ m_size' = m_size - 1
       /\ it' = IF it = Find(k) THEN NullNode ELSE it
       /\ UNCHANGED <<m_root, aborted>>

(* erase(iterator) *)
EraseIt == it # NullNode /\ EraseKey(node[it].m_value.first)

(* clear(): delete m_root *)
ClearTree ==
  /\ m_root' = NullNode /\ m_size' = 0 /\ it' = NullNode
  /\ node' = IF m_root = NullNode THEN node ELSE Free(node, m_root)
  /\ UNCHANGED aborted

(* The client assigns its iterator from a call that answers target. *)
MoveTo(target) ==
  /\ IF target = ABORT THEN aborted' = TRUE /\ UNCHANGED it
     ELSE it' = target /\ UNCHANGED aborted
  /\ UNCHANGED <<m_root, m_size, node>>

Begin == MoveTo(IF m_root = NullNode THEN NullNode ELSE Leftmost(node, m_root))
Increment == it # NullNode /\ MoveTo(After(node, it))
FindKey(k) == MoveTo(Find(k))
MatchLongest(q) == MoveTo(LongestMatch(q))

TreeNext ==
  /\ ~aborted
  /\ \/ \E k \in Keys, v \in Values : Insert(k, v)
     \/ \E k \in Keys : Index(k) \/ EraseKey(k) \/ FindKey(k)
     \/ \E q \in Queries : MatchLongest(q)
     \/ \E v \in Values : Assign(v)
     \/ EraseIt \/ ClearTree \/ Begin \/ Increment

TreeSpec == TreeInit /\ [][TreeNext]_treeVars
-----------------------------------------------------------------------------
(* Properties *)

Leaves == {n \in DOMAIN node : node[n].m_is_leaf}

Stored == {node[n].m_value.first : n \in Leaves}

(* The dictionary the heap stands for. *)
Dictionary == [k \in Stored |->
               node[CHOOSE n \in Leaves : node[n].m_value.first = k].m_value.second]

(* The key the iterator stands on. *)
Cursor == IF it = NullNode THEN NullNode ELSE node[it].m_value.first

Map == INSTANCE RadixMap WITH
         NULL <- NullNode, dict <- Dictionary, size <- m_size, cur <- Cursor

(* Every operation acts on the stored association and on the client's      *)
(* iterator as an ordered dictionary would: insert() never overwrites,     *)
(* splits and merges of nodes neither move nor invalidate an iterator, ++  *)
(* visits the keys in increasing order without skipping one, and size()    *)
(* counts them.                                                            *)
RefinesMap == Map!Spec

TreeTypeOK ==
  /\ m_root \in {NullNode, Root} /\ m_size \in Nat /\ aborted \in BOOLEAN
  /\ it \in Leaves \cup {NullNode}
  /\ \A n \in DOMAIN node :
       /\ node[n].m_depth \in Nat /\ node[n].m_is_leaf \in BOOLEAN
       /\ Children(node, n) \subseteq DOMAIN node
       /\ node[n].m_parent \in DOMAIN node \cup {NullNode}

(* A node's m_depth and m_key spell the string it was made for, and a leaf *)
(* holds that key.                                                         *)
PathsAgree ==
  \A n \in DOMAIN node :
    /\ n[1] = Substr(n[1], 0, node[n].m_depth) \o node[n].m_key
    /\ node[n].m_parent # NullNode =>
         node[n].m_parent[1] = Substr(n[1], 0, node[n].m_depth)
    /\ node[n].m_is_leaf => node[n].m_value.first = n[1]

(* No pointer dangles, parent and child pointers agree, a child is filed   *)
(* under its own m_key, only the root lacks a parent, and no node is lost  *)
(* or freed while still linked: what is allocated is what the root reaches.*)
(* And the labels are right, after any series of splits and merges.        *)
WellLinked ==
  /\ TreeTypeOK /\ PathsAgree
  /\ DOMAIN node = IF m_root = NullNode THEN {} ELSE Subtree(node, Root)
  /\ \A n \in DOMAIN node :
       /\ (node[n].m_parent = NullNode) <=> (n = Root)
       /\ \A l \in Labels(node, n) :
            LET c == node[n].m_children[l]
            IN  node[c].m_parent = n /\ node[c].m_key = l

(* erase() keeps the tree compressed: siblings differ in their first       *)
(* character, and a node other than the root has two children or stands    *)
(* only for its own key.                                                   *)
Compressed ==
  \A n \in DOMAIN node :
    /\ \A l1, l2 \in Labels(node, n) :
         l1 # l2 => CommonLen(l1, l2) = 0
    /\ n # Root /\ ~node[n].m_is_leaf =>
         Cardinality(Labels(node, n)) > 1 \/ Labels(node, n) = {Nul}

(* The keys of the answer of a match, in the order of the vector. *)
KeysOf(vec) == [i \in 1..Len(vec) |-> node[vec[i]].m_value.first]

(* prefix_match() returns exactly the stored keys with the given prefix,   *)
(* and greedy_match() those that share the longest possible prefix with    *)
(* the query, each once and in order.                                      *)
MatchesCorrect ==
  \A q \in Queries :
    LET prefixed == KeysOf(PrefixMatch(q))
        greedy == KeysOf(GreedyMatch(q))
        heads == {p \in Prefixes(q) : \E k \in Stored : IsPrefix(p, k)}
    IN  /\ InOrder(prefixed) /\ InOrder(greedy)
        /\ ToSet(prefixed) = {k \in Stored : IsPrefix(q, k)}
        /\ ToSet(greedy) = {k \in Stored : \A p \in heads : IsPrefix(p, k)}

(* No assert of insert() or of an iterator ever fails: only begin() on a   *)
(* tree whose last key was erased, which keeps its root, can.              *)
OnlyBeginAborts == aborted => Leaves = {} /\ m_root = Root

(* assert(!node->m_children.empty()) of begin(), as the code states it. *)
BeginAssertHolds == ~aborted
=============================================================================
