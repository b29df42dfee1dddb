------------------------------ MODULE RadixMap ------------------------------
(***************************************************************************)
(* What RadixTree<std::string, T> promises its client: an ordered          *)
(* dictionary with one cursor.  dict is the stored association, size what  *)
(* size() answers, cur the key an iterator stands on, or NULL for end().   *)
(* Erasing another key, inserting, or splitting nodes underneath never     *)
(* moves the cursor; an iterator whose own element is erased is given up   *)
(* by the client, because using it afterwards is undefined.                *)
(***************************************************************************)
EXTENDS LexOrder

CONSTANTS Keys, Queries, Values, Default, NULL

VARIABLES dict, size, cur

vars == <<dict, size, cur>>

Stored == DOMAIN dict

TypeOK == /\ Stored \subseteq Keys
          /\ \A k \in Stored : dict[k] \in Values
          /\ cur \in Stored \cup {NULL}

Least(S) == IF S = {} THEN NULL ELSE First(S)

Init == /\ dict = [k \in {} |-> Default]
        /\ size = 0 /\ cur = NULL

(* dict with v for k, unless k is there *)
Completed(k, v) ==
  [x \in Stored \cup {k} |-> IF x \in Stored THEN dict[x] ELSE v]

(* insert(): an existing element keeps its value; the client may keep the  *)
(* returned iterator.                                                      *)
Insert(k, v) == /\ dict' = Completed(k, v)
                /\ cur' \in {cur, k}

(* operator[] adds a default value when the key is absent. *)
Index(k) == /\ dict' = Completed(k, Default)
            /\ UNCHANGED cur

(* it->second = v *)
Assign(v) == /\ cur # NULL
             /\ dict' = [dict EXCEPT ![cur] = v]
             /\ UNCHANGED cur

Erase(k) == /\ dict' = Restrict(dict, Stored \ {k})
            /\ cur' = IF cur = k THEN NULL ELSE cur

Clear == /\ dict' = [k \in {} |-> Default]
         /\ cur' = NULL

Find(k) == /\ cur' = IF k \in Stored THEN k ELSE NULL
           /\ UNCHANGED dict

LongestMatch(q) ==
  LET prefixes == {k \in Stored : IsPrefix(k, q)}
  IN  /\ cur' = IF prefixes = {} THEN NULL
                ELSE CHOOSE k \in prefixes : \A p \in prefixes : Len(p) <= Len(k)
      /\ UNCHANGED dict

Begin == /\ cur' = Least(Stored)
         /\ UNCHANGED dict

Increment == /\ cur # NULL
             /\ cur' = Least({k \in Stored : LexLess(cur, k)})
             /\ UNCHANGED dict

Next == \/ \E k \in Keys, v \in Values : Insert(k, v)
        \/ \E k \in Keys : Index(k) \/ Erase(k) \/ Find(k)
        \/ \E q \in Queries : LongestMatch(q)
        \/ \E v \in Values : Assign(v)
        \/ Clear \/ Begin \/ Increment

Spec == Init /\ [][Next /\ size' = Cardinality(DOMAIN dict')]_vars
=============================================================================
