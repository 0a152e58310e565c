----------------------------- MODULE SortedList -----------------------------
(***************************************************************************)
(* The list as the one thread that uses it sees it: the sequence of its    *)
(* nodes, in the order of their keys, the newest of equal keys first.      *)
(* These are the effects that the calls of SkipList have when nothing runs *)
(* beside them.                                                            *)
(***************************************************************************)
EXTENDS Integers, Sequences, SequencesExt, FiniteSets

InOrder(l) == \A i \in 1 .. Len(l) - 1 : l[i].key <= l[i + 1].key

(* _skip_locate_: how many nodes are before the first one not less than k, *)
(* and whether that one matches.                                           *)
Pred(l, k)    == Cardinality({i \in DOMAIN l : l[i].key < k})
Matches(l, k) == \E i \in DOMAIN l : l[i].key = k
First(l, k)   == Pred(l, k) + 1

(* _skip_insert_ links a node before its equals; skip_remove_node_ and     *)
(* skip_update_ take the first one.                                        *)
\* mutant
InsertedLast(l, n) ==
    InsertAt(l, Cardinality({i \in DOMAIN l : l[i].key <= n.key}) + 1, n)

Inserted(l, n) == InsertAt(l, First(l, n.key), n)

Removed(l, k)  == RemoveAt(l, First(l, k))
Updated(l, n)  == [l EXCEPT ![First(l, n.key)] = n]

(* Whether a neighbour of the i-th node has the same key.                  *)
HasTwin(l, i) ==
    \/ i > 1 /\ l[i - 1].key = l[i].key
    \/ i < Len(l) /\ l[i + 1].key = l[i].key
=============================================================================
