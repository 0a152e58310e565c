----------------------------- MODULE MCSkipList -----------------------------
(***************************************************************************)
(* Instances of SkipList for TLC: small lists and the calls made on them.  *)
(* A height is drawn for every insert, so an instance covers every shape   *)
(* its nodes can take below MaxHeight.                                     *)
(***************************************************************************)
EXTENDS Splay, Validate, TLC

CONSTANTS t1, t2, t3, n1, n2, n3, n4, n5

ins(n) == [op |-> "insert", key |-> KeyOf[n], node |-> n]
dup(n) == [op |-> "insert_dup", key |-> KeyOf[n], node |-> n]
rem(n) == [op |-> "remove", key |-> KeyOf[n], node |-> Nil]
at(op, n) == [op |-> op, key |-> KeyOf[n], node |-> Nil]
get(n) == [op |-> "contains", key |-> KeyOf[n], node |-> Nil]

Keys(k) == [n \in Nodes |-> k[n]]

(* The keys of the nodes, in order.                                        *)
KeysApart == Keys((n1 :> 1) @@ (n2 :> 2) @@ (n3 :> 3))
KeysSame  == Keys((n1 :> 2) @@ (n2 :> 3) @@ (n3 :> 1) @@ (n4 :> 2) @@ (n5 :> 2))

BuiltNone == <<>>
BuiltTwo  == (n1 :> 0) @@ (n2 :> 0)
BuiltHigh == (n2 :> 1)

(* Calls a thread makes in any order.                                      *)
Each(S) == {{c} : c \in S}

(* One thread, every operation, towers and equal keys.                     *)
Reads(n) == {get(n)} \cup {at(op, n) : op \in CursorOps}
CallsAlone == t1 :> (Each({ins(n1), ins(n2), dup(n4)})
                     \cup {{rem(n1), rem(n2)}, Reads(n1) \cup Reads(n2)})

(* Threads that insert, remove and look up one key.                        *)
CallsShared == (t1 :> Each({ins(n4), rem(n1)}))
               @@ (t2 :> Each({ins(n5), rem(n1), get(n1)}))

(* Neighbours on the upper level of a list that already has one.           *)
CallsNear == (t1 :> {{ins(n1)}, {rem(n1), at("gte", n1), at("forward", n1)}})
             @@ (t2 :> Each({rem(n2), ins(n3)}))

(* An insert and a remove of one node; of two neighbours.                  *)
CallsReach == (t1 :> Each({ins(n1)})) @@ (t2 :> Each({rem(n1)}))
CallsStale == (t1 :> Each({ins(n1)})) @@ (t2 :> Each({rem(n2)}))

(* Reads by position beside an insert and a remove, with splay.            *)
CallsBeside == (t1 :> {{at("gt", n1), at("lt", n2), at("previous", n2)}})
               @@ (t2 :> Each({rem(n2), ins(n1)}))

(* A lookup that splays beside the remove of the node it finds, and a      *)
(* lookup after that.                                                      *)
CallsSplay == (t1 :> Each({get(n2)})) @@ (t2 :> Each({rem(n2), get(n3)}))
BuiltBefore == (n1 :> 1) @@ (n2 :> 0)
=============================================================================
