------------------------------ MODULE Validate ------------------------------
(***************************************************************************)
(* _skip_integrity_check_ (SKIPLIST_DECL_VALIDATE): the complaints it has  *)
(* about a list no call is working on.  It walks the list with bounds of   *)
(* its own, because the list it is given may be corrupt.                   *)
(*                                                                         *)
(* A list is a record of the fields it reads; concurrent stands for bit 0  *)
(* of flags being clear.  How often it complains of one thing, that it    *)
(* says nothing more of a node without a successor, and its checks of the  *)
(* list's callbacks are left out.                                          *)
(***************************************************************************)
EXTENDS SkipList

List == [next |-> next, marked |-> marked, height |-> height, prev |-> prev,
         headHeight |-> headHeight, tailHeight |-> tailHeight, length |-> length]

(* Complaints of one kind about a cell: one per level, or one if b.        *)
Say(kind, cell, levels) == {[kind |-> kind, cell |-> cell, level |-> l] : l \in levels}
When(b) == IF b THEN {0} ELSE {}

Smaller(a, b) == IF a <= b THEN a ELSE b
Top(L) == Smaller(L.headHeight, MaxHeight - 1)

\* _skip_compare_nodes_ says a is after b; a null is before everything.
IsAfter(a, b) ==
    /\ a # b /\ a # Nil /\ b # Tail
    /\ \/ b = Nil \/ a = Tail \/ b = Head
       \/ a \in Nodes /\ KeyOf[a] > KeyOf[b]

HeightComplaints(L) ==
    Say("height", Head, When(L.headHeight >= MaxHeight))
    \cup Say("height", Tail, When(L.tailHeight >= MaxHeight))
    \cup Say("unequal", Head, When(Top(L) # Smaller(L.tailHeight, MaxHeight - 1)))

HeadComplaints(L, concurrent) ==
    Say("null", Head, {l \in 0 .. Top(L) : L.next[Head, l] = Nil})
    \cup Say("marked", Head,
             {l \in 0 .. Top(L) : /\ concurrent /\ <<Head, l>> \in L.marked
                                  /\ \A m \in 0 .. l - 1 : L.next[Head, m] # Tail})
    \cup Say("hint", Tail, When(L.length > 0 /\ L.prev[Tail] = Head))

(* The cells met on level l from the head, as far as any walk goes.        *)
Visited(L, l) ==
    LET at[i \in 0 .. L.length + 4] ==
            IF i = 0 THEN Head
            ELSE IF at[i - 1] \in {Tail, Nil} THEN at[i - 1]
            ELSE L.next[at[i - 1], l]
    IN at

(* Each level leads from the head to the tail in length + 3 steps.         *)
ChainComplaints(L) ==
    Say("chain", Head, {l \in 0 .. Top(L) : Visited(L, l)[L.length + 3] # Tail})

(* A node's height, its words, and its place between its neighbours.  Past *)
(* the first word that leads to the tail all others must.                  *)
NodeComplaints(L, concurrent, n) ==
    LET h == Smaller(L.height[n], Top(L))
    IN Say("height", n, When(L.height[n] > h))
       \cup Say("null", n, {l \in 0 .. h : L.next[n, l] = Nil})
       \cup Say("marked", n, {l \in 0 .. h : concurrent /\ <<n, l>> \in L.marked})
       \cup Say("beyond tail", n,
                {l \in 0 .. h : /\ L.next[n, l] \notin {Tail, Nil}
                                /\ \E m \in 0 .. l : L.next[n, m] = Tail})
       \cup Say("hint", n, When(L.prev[n] = Nil \/ IsAfter(L.prev[n], n)))
       \cup Say("order", n, When(IsAfter(n, L.next[n, 0])))

(* The walk over level 0: length + 3 nodes at most, fewer when it meets    *)
(* the tail, or a null of which it has complained.                         *)
WalkUncounted(L, concurrent) ==                                        \* mutant
    UNION {NodeComplaints(L, concurrent, Visited(L, 0)[i]) :
              i \in {j \in 1 .. L.length + 3 : Visited(L, 0)[j] \in Nodes}}
WalkComplaints(L, concurrent) ==
    LET at   == Visited(L, 0)
        met  == {i \in 1 .. L.length + 3 : at[i] \in Nodes}
        last == at[L.length + 4]
    IN UNION {NodeComplaints(L, concurrent, at[i]) : i \in met}
       \cup Say("cycle", Head, When(last \in Nodes))
       \cup Say("length", Head, When(last = Tail /\ Cardinality(met) # L.length))

\* Without a first node it stops there.
Complaints(L, concurrent) ==
    HeightComplaints(L)
    \cup (IF L.next[Head, 0] = Nil THEN Say("null", Head, {0})
          ELSE HeadComplaints(L, concurrent) \cup WalkComplaints(L, concurrent)
               \cup (IF concurrent THEN ChainComplaints(L) ELSE {}))
-----------------------------------------------------------------------------
(* A list no call is working on passes the check.                          *)
Healthy == AtRest => Complaints(List, TRUE) = {}

(* One field of the list gone wrong: a height, the length, a word of       *)
(* level 0 that is null, marked or leads elsewhere, a null or a mark       *)
(* above, a hint that is null or leads forward.                            *)
Damaged(L) ==
    LET nodes == {Visited(L, 0)[i] : i \in 1 .. L.length}
        words == {w \in (nodes \cup {Head}) \X Levels :
                     w[2] <= IF w[1] = Head THEN L.headHeight ELSE L.height[w[1]]}
    IN {[L EXCEPT !.headHeight = h] : h \in (1 .. MaxHeight + 1) \ {L.headHeight}}
       \cup {[L EXCEPT !.tailHeight = h] : h \in (1 .. MaxHeight + 1) \ {L.tailHeight}}
       \cup {[L EXCEPT !.height[n] = h] : n \in nodes,
                                          h \in L.headHeight + 1 .. MaxHeight + 1}
       \cup {[L EXCEPT !.length = k] : k \in (0 .. L.length + 5) \ {L.length}}
       \cup {[L EXCEPT !.next[w] = Nil] : w \in words}
       \cup {[L EXCEPT !.marked = @ \cup {w}] :
                w \in {v \in words : v[1] # Head \/ v[2] = 0}}
       \cup {[L EXCEPT !.next[<<c, 0>>] = d] :
                c \in nodes \cup {Head}, d \in nodes \cup {Tail}}
       \cup {[L EXCEPT !.prev[n] = d] :
                n \in nodes, d \in {Nil, Tail}}

(* The check notices it, unless nothing changed.                           *)
Detects ==
    AtRest => \A L \in Damaged(List) \ {List} : Complaints(L, TRUE) # {}
=============================================================================
