----------------------------- MODULE ListSteps -----------------------------
(***************************************************************************)
(* Proofs about the list at level 0, with splay, cursors and all: the      *)
(* invariant, and that every step of a call keeps it.  Module ListProof    *)
(* draws the theorems from it.                                             *)
(*                                                                         *)
(* No linked set is kept: a marked node may be spliced out and stay        *)
(* reachable from another marked node.  The invariant is that every set of *)
(* cells closed under the words of level 0 holds every live node (Reach),  *)
(* and each step that changes such a word -- a splice, a link, a store to  *)
(* a node nobody else has seen -- turns a set that is closed after it into *)
(* one that was closed before it.                                          *)
(***************************************************************************)
EXTENDS SkipListProof

HIDE DEF Effect, Frame, LocalsKept, Typed, Only, PlaceInv, InCall, Calm, Pinned,
         Removing, SameBut, Same, NoLocals, Locating, Marking, Unlinking,
         Retiring,
         RemoveOnly, Demoting, Moving, NotRelinking, Raising, Entries, Op

(* The nodes that are linked, or were: live, or marked at level 0.         *)
Known   == live \cup {n \in Nodes : Marked(n, 0)}
Before0 == Known \cup {Head}
Beyond  == Known \cup {Tail, Nil}

(* The words of the list and their marks.                                  *)
Words ==
    /\ next \in [Cells \X Levels -> Beyond]
    /\ marked \subseteq Nodes \X Levels
    /\ live \subseteq Nodes /\ \A n \in live : ~ Marked(n, 0)
    /\ hasDups \in BOOLEAN
    /\ \A c \in Before0 : next[c, 0] # Nil
    /\ \A n \in Nodes : next[n, 0] \in Nodes => Ordered(n, next[n, 0])
Reach == \A S \in SUBSET (Nodes \cup {Tail}) :
            Closed(Head, 0, S) => live \cup {Tail} \subseteq S

(* Heights and backward hints.                                             *)
Sizes ==
    /\ height \in [Nodes -> Levels]
    /\ headHeight \in Levels \ {0} /\ tailHeight \in Levels \ {0}
Hints == prev \in [Cells -> Before0 \cup {Nil}]

(* What a step may do to the words other threads rely on.                  *)
Inserting(t) == pc[t] # "idle" /\ Op(t) \in Inserts
Monotone ==
    /\ Known \subseteq Known'
    /\ \A n \in Nodes : Marked(n, 0) => Marked(n, 0)' /\ next'[n, 0] = next[n, 0]
    /\ hasDups => hasDups'
Private(t) ==
    \A n \in Nodes :
        \/ n \notin Known /\ n \in Known'
        \/ n \notin Known /\ next'[n, 0] # next[n, 0]
        => Inserting(t) /\ n = Node(t)

(* What can be walked to from a linked cell stays on the way from there as *)
(* long as it is live.                                                     *)
LeadsOn ==
    \A c \in Before0, S \in SUBSET (Nodes \cup {Tail}) :
        Closed(c, 0, S)' => From(c, 0) \cap (live \cup {Tail}) \subseteq S
Tidy(t) == Words' /\ Reach' /\ Monotone /\ Private(t) /\ LeadsOn

(* The kinds of steps, by what they do to the words.                       *)
Still == UNCHANGED <<next, marked, live, hasDups>>
SwingTo(p, l, x) ==
    /\ next' = [next EXCEPT ![<<p, l>>] = x]
    /\ l \in Levels /\ p \in Before0 \cup {Nil} /\ x \in Beyond
    /\ l = 0 => /\ p # Nil /\ ~ Marked(p, 0)
                /\ next[p, 0] \in Known /\ Marked(next[p, 0], 0)
                /\ x = next[next[p, 0], 0]

LEMMA ConstantFacts ==
    /\ 0 \in Levels /\ 1 \in Levels /\ Levels \subseteq Nat
    /\ Head \in Cells /\ Tail \in Cells /\ Nodes \subseteq Cells
    /\ Head \notin Nodes /\ Tail \notin Nodes /\ Nil \notin Nodes
    /\ Head # Tail /\ Head # Nil /\ Tail # Nil
    /\ Nil \notin Cells
BY SkipListAssumption DEF Levels, Cells

LEMMA MarkedWord ==
    ASSUME Words, NEW c, NEW l, Marked(c, l)
    PROVE  c \in Nodes /\ l \in Levels
BY DEF Words, Marked

LEMMA WordIn ==
    ASSUME Words, NEW c \in Cells, NEW l \in Levels
    PROVE  next[c, l] \in Beyond
BY DEF Words

LEMMA KnownNodes ==
    ASSUME Words
    PROVE  Known \subseteq Nodes /\ Head \notin Known /\ Tail \notin Known
           /\ Nil \notin Known
BY ConstantFacts DEF Words, Known

(* Walking level 0 from the head meets known nodes only.                   *)
LEMMA KnownClosed ==
    ASSUME Words
    PROVE  Closed(Head, 0, Known \cup {Tail})
<1> SUFFICES ASSUME NEW d \in (Known \cup {Tail} \cup {Head}) \ {Tail}
             PROVE  next[d, 0] \in Known \cup {Tail} \cup {Nil}
  BY DEF Closed
<1>1. d \in Cells BY KnownNodes, ConstantFacts DEF Cells
<1> QED BY <1>1, WordIn, ConstantFacts DEF Beyond

LEMMA ReachedLive ==
    ASSUME Words, Reach
    PROVE  live \cup {Tail} \subseteq Walk(0) /\ Walk(0) \subseteq Known \cup {Tail}
<1>1. Known \cup {Tail} \in SUBSET (Nodes \cup {Tail}) BY KnownNodes
<1>2. Walk(0) \subseteq Known \cup {Tail}
  BY <1>1, KnownClosed DEF Walk, From
<1>3. live \cup {Tail} \subseteq Walk(0)
  BY DEF Reach, Walk, From, Words
<1> QED BY <1>2, <1>3

-----------------------------------------------------------------------------
(* What the kinds of steps do.  A set that is closed after the step is     *)
(* brought back to one closed before it.                                   *)
LEMMA OrderedTrans ==
    ASSUME NEW k \in Nodes, NEW m \in Nodes, NEW n \in Nodes, Ordered(k, m), Ordered(m, n)
    PROVE  Ordered(k, n)
BY SkipListAssumption DEF Ordered

LEMMA StillKnown ==
    ASSUME Still
    PROVE  Known' = Known /\ Before0' = Before0 /\ Beyond' = Beyond
BY DEF Still, Known, Before0, Beyond, Marked

LEMMA FromLeast ==
    ASSUME NEW c, NEW S \in SUBSET (Nodes \cup {Tail}), Closed(c, 0, S)
    PROVE  From(c, 0) \subseteq S
BY DEF From

(* Words above level 0 do not matter to LeadsOn.                           *)
LEMMA BottomLeadsOn ==
    ASSUME Words, \A c \in Before0 : next'[c, 0] = next[c, 0]
    PROVE  LeadsOn
<1> SUFFICES ASSUME NEW c \in Before0, NEW S \in SUBSET (Nodes \cup {Tail}),
                    Closed(c, 0, S)'
             PROVE  From(c, 0) \cap (live \cup {Tail}) \subseteq S
  BY DEF LeadsOn
<1> DEFINE K == S \cap (Known \cup {Tail})
<1>1. ASSUME NEW d \in (K \cup {c}) \ {Tail}
      PROVE  next[d, 0] \in K \cup {Nil}
  <2>1. d \in Before0 /\ d \in Cells BY KnownNodes, ConstantFacts DEF Before0
  <2>2. next'[d, 0] \in S \cup {Nil} BY <1>1 DEF Closed
  <2>3. next[d, 0] \in Known \cup {Tail, Nil}
    BY <2>1, WordIn, ConstantFacts DEF Beyond
  <2> QED BY <2>1, <2>2, <2>3
<1>2. c # Tail BY KnownNodes, ConstantFacts DEF Before0
<1>3. Closed(c, 0, K) BY <1>1, <1>2 DEF Closed
<1>4. From(c, 0) \subseteq K BY <1>3, FromLeast
<1> QED BY <1>4

LEMMA LeadsOnReach ==
    ASSUME Words, Reach, LeadsOn, live' \subseteq live
    PROVE  Reach'
<1>1. live \cup {Tail} \subseteq From(Head, 0) BY ReachedLive DEF Walk
<1>2. Head \in Before0 BY DEF Before0
<1>3. \A S \in SUBSET (Nodes \cup {Tail}) :
         Closed(Head, 0, S)' => live \cup {Tail} \subseteq S
  BY <1>1, <1>2 DEF LeadsOn
<1> QED BY <1>3 DEF Reach

LEMMA StillTidy ==
    ASSUME Words, Reach, NEW t, Still
    PROVE  Tidy(t) /\ Known' = Known
<1>1. Known' = Known /\ Before0' = Before0 /\ Beyond' = Beyond BY StillKnown
<1>2. Words'
  BY <1>1 DEF Words, Still, Marked, Ordered
<1>3. Reach' BY DEF Reach, Still, Closed
<1>4. Monotone /\ Private(t) BY <1>1 DEF Monotone, Private, Still, Marked
<1>5. LeadsOn BY BottomLeadsOn DEF Still
<1> QED BY <1>1, <1>2, <1>3, <1>4, <1>5 DEF Tidy

(* A splice, at any level; above level 0 the words hold anything.          *)
LEMMA SwungWord ==
    ASSUME Words, NEW p, NEW l \in Levels, NEW x \in Beyond,
           next' = [next EXCEPT ![<<p, l>>] = x]
    PROVE  /\ next' \in [Cells \X Levels -> Beyond]
           /\ \A c \in Cells, k \in Levels :
                 next'[c, k] = IF c = p /\ k = l THEN x ELSE next[c, k]
BY DEF Words

LEMMA SwingLeadsOn ==
    ASSUME Words, NEW p, NEW l, NEW x, SwingTo(p, l, x)
    PROVE  LeadsOn
<1>0. \A c \in Cells, k \in Levels :
         next'[c, k] = IF c = p /\ k = l THEN x ELSE next[c, k]
  BY SwungWord DEF SwingTo
<1>1. CASE l # 0
  <2>1. \A c \in Before0 : next'[c, 0] = next[c, 0]
    BY <1>0, <1>1, ConstantFacts, KnownNodes DEF Before0
  <2> QED BY <2>1, BottomLeadsOn
<1>2. CASE l = 0
  <2> DEFINE y == next[p, 0]
  <2>1. /\ y \in Known /\ Marked(y, 0) /\ x = next[y, 0] /\ p \in Before0
        /\ ~ Marked(p, 0)
    BY <1>2 DEF SwingTo
  <2>2. y # p /\ y \in Nodes /\ y \notin live /\ y # Tail
    BY <2>1, KnownNodes, ConstantFacts DEF Words
  <2>3. next'[y, 0] = x /\ next'[p, 0] = x
    BY <1>0, <1>2, <2>1, <2>2, ConstantFacts, KnownNodes DEF Before0
  <2>4. next[p, 0] = y OBVIOUS
  <2> HIDE DEF y
  <2> SUFFICES ASSUME NEW c \in Before0, NEW S \in SUBSET (Nodes \cup {Tail}),
                      Closed(c, 0, S)'
               PROVE  From(c, 0) \cap (live \cup {Tail}) \subseteq S
    BY DEF LeadsOn
  <2>0. c # Tail BY KnownNodes, ConstantFacts DEF Before0
  <2> DEFINE K == (S \cap (Known \cup {Tail})) \cup {d \in {y} : p \in S \cup {c}}
  <2>5. ASSUME NEW d \in (K \cup {c}) \ {Tail}
        PROVE  next[d, 0] \in K \cup {Nil}
    <3>1. d \in Before0 /\ d \in Cells
      BY <2>1, KnownNodes, ConstantFacts DEF Before0
    <3>2. next[d, 0] \in Known \cup {Tail, Nil}
      BY <3>1, WordIn, ConstantFacts DEF Beyond
    <3>6. d \in S \cup {c} \/ (d = y /\ p \in S \cup {c}) BY <2>5
    <3>7. \A e \in (S \cup {c}) \ {Tail} : next'[e, 0] \in S \cup {Nil}
      BY DEF Closed
    <3>3. CASE d = p
      <4>1. p \in S \cup {c} BY <3>3, <3>6, <2>2
      <4> QED BY <3>3, <2>4, <4>1
    <3>4. CASE d = y
      <4>1. y \in S \cup {c} \/ p \in S \cup {c} BY <3>4, <3>6
      <4>2. p # Tail BY <2>1, KnownNodes, ConstantFacts DEF Before0
      <4>3. x \in S \cup {Nil} BY <4>1, <4>2, <2>2, <2>3, <3>7
      <4> QED BY <4>3, <3>2, <3>4, <2>1
    <3>5. CASE d # p /\ d # y
      <4>1. next'[d, 0] = next[d, 0] BY <3>1, <3>5, <1>0, ConstantFacts
      <4>2. next'[d, 0] \in S \cup {Nil} BY <3>5, <3>6, <3>7, <2>5
      <4> QED BY <4>1, <4>2, <3>2
    <3> QED BY <3>3, <3>4, <3>5
  <2>6. K \in SUBSET (Nodes \cup {Tail}) BY <2>2
  <2>7. Closed(c, 0, K) BY <2>5, <2>0 DEF Closed
  <2>8. From(c, 0) \subseteq K BY <2>6, <2>7, FromLeast
  <2> QED BY <2>8, <2>2
<1> QED BY <1>1, <1>2

(* A swing, with a mark above level 0 cleared or set beside it.            *)
LEMMA SwingTidy ==
    ASSUME Words, Reach, NEW t, NEW p, NEW l, NEW x, SwingTo(p, l, x),
           marked' \subseteq Nodes \X Levels,
           \A n \in Nodes : Marked(n, 0)' <=> Marked(n, 0),
           UNCHANGED <<live, hasDups>>
    PROVE  Tidy(t) /\ Known' = Known
<1>0. \A c \in Cells, k \in Levels :
         next'[c, k] = IF c = p /\ k = l THEN x ELSE next[c, k]
  BY SwungWord DEF SwingTo
<1>1. Known' = Known BY DEF Known
<1>2. Before0' = Before0 /\ Beyond' = Beyond BY <1>1 DEF Before0, Beyond
<1>3. \A n \in Nodes : \/ next'[n, 0] = next[n, 0]
                       \/ /\ n = p /\ l = 0 /\ next'[n, 0] = next[next[n, 0], 0]
                          /\ next[n, 0] \in Known /\ n \in Known
                          /\ ~ Marked(n, 0)
  <2> TAKE n \in Nodes
  <2>1. next'[n, 0] = IF n = p /\ 0 = l THEN x ELSE next[n, 0]
    BY <1>0, ConstantFacts
  <2>2. CASE ~ (n = p /\ 0 = l) BY <2>1, <2>2
  <2>3. CASE n = p /\ 0 = l
    <3>1. /\ p \in Before0 \cup {Nil} /\ p # Nil /\ ~ Marked(p, 0)
          /\ next[p, 0] \in Known /\ x = next[next[p, 0], 0]
      BY <2>3 DEF SwingTo
    <3> QED BY <2>1, <2>3, <3>1, ConstantFacts DEF Before0
  <2> QED BY <2>2, <2>3
<1>4. Words'
  <2>1. (next \in [Cells \X Levels -> Beyond])' BY <1>2, SwungWord DEF SwingTo
  <2>2. (live \subseteq Nodes /\ \A n \in live : ~ Marked(n, 0))' BY DEF Words
  <2>3. \A c \in Before0 : next'[c, 0] # Nil
    <3> TAKE c \in Before0
    <3>1. c \in Cells BY KnownNodes, ConstantFacts DEF Before0
    <3>2. CASE c = p /\ l = 0
      <4>1. next[p, 0] \in Before0 /\ x = next[next[p, 0], 0]
        BY <3>2 DEF SwingTo, Before0
      <4> QED BY <4>1, <3>1, <3>2, <1>0, ConstantFacts DEF Words
    <3>3. CASE ~ (c = p /\ l = 0)
      BY <3>1, <3>3, <1>0, ConstantFacts DEF Words
    <3> QED BY <3>2, <3>3
  <2>4. \A n \in Nodes : next'[n, 0] \in Nodes => Ordered(n, next'[n, 0])
    <3> SUFFICES ASSUME NEW n \in Nodes, next'[n, 0] \in Nodes
                 PROVE  Ordered(n, next'[n, 0])
      OBVIOUS
    <3>1. CASE next'[n, 0] = next[n, 0] BY <3>1 DEF Words
    <3>2. CASE /\ next'[n, 0] = next[next[n, 0], 0] /\ next[n, 0] \in Known
      <4>1. next[n, 0] \in Nodes BY <3>2, KnownNodes
      <4> QED BY <4>1, <3>2, OrderedTrans DEF Words
    <3> QED BY <3>1, <3>2, <1>3
  <2>5. \A m \in Nodes, n \in Nodes : Ordered(m, n)' <=> Ordered(m, n)
    BY DEF Ordered
  <2> QED BY <2>1, <2>2, <2>3, <2>4, <2>5, <1>2 DEF Words
<1>8. LeadsOn BY SwingLeadsOn
<1>5. Reach' BY <1>8, LeadsOnReach
<1>6. Monotone BY <1>1, <1>3 DEF Monotone
<1>7. Private(t) BY <1>1, <1>3 DEF Private
<1> QED BY <1>1, <1>4, <1>5, <1>6, <1>7, <1>8 DEF Tidy

(* A mark, above level 0 or there, where it takes the node out of the set. *)
LEMMA MarkTidy ==
    ASSUME Words, Reach, NEW t, NEW n \in Known, NEW l \in Levels,
           marked' = marked \cup {<<n, l>>},
           live' = IF l = 0 THEN live \ {n} ELSE live,
           UNCHANGED <<next, hasDups>>
    PROVE  Tidy(t) /\ Known' = Known
<1>0. n \in Nodes BY KnownNodes
<1>1. Known' = Known BY <1>0 DEF Known, Marked
<1>2. Before0' = Before0 /\ Beyond' = Beyond BY <1>1 DEF Before0, Beyond
<1>3. Words'
  <2>1. marked' \subseteq Nodes \X Levels
    <3>1. <<n, l>> \in Nodes \X Levels BY <1>0
    <3>2. marked \subseteq Nodes \X Levels BY DEF Words
    <3> QED BY <3>1, <3>2
  <2>2. (live \subseteq Nodes /\ \A m \in live : ~ Marked(m, 0))'
    BY <1>0 DEF Words, Marked
  <2>3. \A k \in Nodes, m \in Nodes : Ordered(k, m)' <=> Ordered(k, m)
    BY DEF Ordered
  <2> QED BY <2>1, <2>2, <2>3, <1>2 DEF Words
<1>6. LeadsOn BY BottomLeadsOn
<1>4. Reach' BY <1>6, LeadsOnReach
<1>5. Monotone /\ Private(t) BY <1>1 DEF Monotone, Private, Marked
<1> QED BY <1>1, <1>3, <1>4, <1>5, <1>6 DEF Tidy

(* The store to a node that is still private, in the order that counts     *)
(* once the step is made.                                                  *)
OrderedAfter(m, n) ==
    KeyOf[m] < KeyOf[n] \/ (hasDups' /\ KeyOf[m] = KeyOf[n])

LEMMA TossTidy ==
    ASSUME Words, Reach, NEW t, Inserting(t), Node(t) \in Nodes \ Known,
           next' \in [Cells \X Levels -> Beyond],
           \A c \in Cells \ {Node(t)} : next'[c, 0] = next[c, 0],
           next'[Node(t), 0] \in Nodes => OrderedAfter(Node(t), next'[Node(t), 0]),
           UNCHANGED <<marked, live>>, hasDups' \in BOOLEAN, hasDups => hasDups'
    PROVE  Tidy(t) /\ Known' = Known
<1>1. Known' = Known BY DEF Known, Marked
<1>2. Before0' = Before0 /\ Beyond' = Beyond BY <1>1 DEF Before0, Beyond
<1>3. \A c \in Before0 : next'[c, 0] = next[c, 0]
  BY KnownNodes, ConstantFacts DEF Before0
<1>4. Words'
  <2>1. \A c \in Before0 : next'[c, 0] # Nil BY <1>3 DEF Words
  <2>2. \A m \in Nodes : next'[m, 0] \in Nodes => OrderedAfter(m, next'[m, 0])
    <3> TAKE m \in Nodes
    <3>1. CASE m = Node(t) BY <3>1
    <3>2. CASE m # Node(t)
      <4>1. next'[m, 0] = next[m, 0] BY <3>2, ConstantFacts
      <4>2. next[m, 0] \in Nodes => Ordered(m, next[m, 0]) BY DEF Words
      <4> QED BY <4>1, <4>2 DEF Ordered, OrderedAfter
    <3> QED BY <3>1, <3>2
  <2>3. \A m \in Nodes : (next[m, 0] \in Nodes => Ordered(m, next[m, 0]))'
    BY <2>2 DEF Ordered, OrderedAfter
  <2>4. \A m \in live : ~ Marked(m, 0)' BY DEF Words, Marked
  <2> QED BY <2>1, <2>3, <2>4, <1>2 DEF Words
<1>8. LeadsOn BY <1>3, BottomLeadsOn
<1>5. Reach' BY <1>8, LeadsOnReach
<1>6. Monotone
  <2>1. \A m \in Nodes : Marked(m, 0) => m \in Known BY DEF Known
  <2> QED BY <2>1, <1>1, <1>3 DEF Monotone, Marked, Before0
<1>7. Private(t)
  <2>1. \A m \in Nodes \ {Node(t)} : next'[m, 0] = next[m, 0] BY ConstantFacts
  <2> QED BY <2>1, <1>1 DEF Private
<1> QED BY <1>1, <1>4, <1>5, <1>6, <1>7, <1>8 DEF Tidy

(* The link, where the node enters the set.                                *)
LEMMA LinkTidy ==
    ASSUME Words, Reach, NEW t, Inserting(t), NEW p \in Before0, ~ Marked(p, 0),
           Node(t) \in Nodes \ Known, next[Node(t), 0] = next[p, 0],
           p \in Nodes => Ordered(p, Node(t)),
           next' = [next EXCEPT ![<<p, 0>>] = Node(t)],
           live' = live \cup {Node(t)}, UNCHANGED <<marked, hasDups>>
    PROVE  Tidy(t) /\ Known' = Known \cup {Node(t)}
<1> DEFINE n == Node(t)
<1>0. n \in Nodes \ Known /\ next[n, 0] = next[p, 0] OBVIOUS
<1>1. Known' = Known \cup {n} BY DEF Known, Marked
<1> HIDE DEF n
<1>2. p \in Cells /\ p # n /\ p \in live \cup {Head}
  BY <1>0, KnownNodes, ConstantFacts DEF Before0, Known
<1>3. Before0' = Before0 \cup {n} /\ Beyond' = Beyond \cup {n}
  BY <1>1 DEF Before0, Beyond
<1>4. /\ next' \in [Cells \X Levels -> Beyond']
      /\ \A c \in Cells, k \in Levels :
            next'[c, k] = IF c = p /\ k = 0 THEN n ELSE next[c, k]
  <2>1. next \in [Cells \X Levels -> Beyond'] BY <1>3 DEF Words
  <2>2. next' = [next EXCEPT ![<<p, 0>>] = n] BY DEF n
  <2> QED BY <2>1, <2>2, <1>2, <1>3
<1>5. next'[p, 0] = n /\ next'[n, 0] = next[p, 0]
  BY <1>0, <1>2, <1>4, ConstantFacts
<1>6. Words'
  <2>1. live' \subseteq Nodes /\ \A m \in live' : ~ Marked(m, 0)
    BY <1>0 DEF Words, n, Known
  <2>2. \A c \in Before0 \cup {n} : next'[c, 0] # Nil
    <3> TAKE c \in Before0 \cup {n}
    <3>1. c \in Cells BY <1>0, KnownNodes, ConstantFacts DEF Before0
    <3>2. next'[c, 0] = IF c = p THEN n ELSE next[c, 0]
      BY <3>1, <1>4, ConstantFacts
    <3>3. \A d \in Before0 : next[d, 0] # Nil BY DEF Words
    <3> QED BY <3>2, <3>3, <1>0, ConstantFacts
  <2>3. \A m \in Nodes : next'[m, 0] \in Nodes => Ordered(m, next'[m, 0])
    <3> TAKE m \in Nodes
    <3>1. CASE m = p BY <3>1, <1>5 DEF n
    <3>2. CASE m # p
      <4>1. next'[m, 0] = next[m, 0] BY <3>2, <1>4, ConstantFacts
      <4> QED BY <4>1 DEF Words
    <3> QED BY <3>1, <3>2
  <2>4. \A k \in Nodes, m \in Nodes : Ordered(k, m)' <=> Ordered(k, m)
    BY DEF Ordered
  <2>5. \A m \in Nodes : Marked(m, 0)' <=> Marked(m, 0) BY DEF Marked
  <2> QED BY <2>1, <2>2, <2>3, <2>4, <2>5, <1>3, <1>4 DEF Words
<1>10. LeadsOn
  <2> SUFFICES ASSUME NEW c \in Before0, NEW S \in SUBSET (Nodes \cup {Tail}),
                      Closed(c, 0, S)'
               PROVE  From(c, 0) \cap (live \cup {Tail}) \subseteq S
    BY DEF LeadsOn
  <2>0. c # Tail BY KnownNodes, ConstantFacts DEF Before0
  <2> DEFINE K == S \cap (Known \cup {Tail})
  <2>1. ASSUME NEW d \in (K \cup {c}) \ {Tail}
        PROVE  next[d, 0] \in K \cup {Nil}
    <3>1. d \in Before0 /\ d \in Cells BY KnownNodes, ConstantFacts DEF Before0
    <3>2. next[d, 0] \in Known \cup {Tail, Nil}
      BY <3>1, WordIn, ConstantFacts DEF Beyond
    <3>3. next'[d, 0] \in S \cup {Nil} BY <2>1 DEF Closed
    <3>4. CASE d = p
      <4>1. n \in S BY <3>3, <3>4, <1>5, <1>0, ConstantFacts
      <4>2. next'[n, 0] \in S \cup {Nil} BY <4>1, <1>0, ConstantFacts DEF Closed
      <4> QED BY <4>2, <3>2, <3>4, <1>5
    <3>5. CASE d # p
      <4>1. next'[d, 0] = next[d, 0] BY <3>1, <3>5, <1>4, ConstantFacts
      <4> QED BY <4>1, <3>2, <3>3
    <3> QED BY <3>4, <3>5
  <2>2. Closed(c, 0, K) BY <2>0, <2>1 DEF Closed
  <2>3. K \in SUBSET (Nodes \cup {Tail}) OBVIOUS
  <2>4. From(c, 0) \subseteq K BY <2>2, <2>3, FromLeast
  <2> QED BY <2>4
<1>7. Reach'
  <2> SUFFICES ASSUME NEW S \in SUBSET (Nodes \cup {Tail}), Closed(Head, 0, S)'
               PROVE  live \cup {Tail, n} \subseteq S
    BY DEF Reach, n
  <2>1. Head \in Before0 BY DEF Before0
  <2>2. live \cup {Tail} \subseteq S
    BY <1>10, <2>1, ReachedLive DEF LeadsOn, Walk
  <2>3. n \in S
    <3>1. p \in S \cup {Head} /\ p # Tail
      BY <2>2, <1>2, ConstantFacts, KnownNodes DEF Words
    <3>2. next'[p, 0] \in S \cup {Nil} BY <3>1 DEF Closed
    <3> QED BY <3>2, <1>5, <1>0, ConstantFacts
  <2> QED BY <2>2, <2>3
<1>8. Monotone
  <2>1. \A m \in Nodes : Marked(m, 0) => m # p BY DEF Marked
  <2> QED BY <2>1, <1>1, <1>4, ConstantFacts DEF Monotone, Marked
<1>9. Private(t)
  <2>1. \A m \in Nodes \ Known : next'[m, 0] = next[m, 0]
    <3> TAKE m \in Nodes \ Known
    <3>1. m # p /\ m \in Cells BY <1>2, ConstantFacts DEF Before0
    <3> QED BY <3>1, <1>4, ConstantFacts
  <2> QED BY <2>1, <1>1 DEF Private, n
<1> QED BY <1>1, <1>6, <1>7, <1>8, <1>9, <1>10 DEF Tidy, n

-----------------------------------------------------------------------------
(* What the locals of a thread say of the list, by where the thread is.    *)
AtLevel == {"locpred", "loccurr", "lochelp", "sweephead", "sweepcurr", "sweepcas",
            "verify", "verifycurr", "lookpred", "lookcurr", "lookdups"}
Rising  == {"promote", "growhead", "inithead", "bump", "promotepred", "promotesucc",
            "promoteset", "promotecas", "revert", "recheck", "undo", "undocas"}
Placing == {"grow", "growtail", "link"}
Placed  == {"insert", "remove", "mark", "position", "found", "hint", "rebnode",
            "rebnext", "rebheight"} \cup Placing \cup Moving \cup Unlinking

(* An insert whose node is linked.                                         *)
Entered(t) ==
    pc[t] \in Linked \/ (pc[t] \in Locating /\ loc[t].ret = "relink")

Values(t) ==
    LET me == loc[t]
    IN /\ {me.pred, me.hint} \subseteq Before0 \cup {Nil}
       /\ me.curr \in Before0 \cup {Tail, Nil}
       /\ me.succ \in Beyond
       /\ {me.found, me.node} \subseteq Known \cup {Nil}
       /\ me.met \subseteq Known
       /\ me.preds \in [Levels -> Before0 \cup {Nil}]
       /\ me.succs \in [Levels -> Beyond]

Depths(t) ==
    LET me == loc[t]
    IN /\ {me.top, me.high, me.bound, me.i} \subseteq Levels
       /\ me.lvl \in 0 .. MaxHeight /\ me.idx \in Nat
       /\ pc[t] \in AtLevel => me.lvl \in Levels
       /\ Entered(t) => me.i <= me.high
       /\ pc[t] \in {"shrinkcas", "shrinktail"} => me.i > 1
       /\ pc[t] \in Rising \cup Placing => me.high + 1 \in Levels
       /\ pc[t] \in {"growhead", "inithead"} => me.bound > 0
       /\ pc[t] = "inithead" => me.lvl > 0

(* The call is one the thread was given, and no longer to do.              *)
Called(t) ==
    /\ todo[t] \subseteq Calls[t]
    /\ pc[t] = "idle" => loc[t] = NoLocals
    /\ pc[t] # "idle" => \E C \in Calls[t] \ todo[t] : loc[t].call \in C
    /\ /\ pc[t] # "idle"
       /\ \/ loc[t].ret \in {"insert", "relink"}
          \/ pc[t] \in {"insert"} \cup Placing \cup Linked
       => Op(t) \in Inserts

(* Where a walk is.                                                        *)
Walking(t) ==
    LET me == loc[t]
    IN /\ pc[t] # "idle" /\ me.found # Nil => KeyOf[me.found] = Key(t)
       /\ pc[t] \in {"locpred", "loccurr", "lochelp"} => Before(me.pred, Key(t))
       /\ pc[t] \in {"lookpred", "lookcurr", "lookdups", "promotesucc"} =>
             me.pred # Nil
       /\ pc[t] \in {"sweepcurr", "sweepcas", "rescan", "rehint"} => me.pred # Nil
       /\ pc[t] \in {"loccurr", "sweepcurr", "verifycurr", "lookcurr", "helpcas"} =>
             me.curr # Head
       /\ pc[t] = "loccurr" /\ me.lvl = 0 => me.curr # Nil
       /\ pc[t] = "prevcas" => me.succ # Nil
       /\ pc[t] \in {"scan", "forward", "rescan"} => me.curr \in Before0
       /\ pc[t] = "scantest" => me.curr \in Known
       /\ pc[t] = "backward" => me.curr \in Before0 \cup {Tail}
       /\ pc[t] \in {"checkhint", "rescan", "rehint"} => me.node # Nil

(* A word read at level 0 from a marked node is still there.               *)
Dead(t) ==
    LET me == loc[t]
    IN /\ pc[t] \in {"lochelp", "sweepcas"} =>
            /\ me.curr \in Known
            /\ me.lvl = 0 => Marked(me.curr, 0) /\ me.succ = next[me.curr, 0]
       /\ pc[t] = "helpcas" =>
            /\ me.succ \in Known
            /\ me.i = 0 => Marked(me.succ, 0) /\ me.curr = next[me.succ, 0]
       /\ pc[t] \in Unlinking \cup {"undo", "undocas"} =>
            me.node \in Known /\ Marked(me.node, 0)

(* The path a locate found, while it is used.                              *)
Path(t) ==
    LET me == loc[t]
    IN /\ pc[t] \in Placed =>
            /\ Before(me.preds[0], Key(t))
            /\ me.succs[0] # Nil /\ ~ Before(me.succs[0], Key(t))
            /\ me.found = Nil => ~ Equal(me.succs[0], Key(t))
       /\ pc[t] \in Placing =>
            /\ me.found # Nil => hasDups
            /\ next[Node(t), 0] = me.succs[0]

(* The node of an insert becomes known when it is linked, and not sooner.  *)
Own(t) ==
    /\ Inserting(t) => (Node(t) \in Known <=> Entered(t))
    /\ \A C \in todo[t] : \A c \in C : c.op \in Inserts => c.node \notin Known

Locals(t) ==
    /\ Values(t) /\ Depths(t) /\ Called(t) /\ Walking(t) /\ Dead(t) /\ Path(t)
    /\ Own(t)

(* The invariant.                                                          *)
ListInv ==
    /\ Words /\ Reach /\ Sizes /\ Hints
    /\ \A t \in Threads : Locals(t)

-----------------------------------------------------------------------------
(* A step of one thread keeps what the locals of the others say.           *)
LEMMA BeforeKept ==
    ASSUME Monotone
    PROVE  Before0 \subseteq Before0' /\ Beyond \subseteq Beyond'
BY DEF Monotone, Before0, Beyond

LEMMA OwnNodes ==
    ASSUME NEW t \in Threads, NEW u \in Threads \ {t},
           Called(t), Called(u), Inserting(t)
    PROVE  /\ Inserting(u) => Node(u) # Node(t)
           /\ \A C \in todo[u] : \A c \in C : c.op \in Inserts => c.node # Node(t)
<1>1. PICK C \in Calls[t] : loc[t].call \in C BY DEF Called, Inserting
<1>2. \A D \in Calls[u] : \A d \in D : d.op \in Inserts => d.node # Node(t)
  BY <1>1, CallsAssumption DEF Inserting, Op, Node
<1>3. Inserting(u) => Node(u) # Node(t)
  BY <1>2 DEF Called, Inserting, Op, Node
<1>4. todo[u] \subseteq Calls[u] BY DEF Called
<1> QED BY <1>2, <1>3, <1>4

LEMMA OthersLocals ==
    ASSUME Words, NEW t \in Threads, NEW u \in Threads \ {t}, Monotone, Private(t),
           Called(t), Locals(u), Only(t), todo'[u] = todo[u]
    PROVE  Locals(u)'
<1>0. loc'[u] = loc[u] /\ pc'[u] = pc[u] BY DEF Only
<1>1. /\ Before0 \subseteq Before0' /\ Beyond \subseteq Beyond'
      /\ Known \subseteq Known'
      /\ Known \subseteq Nodes
  BY BeforeKept, KnownNodes DEF Monotone
<1>2. \A n \in Known : Marked(n, 0) => Marked(n, 0)' /\ next'[n, 0] = next[n, 0]
  BY <1>1 DEF Monotone
<1>3. Values(u)' BY <1>0, <1>1 DEF Locals, Values
<1>4. Depths(u)' BY <1>0 DEF Locals, Depths, Entered
<1>5. Called(u)' BY <1>0 DEF Locals, Called, Op
<1>6. Walking(u)' BY <1>0, <1>1 DEF Locals, Walking, Key
<1>8. Dead(u)'
  <2>1. Dead(u) BY DEF Locals
  <2>2. pc[u] \in {"lochelp", "sweepcas"} =>
           /\ loc[u].curr \in Known'
           /\ loc[u].lvl = 0 => /\ <<loc[u].curr, 0>> \in marked'
                               /\ loc[u].succ = next'[loc[u].curr, 0]
    BY <2>1, <1>1, <1>2 DEF Dead, Marked
  <2>3. pc[u] = "helpcas" =>
           /\ loc[u].succ \in Known'
           /\ loc[u].i = 0 => /\ <<loc[u].succ, 0>> \in marked'
                             /\ loc[u].curr = next'[loc[u].succ, 0]
    BY <2>1, <1>1, <1>2 DEF Dead, Marked
  <2>4. pc[u] \in Unlinking \cup {"undo", "undocas"} =>
           loc[u].node \in Known' /\ <<loc[u].node, 0>> \in marked'
    BY <2>1, <1>1, <1>2 DEF Dead, Marked
  <2> QED BY <1>0, <2>2, <2>3, <2>4 DEF Dead, Marked
<1>7. Path(u)' /\ Own(u)'
  <2>1. Inserting(t) => \/ ~ Inserting(u)
                        \/ Node(u) # Node(t)
    BY OwnNodes DEF Locals
  <2>2. Inserting(u) => Node(u) \in Nodes
    BY CallsAssumption DEF Locals, Called, Inserting, Op, Node
  <2>3. Inserting(u) => (Node(u) \in Known' <=> Node(u) \in Known)
    BY <1>1, <2>1, <2>2 DEF Private
  <2>4. Inserting(u) /\ Node(u) \notin Known => next'[Node(u), 0] = next[Node(u), 0]
    BY <2>1, <2>2 DEF Private
  <2>5. pc[u] \in Placing => Inserting(u) /\ ~ Entered(u)
    BY DEF Locals, Called, Inserting, Placing, Entered, Linked, Locating
  <2>6. Path(u)'
    <3>1. Path(u) BY DEF Locals
    <3>2. pc[u] \in Placing => next'[Node(u), 0] = next[Node(u), 0]
      BY <2>4, <2>5 DEF Locals, Own
    <3>3. hasDups => hasDups' BY DEF Monotone
    <3> HIDE DEF Before, Equal
    <3> QED BY <1>0, <3>1, <3>2, <3>3 DEF Path, Key, Node
  <2>7. \A C \in todo[u] : \A c \in C : c.op \in Inserts => c.node \notin Known'
    <3> SUFFICES ASSUME NEW C \in todo[u], NEW c \in C, c.op \in Inserts,
                        c.node \in Known'
                 PROVE  FALSE
      OBVIOUS
    <3>1. c.node \in Nodes BY CallsAssumption DEF Locals, Called
    <3>2. c.node \notin Known BY DEF Locals, Own
    <3>3. Inserting(t) /\ c.node = Node(t) BY <3>1, <3>2 DEF Private
    <3> QED BY <3>3, OwnNodes DEF Locals
  <2>8. Own(u)'
    <3>1. Own(u) BY DEF Locals
    <3>2. Inserting(u)' = Inserting(u) /\ (Node(u))' = Node(u) /\ Entered(u)' = Entered(u)
      BY <1>0 DEF Inserting, Op, Node, Entered
    <3> QED BY <2>3, <2>7, <3>1, <3>2 DEF Own
  <2> QED BY <2>6, <2>8
<1> QED BY <1>3, <1>4, <1>5, <1>6, <1>7, <1>8 DEF Locals

(* One thread's step keeps the invariant if it keeps its own part.         *)
LEMMA StepKeeps ==
    ASSUME ListInv, NEW t \in Threads, Only(t), DOMAIN todo = Threads,
           \A u \in Threads \ {t} : todo'[u] = todo[u],
           Tidy(t), Sizes', Hints', Locals(t)'
    PROVE  ListInv'
<1>1. \A u \in Threads \ {t} : Locals(u)'
  BY OthersLocals DEF ListInv, Locals, Tidy
<1> QED BY <1>1 DEF ListInv, Tidy

-----------------------------------------------------------------------------
(* The steps, one by one.                                                  *)
Here(t) ==
    /\ Words /\ Reach /\ Sizes /\ Hints /\ Locals(t)
    /\ LocalsKept /\ PlaceInv(t) /\ DOMAIN todo = Threads
Good(t) == Tidy(t) /\ Sizes' /\ Hints' /\ Locals(t)'
Calmly  == Still /\ UNCHANGED <<height, headHeight, tailHeight, prev>>

LEMMA CalmlyKeeps ==
    ASSUME NEW t \in Threads, Here(t), Calmly
    PROVE  Tidy(t) /\ Sizes' /\ Hints' /\ Known' = Known
<1>1. Tidy(t) /\ Known' = Known BY StillTidy DEF Here, Calmly
<1>2. Sizes' BY DEF Here, Calmly, Sizes
<1>3. Hints' BY <1>1 DEF Here, Calmly, Hints, Before0
<1> QED BY <1>1, <1>2, <1>3

(* What carries over to a thread whose call goes on.                       *)
Onward(t) ==
    /\ todo'[t] = todo[t] /\ pc[t] # "idle" /\ pc'[t] # "idle"
    /\ loc'[t].call = loc[t].call

LEMMA OnwardKeeps ==
    ASSUME NEW t \in Threads, Here(t), Onward(t), Known' = Known,
           Entered(t)' <=> Entered(t),
           (loc'[t].ret \in {"insert", "relink"}
            \/ pc'[t] \in {"insert"} \cup Placing \cup Linked)
           => Op(t) \in Inserts
    PROVE  Called(t)' /\ Own(t)'
<1>1. (Node(t))' = Node(t) /\ Op(t)' = Op(t) BY DEF Onward, Op, Node
<1>2. Called(t)' BY <1>1 DEF Here, Locals, Onward, Called, Op
<1>3. Own(t)' BY <1>1 DEF Here, Locals, Onward, Own, Inserting
<1> QED BY <1>2, <1>3

(* The locals a step leaves alone: all but those named in S.               *)
Keep(t, S) ==
    /\ "call" \notin S => loc'[t].call = loc[t].call
    /\ "ret" \notin S => loc'[t].ret = loc[t].ret
    /\ "pred" \notin S => loc'[t].pred = loc[t].pred
    /\ "curr" \notin S => loc'[t].curr = loc[t].curr
    /\ "succ" \notin S => loc'[t].succ = loc[t].succ
    /\ "lvl" \notin S => loc'[t].lvl = loc[t].lvl
    /\ "top" \notin S => loc'[t].top = loc[t].top
    /\ "i" \notin S => loc'[t].i = loc[t].i
    /\ "found" \notin S => loc'[t].found = loc[t].found
    /\ "node" \notin S => loc'[t].node = loc[t].node
    /\ "high" \notin S => loc'[t].high = loc[t].high
    /\ "bound" \notin S => loc'[t].bound = loc[t].bound
    /\ "hint" \notin S => loc'[t].hint = loc[t].hint
    /\ "met" \notin S => loc'[t].met = loc[t].met
    /\ "idx" \notin S => loc'[t].idx = loc[t].idx
    /\ "preds" \notin S => loc'[t].preds = loc[t].preds
    /\ "succs" \notin S => loc'[t].succs = loc[t].succs

LEMMA CalmlySame ==
    ASSUME Calmly
    PROVE  /\ Known' = Known /\ Before0' = Before0 /\ Beyond' = Beyond
           /\ next' = next /\ marked' = marked /\ live' = live
           /\ hasDups' = hasDups
BY StillKnown DEF Calmly, Still

LEMMA CalmlyGood ==
    ASSUME NEW t \in Threads, Here(t), Calmly,
           Values(t)', Depths(t)', Walking(t)', Dead(t)', Path(t)', Called(t)', Own(t)'
    PROVE  Good(t)
BY CalmlyKeeps DEF Good, Locals

(* What a level-0 word of a linked cell, and any other, may hold.          *)
LEMMA LinkedWord ==
    ASSUME Words, NEW c \in Before0, NEW l \in Levels
    PROVE  /\ next[c, l] \in Beyond /\ next[c, l] # Head
           /\ l = 0 => next[c, l] # Nil
<1>1. c \in Cells BY KnownNodes, ConstantFacts DEF Before0
<1>2. next[c, l] \in Beyond BY <1>1, WordIn
<1>3. Head \notin Beyond BY KnownNodes, ConstantFacts DEF Beyond
<1>4. l = 0 => next[c, l] # Nil BY DEF Words
<1> QED BY <1>2, <1>3, <1>4

(* The pointer of a word.                                                  *)
Word(c, l) == next[c, l]

(* The end of a call.                                                      *)
LEMMA ReturnLocals ==
    ASSUME NEW t \in Threads, Here(t), NEW r, Return(t, r), todo' = todo,
           Known' = Known
    PROVE  Locals(t)'
<1>1. pc'[t] = "idle" /\ loc'[t] = NoLocals
  BY DEF Return, Goto, Here, LocalsKept
<1>2. Values(t)' BY <1>1 DEF Values, NoLocals, Beyond
<1>3. Depths(t)'
  BY <1>1, SkipListAssumption DEF Depths, NoLocals, Levels, Entered, Linked,
     Locating, AtLevel, Rising, Placing
<1>4. Called(t)' BY <1>1 DEF Here, Locals, Called
<1>5. Walking(t)' BY <1>1 DEF Walking, NoLocals
<1>6. Dead(t)' BY <1>1 DEF Dead, Unlinking
<1>7. Path(t)' BY <1>1 DEF Path, Placed, Placing, Unlinking, Moving, Demoting
<1>8. Own(t)' BY <1>1 DEF Here, Locals, Own, Inserting
<1> QED BY <1>2, <1>3, <1>4, <1>5, <1>6, <1>7, <1>8 DEF Locals

LEMMA ReturnGood ==
    ASSUME NEW t \in Threads, Here(t), Calmly, NEW r, Return(t, r), todo' = todo
    PROVE  Good(t)
BY CalmlyKeeps, ReturnLocals DEF Good

LEMMA LargerOfTwo ==
    ASSUME NEW a \in Nat, NEW b \in Nat
    PROVE  Larger({a, b}) \in {a, b}
<1>1. \E x \in {a, b} : \A y \in {a, b} : x >= y
  <2>1. CASE a >= b BY <2>1
  <2>2. CASE ~ (a >= b) BY <2>2
  <2> QED BY <2>1, <2>2
<1> QED BY <1>1 DEF Larger

LEMMA HelpedMoves ==
    ASSUME NEW t \in Threads, Here(t), Helped(t)
    PROVE  /\ Keep(t, {"i"}) /\ pc'[t] \in {"prev", "raise", "help", "count"}
           /\ \/ loc'[t].i = loc[t].i
              \/ loc[t].i < loc[t].high /\ loc'[t].i = loc[t].i + 1
<1>0. LocalsKept /\ loc[t].i \in Nat /\ loc[t].high \in Nat
  BY ConstantFacts DEF Here, Locals, Depths
<1>1. \/ loc' = loc
      \/ \E v : /\ loc' = [loc EXCEPT ![t].i = v] /\ v = loc[t].i + 1
               /\ loc[t].i < loc[t].high
  BY <1>0 DEF Helped
<1>2. pc'[t] \in {"prev", "raise", "help", "count"}
  BY DEF Helped, Goto, Here, LocalsKept
<1>3. Keep(t, {"i"}) BY <1>1 DEF Here, Keep, LocalsKept, NoLocals
<1>4. \/ loc'[t].i = loc[t].i
      \/ loc[t].i < loc[t].high /\ loc'[t].i = loc[t].i + 1
  BY <1>1 DEF Here, LocalsKept, NoLocals
<1> QED BY <1>2, <1>3, <1>4

LEMMA AboveMoves ==
    ASSUME NEW t \in Threads, Here(t), Above(t)
    PROVE  /\ Keep(t, {"i"})
           /\ \/ pc'[t] = "count" /\ loc'[t].i = loc[t].i
              \/ pc'[t] = "help" /\ loc[t].high > 0 /\ loc'[t].i = 1
<1>1. \/ pc'[t] = "count" /\ loc' = loc
      \/ /\ pc'[t] = "help" /\ loc[t].high > 0
         /\ \E v : loc' = [loc EXCEPT ![t].i = v] /\ v = 1
  BY DEF Above, Goto, Here, LocalsKept
<1>3. Keep(t, {"i"}) BY <1>1 DEF Here, Keep, LocalsKept, NoLocals
<1>4. \/ pc'[t] = "count" /\ loc'[t].i = loc[t].i
      \/ pc'[t] = "help" /\ loc[t].high > 0 /\ loc'[t].i = 1
  BY <1>1 DEF Here, LocalsKept, NoLocals
<1> QED BY <1>3, <1>4

LEMMA OwnNode ==
    ASSUME NEW t \in Threads, Here(t), pc[t] \in {"insert"} \cup Placing
    PROVE  /\ Inserting(t) /\ Node(t) \in Nodes \ Known /\ KeyOf[Node(t)] = Key(t)
           /\ \A C \in todo[t] : \A c \in C : c.op \in Inserts => c.node # Node(t)
<1>1. Called(t) /\ Own(t) /\ pc[t] # "idle" BY DEF Here, Locals, Placing
<1>2. Inserting(t) BY <1>1 DEF Called, Inserting
<1>3. PICK C \in Calls[t] \ todo[t] : loc[t].call \in C BY <1>1 DEF Called
<1>4. Node(t) \in Nodes /\ KeyOf[Node(t)] = Key(t)
  BY <1>2, <1>3, CallsAssumption DEF Inserting, Op, Node, Key
<1>5. ~ Entered(t) BY DEF Entered, Linked, Locating, Placing
<1>6. \A D \in todo[t] : \A d \in D : d.op \in Inserts => d.node # Node(t)
  <2>1. \A D \in todo[t] : D \in Calls[t] /\ D # C BY <1>1, <1>3 DEF Called
  <2> QED BY <1>2, <1>3, <2>1, CallsAssumption DEF Inserting, Op, Node
<1> QED BY <1>1, <1>2, <1>4, <1>5, <1>6 DEF Own

LEMMA OwnLinked ==
    ASSUME NEW t \in Threads, Here(t), pc[t] \in Linked
    PROVE  /\ Inserting(t) /\ Op(t) \in Inserts /\ Entered(t)
           /\ Node(t) \in Known /\ Node(t) \in Nodes /\ Node(t) \in Before0
           /\ loc[t].i \in Levels /\ loc[t].high \in Levels /\ loc[t].i \in Nat
           /\ loc[t].high \in Nat /\ loc[t].i <= loc[t].high
<1>1. pc[t] # "idle" BY DEF Linked
<1>2. Op(t) \in Inserts BY <1>1 DEF Here, Locals, Called
<1>3. Inserting(t) /\ Entered(t) BY <1>1, <1>2 DEF Inserting, Entered
<1>4. Node(t) \in Known BY <1>3 DEF Here, Locals, Own
<1>5. Node(t) \in Nodes /\ Node(t) \in Before0
  BY <1>4, KnownNodes DEF Here, Before0
<1>6. /\ loc[t].i \in Levels /\ loc[t].high \in Levels /\ loc[t].i \in Nat
      /\ loc[t].high \in Nat /\ loc[t].i <= loc[t].high
  BY <1>3, ConstantFacts DEF Here, Locals, Depths
<1> QED BY <1>2, <1>3, <1>4, <1>5, <1>6

-----------------------------------------------------------------------------
(***************************************************************************)
(* The steps of a locate: what it records as predecessor, successor and    *)
(* match at each level is what the invariant says of its path.             *)
(***************************************************************************)
LEMMA LocStartGood ==
  ASSUME NEW t \in Threads, Here(t), LocStart(t)
  PROVE  Good(t)
<1>1. pc[t] = "locate" /\ todo' = todo /\ Calmly
  BY DEF LocStart, Calmly, Still, shape, heights, history
<1>2. /\ Known' = Known /\ Before0' = Before0 /\ Beyond' = Beyond
      /\ next' = next /\ marked' = marked /\ hasDups' = hasDups
  BY <1>1, CalmlySame
<1>3. pc'[t] \in {"locpred"}
  BY DEF LocStart, Goto, Here, LocalsKept
<1>4. \E a, b, c, d : /\ loc' = [loc EXCEPT ![t].pred = a, ![t].top = b, ![t].lvl = c,
                                           ![t].splayed = d]
                      /\ a = Head /\ b = headHeight /\ c = headHeight - 1
  BY DEF LocStart, Goto, Here, LocalsKept
<1>5. /\ Keep(t, {"pred", "top", "lvl", "splayed"})
      /\ loc'[t].pred = Head /\ loc'[t].top = headHeight
      /\ loc'[t].lvl = headHeight - 1
  BY <1>4 DEF Keep, Here, LocalsKept, NoLocals
<1>6. headHeight \in Levels /\ headHeight - 1 \in Levels /\ headHeight - 1 \in 0 .. MaxHeight
  BY SkipListAssumption DEF Here, Sizes, Levels
<1>7. Called(t)' /\ Own(t)'
  BY <1>1, <1>2, <1>3, <1>5, <1>6, OnwardKeeps DEF Here, Locals, Called,
     Onward, Keep, Entered, Linked, Locating, Placing
<1>8. Values(t)'
  BY <1>1, <1>2, <1>3, <1>5, <1>6, ConstantFacts DEF Here, Locals, Values,
     Keep, Before0
<1>9. Depths(t)'
  BY <1>1, <1>2, <1>3, <1>5, <1>6, ConstantFacts DEF Here, Locals, Depths,
     Keep, Entered, Linked, Locating, AtLevel, Rising, Placing
<1>10. Walking(t)'
  BY <1>1, <1>2, <1>3, <1>5, <1>6 DEF Here, Locals, Walking, Keep, Key,
     Unlinking, Before
<1>11. Dead(t)'
  BY <1>1, <1>2, <1>3, <1>5, <1>6 DEF Here, Locals, Dead, Keep, Unlinking
<1> HIDE DEF Before, Equal
<1>12. Path(t)'
  BY <1>1, <1>2, <1>3, <1>5, <1>6 DEF Here, Locals, Path, Keep, Key, Node,
     Placed, Placing, Unlinking, Moving, Demoting
<1> QED BY <1>1, <1>7, <1>8, <1>9, <1>10, <1>11, <1>12, CalmlyGood

LEMMA LocPredGood ==
  ASSUME NEW t \in Threads, Here(t), LocPred(t)
  PROVE  Good(t)
<1>1. pc[t] = "locpred" /\ todo' = todo /\ Calmly
  BY DEF LocPred, Calmly, Still, shape, heights, history
<1>2. /\ Known' = Known /\ Before0' = Before0 /\ Beyond' = Beyond
      /\ next' = next /\ marked' = marked /\ hasDups' = hasDups
  BY <1>1, CalmlySame
<1>3. pc'[t] \in {"locate", "loccurr"}
  BY DEF LocPred, Goto, Here, LocalsKept
<1>4. \/ pc'[t] = "locate" /\ loc' = loc
      \/ /\ pc'[t] = "loccurr"
         /\ \E v : /\ loc' = [loc EXCEPT ![t].curr = v]
                   /\ v = Word(loc[t].pred, loc[t].lvl)
  BY DEF LocPred, Goto, Here, LocalsKept, Word
<1>5. /\ Keep(t, {"curr"})
      /\ pc'[t] = "locate" => loc'[t].curr = loc[t].curr
      /\ pc'[t] = "loccurr" => loc'[t].curr = Word(loc[t].pred, loc[t].lvl)
  BY <1>4 DEF Keep, Here, LocalsKept, NoLocals
<1>6. loc[t].pred \in Before0 /\ loc[t].lvl \in Levels
  BY <1>1, ConstantFacts DEF Here, Locals, Walking, Values, Before, Before0,
     Depths, AtLevel
<1>7. LET w == Word(loc[t].pred, loc[t].lvl)
      IN w \in Beyond /\ w # Head /\ (loc[t].lvl = 0 => w # Nil)
  BY <1>6, LinkedWord DEF Here, Word
<1>8. Called(t)' /\ Own(t)'
  BY <1>1, <1>2, <1>3, <1>5, <1>6, <1>7, OnwardKeeps DEF Here, Locals, Called,
     Onward, Keep, Entered, Linked, Locating, Placing
<1>9. Values(t)'
  BY <1>1, <1>2, <1>3, <1>5, <1>6, <1>7 DEF Here, Locals, Values, Keep, Beyond,
     Before0
<1>10. Depths(t)'
  BY <1>1, <1>2, <1>3, <1>5, <1>6, <1>7, ConstantFacts DEF Here, Locals,
     Depths, Keep, Entered, Linked, Locating, AtLevel, Rising, Placing
<1>11. Walking(t)'
  BY <1>1, <1>2, <1>3, <1>5, <1>6, <1>7 DEF Here, Locals, Walking, Keep, Key,
     Unlinking
<1>12. Dead(t)'
  BY <1>1, <1>2, <1>3, <1>5, <1>6, <1>7 DEF Here, Locals, Dead, Keep, Unlinking
<1> HIDE DEF Before, Equal
<1>13. Path(t)'
  BY <1>1, <1>2, <1>3, <1>5, <1>6, <1>7 DEF Here, Locals, Path, Keep, Key,
     Node, Placed, Placing, Unlinking, Moving, Demoting
<1> QED BY <1>1, <1>8, <1>9, <1>10, <1>11, <1>12, <1>13, CalmlyGood

LEMMA LocMarkedGood ==
  ASSUME NEW t \in Threads, Here(t), LocMarked(t)
  PROVE  Good(t)
<1>1. pc[t] = "loccurr" /\ todo' = todo /\ Calmly
  BY DEF LocMarked, Calmly, Still, shape, heights, history
<1>2. /\ Known' = Known /\ Before0' = Before0 /\ Beyond' = Beyond
      /\ next' = next /\ marked' = marked /\ hasDups' = hasDups
  BY <1>1, CalmlySame
<1>3. pc'[t] \in {"lochelp"}
  BY DEF LocMarked, Goto, Here, LocalsKept
<1>4. \E v : /\ loc' = [loc EXCEPT ![t].succ = v]
             /\ v = Word(loc[t].curr, loc[t].lvl)
  BY DEF LocMarked, Goto, Here, LocalsKept, Word
<1>5. /\ Keep(t, {"succ"})
      /\ loc'[t].succ = Word(loc[t].curr, loc[t].lvl)
  BY <1>4 DEF Keep, Here, LocalsKept, NoLocals
<1>6. Marked(loc[t].curr, loc[t].lvl) /\ loc[t].curr \in Nodes /\ loc[t].lvl \in Levels
  BY MarkedWord DEF LocMarked, Here
<1>7. loc[t].curr \in Known
  BY <1>6, ConstantFacts DEF Here, Locals, Values, Before0
<1>8. Word(loc[t].curr, loc[t].lvl) \in Beyond
  BY <1>6, <1>7, LinkedWord DEF Here, Word, Before0
<1>9. Called(t)' /\ Own(t)'
  BY <1>1, <1>2, <1>3, <1>5, <1>6, <1>7, <1>8, OnwardKeeps DEF Here, Locals,
     Called, Onward, Keep, Entered, Linked, Locating, Placing
<1>10. Values(t)'
  BY <1>1, <1>2, <1>3, <1>5, <1>6, <1>7, <1>8 DEF Here, Locals, Values, Keep
<1>11. Depths(t)'
  BY <1>1, <1>2, <1>3, <1>5, <1>6, <1>7, <1>8, ConstantFacts DEF Here, Locals,
     Depths, Keep, Entered, Linked, Locating, AtLevel, Rising, Placing
<1>12. Walking(t)'
  BY <1>1, <1>2, <1>3, <1>5, <1>6, <1>7, <1>8 DEF Here, Locals, Walking, Keep,
     Key, Unlinking
<1>13. Dead(t)'
  BY <1>1, <1>2, <1>3, <1>5, <1>6, <1>7, <1>8 DEF Here, Locals, Dead, Keep,
     Unlinking, Word, Marked
<1> HIDE DEF Before, Equal
<1>14. Path(t)'
  BY <1>1, <1>2, <1>3, <1>5, <1>6, <1>7, <1>8 DEF Here, Locals, Path, Keep,
     Key, Node, Placed, Placing, Unlinking, Moving, Demoting
<1> QED BY <1>1, <1>9, <1>10, <1>11, <1>12, <1>13, <1>14, CalmlyGood

LEMMA LocAdvanceGood ==
  ASSUME NEW t \in Threads, Here(t), LocAdvance(t)
  PROVE  Good(t)
<1>1. pc[t] = "loccurr" /\ todo' = todo /\ Calmly
  BY DEF LocAdvance, Calmly, Still, shape, heights, history
<1>2. /\ Known' = Known /\ Before0' = Before0 /\ Beyond' = Beyond
      /\ next' = next /\ marked' = marked /\ hasDups' = hasDups
  BY <1>1, CalmlySame
<1>3. pc'[t] \in {"loccurr"}
  BY DEF LocAdvance, Goto, Here, LocalsKept
<1>4. \E u, v : /\ loc' = [loc EXCEPT ![t].pred = u, ![t].curr = v]
                /\ u = loc[t].curr /\ v = Word(loc[t].curr, loc[t].lvl)
  BY DEF LocAdvance, Goto, Here, LocalsKept, Word
<1>5. /\ Keep(t, {"pred", "curr"})
      /\ loc'[t].pred = loc[t].curr
      /\ loc'[t].curr = Word(loc[t].curr, loc[t].lvl)
  BY <1>4 DEF Keep, Here, LocalsKept, NoLocals
<1>6. /\ Before(loc[t].curr, Key(t)) /\ loc[t].curr \in Before0
      /\ loc[t].lvl \in Levels
  BY <1>1, ConstantFacts DEF LocAdvance, Here, Locals, Walking, Values, Before,
     Before0, Depths, AtLevel
<1>7. LET w == Word(loc[t].curr, loc[t].lvl)
      IN w \in Beyond /\ w # Head /\ (loc[t].lvl = 0 => w # Nil)
  BY <1>6, LinkedWord DEF Here, Word
<1>8. Called(t)' /\ Own(t)'
  BY <1>1, <1>2, <1>3, <1>5, <1>6, <1>7, OnwardKeeps DEF Here, Locals, Called,
     Onward, Keep, Entered, Linked, Locating, Placing
<1>9. Values(t)'
  BY <1>1, <1>2, <1>3, <1>5, <1>6, <1>7 DEF Here, Locals, Values, Keep, Beyond,
     Before0
<1>10. Depths(t)'
  BY <1>1, <1>2, <1>3, <1>5, <1>6, <1>7, ConstantFacts DEF Here, Locals,
     Depths, Keep, Entered, Linked, Locating, AtLevel, Rising, Placing
<1>11. Walking(t)'
  BY <1>1, <1>2, <1>3, <1>5, <1>6, <1>7 DEF Here, Locals, Walking, Keep, Key,
     Unlinking
<1>12. Dead(t)'
  BY <1>1, <1>2, <1>3, <1>5, <1>6, <1>7 DEF Here, Locals, Dead, Keep, Unlinking
<1> HIDE DEF Before, Equal
<1>13. Path(t)'
  BY <1>1, <1>2, <1>3, <1>5, <1>6, <1>7 DEF Here, Locals, Path, Keep, Key,
     Node, Placed, Placing, Unlinking, Moving, Demoting
<1> QED BY <1>1, <1>8, <1>9, <1>10, <1>11, <1>12, <1>13, CalmlyGood

LEMMA LocHelpGood ==
  ASSUME NEW t \in Threads, Here(t), LocHelp(t)
  PROVE  Good(t)
<1>1. pc[t] = "lochelp" /\ todo' = todo
  BY DEF LocHelp
<1>2. Tidy(t) /\ Known' = Known
  <2>1. UNCHANGED <<marked, live, hasDups>> BY DEF LocHelp, history
  <2>2. CASE next' = next BY <2>1, <2>2, StillTidy DEF Here, Still
  <2>3. CASE /\ Swing(loc[t].pred, loc[t].lvl, loc[t].succ)
             /\ Holds(loc[t].pred, loc[t].lvl, loc[t].curr)
    <3>1. /\ loc[t].lvl \in Levels /\ loc[t].pred \in Before0
          /\ loc[t].succ \in Beyond
      BY <1>1, ConstantFacts DEF Here, Locals, Values, Depths, AtLevel, Walking,
         Before, Before0
    <3>2. loc[t].lvl = 0 => /\ Marked(loc[t].curr, 0) /\ loc[t].curr \in Known
                            /\ loc[t].succ = next[loc[t].curr, 0]
      BY <1>1 DEF Here, Locals, Dead
    <3>3. SwingTo(loc[t].pred, loc[t].lvl, loc[t].succ)
      BY <2>3, <3>1, <3>2, ConstantFacts, KnownNodes DEF SwingTo, Swing, Holds,
         Before0, Here
    <3> QED BY <2>1, <3>3, SwingTidy DEF Here, Words, Marked
  <2> QED BY <2>2, <2>3 DEF LocHelp
<1>3. Sizes' /\ Hints'
  BY <1>2 DEF LocHelp, heights, Here, Sizes, Hints, Before0
<1>4. pc'[t] \in {"locate", "loccurr"}
  BY DEF LocHelp, Goto, Here, LocalsKept
<1>5. \/ pc'[t] = "locate" /\ loc' = loc
      \/ /\ pc'[t] = "loccurr"
         /\ \E v : loc' = [loc EXCEPT ![t].curr = v] /\ v = loc[t].succ
  BY DEF LocHelp, Goto, Here, LocalsKept
<1>6. /\ Keep(t, {"curr"})
      /\ pc'[t] = "locate" => loc'[t].curr = loc[t].curr
      /\ pc'[t] = "loccurr" => loc'[t].curr = loc[t].succ
  BY <1>5 DEF Keep, Here, LocalsKept, NoLocals
<1>7. /\ loc[t].succ \in Before0 \cup {Tail, Nil} /\ loc[t].succ # Head
      /\ loc[t].lvl = 0 => loc[t].succ # Nil
  BY <1>1, LinkedWord, ConstantFacts, KnownNodes DEF Here, Locals, Values,
     Dead, Beyond, Before0
<1>8. Before0' = Before0 /\ Beyond' = Beyond
  BY <1>2 DEF Before0, Beyond
<1>9. Called(t)' /\ Own(t)'
  BY <1>1, <1>2, <1>3, <1>4, <1>6, <1>7, <1>8, OnwardKeeps DEF Here, Locals,
     Called, Onward, Keep, Entered, Linked, Locating, Placing
<1>10. Values(t)'
  BY <1>1, <1>2, <1>3, <1>4, <1>6, <1>7, <1>8 DEF Here, Locals, Values, Keep,
     Before0, Beyond
<1>11. Depths(t)'
  BY <1>1, <1>2, <1>3, <1>4, <1>6, <1>7, <1>8, ConstantFacts DEF Here, Locals,
     Depths, Keep, Entered, Linked, Locating, AtLevel, Rising, Placing
<1>12. Walking(t)'
  BY <1>1, <1>2, <1>3, <1>4, <1>6, <1>7, <1>8 DEF Here, Locals, Walking, Keep,
     Key, Unlinking
<1>13. Dead(t)'
  BY <1>1, <1>2, <1>3, <1>4, <1>6, <1>7, <1>8 DEF Here, Locals, Dead, Keep,
     Unlinking
<1> HIDE DEF Before, Equal
<1>14. Path(t)'
  BY <1>1, <1>2, <1>3, <1>4, <1>6, <1>7, <1>8 DEF Here, Locals, Path, Keep,
     Key, Node, Placed, Placing, Unlinking, Moving, Demoting
<1> QED BY <1>2, <1>3, <1>9, <1>10, <1>11, <1>12, <1>13, <1>14 DEF Good, Locals

LEMMA LocRecordGood ==
  ASSUME NEW t \in Threads, Here(t), LocRecord(t)
  PROVE  Good(t)
<1>1. pc[t] = "loccurr" /\ todo' = todo /\ Calmly
  BY DEF LocRecord, Calmly, Still, shape, heights, history
<1>2. /\ Known' = Known /\ Before0' = Before0 /\ Beyond' = Beyond
      /\ next' = next /\ marked' = marked /\ hasDups' = hasDups
  BY <1>1, CalmlySame
<1>3. pc'[t] \in {"locpred", loc[t].ret}
  BY DEF LocRecord, Goto, Here, LocalsKept
<1>4. /\ Keep(t, {"preds", "succs", "lvl", "found"})
      /\ loc'[t].preds = [loc[t].preds EXCEPT ![loc[t].lvl] = loc[t].pred]
      /\ loc'[t].succs = [loc[t].succs EXCEPT ![loc[t].lvl] = loc[t].curr]
      /\ \/ /\ loc[t].lvl > 0 /\ pc'[t] = "locpred"
            /\ loc'[t].lvl = loc[t].lvl - 1 /\ loc'[t].found = loc[t].found
         \/ /\ loc[t].lvl = 0 /\ pc'[t] = loc[t].ret /\ loc'[t].lvl = loc[t].lvl
            /\ loc'[t].found = IF Equal(loc[t].curr, Key(t)) THEN loc[t].curr ELSE Nil
  <2> DEFINE P == [loc[t].preds EXCEPT ![loc[t].lvl] = loc[t].pred]
             S == [loc[t].succs EXCEPT ![loc[t].lvl] = loc[t].curr]
  <2>1. \/ /\ loc[t].lvl > 0 /\ pc'[t] = "locpred"
           /\ loc' = [loc EXCEPT ![t].preds = P, ![t].succs = S,
                                 ![t].lvl = loc[t].lvl - 1]
        \/ /\ loc[t].lvl = 0 /\ pc'[t] = loc[t].ret
           /\ loc' = [loc EXCEPT ![t].preds = P, ![t].succs = S, ![t].found =
                         IF Equal(loc[t].curr, Key(t)) THEN loc[t].curr ELSE Nil]
    BY DEF LocRecord, Goto, Here, LocalsKept
  <2>2. P = [loc[t].preds EXCEPT ![loc[t].lvl] = loc[t].pred]
        /\ S = [loc[t].succs EXCEPT ![loc[t].lvl] = loc[t].curr]
    OBVIOUS
  <2> HIDE DEF P, S
  <2>3. Keep(t, {"preds", "succs", "lvl", "found"})
    BY <2>1 DEF Keep, Here, LocalsKept, NoLocals
  <2>4. loc'[t].preds = P /\ loc'[t].succs = S
    BY <2>1 DEF Here, LocalsKept, NoLocals
  <2>5. \/ /\ loc[t].lvl > 0 /\ pc'[t] = "locpred"
           /\ loc'[t].lvl = loc[t].lvl - 1 /\ loc'[t].found = loc[t].found
        \/ /\ loc[t].lvl = 0 /\ pc'[t] = loc[t].ret /\ loc'[t].lvl = loc[t].lvl
           /\ loc'[t].found = IF Equal(loc[t].curr, Key(t)) THEN loc[t].curr ELSE Nil
    BY <2>1 DEF Here, LocalsKept, NoLocals
  <2> QED BY <2>2, <2>3, <2>4, <2>5
<1>5. /\ ~ Marked(loc[t].curr, loc[t].lvl) /\ ~ Before(loc[t].curr, Key(t))
      /\ loc[t].lvl \in Levels /\ loc[t].pred \in Before0
      /\ Before(loc[t].pred, Key(t)) /\ loc[t].curr \in Beyond
      /\ loc[t].lvl = 0 => loc[t].curr # Nil
      /\ Equal(loc[t].curr, Key(t)) =>
            loc[t].curr \in Known /\ KeyOf[loc[t].curr] = Key(t)
  BY <1>1, ConstantFacts DEF LocRecord, Here, Locals, Values, Depths, AtLevel,
     Walking, Before, Before0, Beyond, Equal
<1>6. loc[t].ret \in Entries
  BY <1>1, <1>3 DEF Here, PlaceInv, InCall
<1>7. loc[t].lvl - 1 \in Levels \cap (0 .. MaxHeight) \/ loc[t].lvl = 0
  BY <1>5, SkipListAssumption DEF Levels
<1>8. Called(t)' /\ Own(t)'
  BY <1>1, <1>2, <1>3, <1>4, <1>5, <1>6, <1>7, OnwardKeeps DEF Here, Locals,
     Called, Onward, Keep, Entered, Linked, Locating, Placing, Entries
<1>9. Values(t)'
  BY <1>1, <1>2, <1>3, <1>4, <1>5, <1>6, <1>7 DEF Here, Locals, Values, Keep
<1>10. Depths(t)'
  BY <1>1, <1>2, <1>3, <1>4, <1>5, <1>6, <1>7, ConstantFacts DEF Here, Locals,
     Depths, Keep, Entered, Linked, Locating, AtLevel, Rising, Placing, Entries
<1>11. Walking(t)'
  BY <1>1, <1>2, <1>3, <1>4, <1>5, <1>6, <1>7 DEF Here, Locals, Walking, Keep,
     Key, Unlinking, Entries
<1>12. Dead(t)'
  BY <1>1, <1>2, <1>3, <1>4, <1>5, <1>6, <1>7 DEF Here, Locals, Dead, Keep,
     Unlinking, Entries
<1> HIDE DEF Before, Equal
<1>13. Path(t)'
  BY <1>1, <1>2, <1>3, <1>4, <1>5, <1>6, <1>7, ConstantFacts DEF Here, Locals,
     Path, Keep, Key, Node, Placed, Placing, Unlinking, Moving, Demoting,
     Entries, Values
<1> QED BY <1>1, <1>8, <1>9, <1>10, <1>11, <1>12, <1>13, CalmlyGood

-----------------------------------------------------------------------------
(***************************************************************************)
(* The steps of an insert.  Link makes the new node known: every walk that *)
(* came to its predecessor now comes to the node and then on as before.    *)
(***************************************************************************)
LEMMA ExistsGood ==
  ASSUME NEW t \in Threads, Here(t), Exists(t)
  PROVE  Good(t)
<1>1. todo' = todo /\ Calmly
  BY DEF Exists, Calmly, Still, shape, heights, Return
<1>2. Return(t, "exists")
  BY DEF Exists
<1> QED BY <1>1, <1>2, ReturnGood

LEMMA CountGood ==
  ASSUME NEW t \in Threads, Here(t), Count(t)
  PROVE  Good(t)
<1>1. todo' = todo /\ Calmly
  BY DEF Count, Calmly, Still, shape, heights, Return
<1>2. Return(t, "ok")
  BY DEF Count
<1> QED BY <1>1, <1>2, ReturnGood

LEMMA GrowGood ==
  ASSUME NEW t \in Threads, Here(t), Grow(t)
  PROVE  Good(t)
<1>1. pc[t] = "grow" /\ todo' = todo
  BY DEF Grow
<1>2. Tidy(t) /\ Known' = Known
  BY StillTidy DEF Grow, Here, Still, shape, history
<1>3. Sizes' /\ Hints'
  BY <1>1, <1>2, ConstantFacts DEF Grow, shape, heights, history, Here, Sizes,
     Hints, Before0, Locals, Depths, Placing, Levels
<1>4. /\ Before0' = Before0 /\ Beyond' = Beyond
      /\ next' = next /\ marked' = marked /\ hasDups' = hasDups
  BY <1>2 DEF Grow, shape, history, Before0, Beyond
<1>5. pc'[t] \in {"growtail", "link"}
  BY DEF Grow, Goto, Here, LocalsKept
<1>6. loc' = loc
  BY DEF Grow
<1>7. Keep(t, {})
  BY <1>6 DEF Keep
<1>8. Called(t)' /\ Own(t)'
  BY <1>1, <1>2, <1>3, <1>4, <1>5, <1>6, <1>7, OnwardKeeps DEF Here, Locals,
     Called, Onward, Keep, Entered, Linked, Locating, Placing
<1>9. Values(t)'
  BY <1>1, <1>2, <1>3, <1>4, <1>5, <1>6, <1>7 DEF Here, Locals, Values, Keep
<1>10. Depths(t)'
  BY <1>1, <1>2, <1>3, <1>4, <1>5, <1>6, <1>7, ConstantFacts DEF Here, Locals,
     Depths, Keep, Entered, Linked, Locating, AtLevel, Rising, Placing
<1>11. Walking(t)'
  BY <1>1, <1>2, <1>3, <1>4, <1>5, <1>6, <1>7 DEF Here, Locals, Walking, Keep,
     Key, Unlinking
<1>12. Dead(t)'
  BY <1>1, <1>2, <1>3, <1>4, <1>5, <1>6, <1>7 DEF Here, Locals, Dead, Keep,
     Unlinking
<1> HIDE DEF Before, Equal
<1>13. Path(t)'
  BY <1>1, <1>2, <1>3, <1>4, <1>5, <1>6, <1>7 DEF Here, Locals, Path, Keep,
     Key, Node, Placed, Placing, Unlinking, Moving, Demoting
<1> QED BY <1>2, <1>3, <1>8, <1>9, <1>10, <1>11, <1>12, <1>13 DEF Good, Locals

LEMMA GrowTailGood ==
  ASSUME NEW t \in Threads, Here(t), GrowTail(t)
  PROVE  Good(t)
<1>1. pc[t] = "growtail" /\ todo' = todo
  BY DEF GrowTail
<1>2. Tidy(t) /\ Known' = Known
  BY StillTidy DEF GrowTail, Here, Still, shape, history
<1>3. Sizes' /\ Hints'
  BY <1>1, <1>2, ConstantFacts DEF GrowTail, shape, heights, history, Here,
     Sizes, Hints, Before0, Locals, Depths, Placing, Levels
<1>4. /\ Before0' = Before0 /\ Beyond' = Beyond
      /\ next' = next /\ marked' = marked /\ hasDups' = hasDups
  BY <1>2 DEF GrowTail, shape, history, Before0, Beyond
<1>5. pc'[t] \in {"link"}
  BY DEF GrowTail, Goto, Here, LocalsKept
<1>6. loc' = loc
  BY DEF GrowTail
<1>7. Keep(t, {})
  BY <1>6 DEF Keep
<1>8. Called(t)' /\ Own(t)'
  BY <1>1, <1>2, <1>3, <1>4, <1>5, <1>6, <1>7, OnwardKeeps DEF Here, Locals,
     Called, Onward, Keep, Entered, Linked, Locating, Placing
<1>9. Values(t)'
  BY <1>1, <1>2, <1>3, <1>4, <1>5, <1>6, <1>7 DEF Here, Locals, Values, Keep
<1>10. Depths(t)'
  BY <1>1, <1>2, <1>3, <1>4, <1>5, <1>6, <1>7, ConstantFacts DEF Here, Locals,
     Depths, Keep, Entered, Linked, Locating, AtLevel, Rising, Placing
<1>11. Walking(t)'
  BY <1>1, <1>2, <1>3, <1>4, <1>5, <1>6, <1>7 DEF Here, Locals, Walking, Keep,
     Key, Unlinking
<1>12. Dead(t)'
  BY <1>1, <1>2, <1>3, <1>4, <1>5, <1>6, <1>7 DEF Here, Locals, Dead, Keep,
     Unlinking
<1> HIDE DEF Before, Equal
<1>13. Path(t)'
  BY <1>1, <1>2, <1>3, <1>4, <1>5, <1>6, <1>7 DEF Here, Locals, Path, Keep,
     Key, Node, Placed, Placing, Unlinking, Moving, Demoting
<1> QED BY <1>2, <1>3, <1>8, <1>9, <1>10, <1>11, <1>12, <1>13 DEF Good, Locals

LEMMA HelpGood ==
  ASSUME NEW t \in Threads, Here(t), Help(t)
  PROVE  Good(t)
<1>1. pc[t] = "help" /\ todo' = todo /\ Calmly
  BY DEF Help, Calmly, Still, shape, heights, history
<1>2. /\ Known' = Known /\ Before0' = Before0 /\ Beyond' = Beyond
      /\ next' = next /\ marked' = marked /\ hasDups' = hasDups
  BY <1>1, CalmlySame
<1>3. pc'[t] \in {"prev", "raise", "help", "count", "helpnext"}
  BY DEF Help, Goto, Here, LocalsKept, Helped
<1>4. /\ Keep(t, {"i", "succ"})
      /\ \/ /\ pc'[t] # "helpnext" /\ loc'[t].succ = loc[t].succ
            /\ \/ loc'[t].i = loc[t].i
               \/ loc[t].i < loc[t].high /\ loc'[t].i = loc[t].i + 1
         \/ /\ pc'[t] = "helpnext" /\ loc'[t].i = loc[t].i
            /\ loc'[t].succ = Word(Node(t), loc[t].i)
  <2>1. CASE Helped(t) BY <2>1, HelpedMoves DEF Keep
  <2>2. CASE /\ pc'[t] = "helpnext"
             /\ \E v : /\ loc' = [loc EXCEPT ![t].succ = v]
                       /\ v = Word(Node(t), loc[t].i)
    BY <2>2 DEF Keep, Here, LocalsKept, NoLocals
  <2> QED BY <2>1, <2>2 DEF Help, Goto, Here, LocalsKept, Word
<1>5. Node(t) \in Before0 /\ loc[t].i \in Nat /\ loc[t].high \in Nat /\ loc[t].high \in Levels
      /\ loc[t].i \in Levels /\ Op(t) \in Inserts
  BY <1>1, OwnLinked DEF Linked
<1>6. Word(Node(t), loc[t].i) \in Beyond
  BY <1>5, LinkedWord DEF Here, Word
<1>7. \A j \in Nat : j <= loc[t].high => j \in Levels
  BY <1>5, SkipListAssumption DEF Levels
<1>8. Called(t)' /\ Own(t)'
  BY <1>1, <1>2, <1>3, <1>4, <1>5, <1>6, <1>7, OnwardKeeps DEF Here, Locals,
     Called, Onward, Keep, Entered, Linked, Locating, Placing
<1>9. Values(t)'
  BY <1>1, <1>2, <1>3, <1>4, <1>5, <1>6, <1>7 DEF Here, Locals, Values, Keep
<1>10. Depths(t)'
  BY <1>1, <1>2, <1>3, <1>4, <1>5, <1>6, <1>7, ConstantFacts DEF Here, Locals,
     Depths, Keep, Entered, Linked, Locating, AtLevel, Rising, Placing
<1>11. Walking(t)'
  BY <1>1, <1>2, <1>3, <1>4, <1>5, <1>6, <1>7 DEF Here, Locals, Walking, Keep,
     Key, Unlinking
<1>12. Dead(t)'
  BY <1>1, <1>2, <1>3, <1>4, <1>5, <1>6, <1>7 DEF Here, Locals, Dead, Keep,
     Unlinking
<1> HIDE DEF Before, Equal
<1>13. Path(t)'
  BY <1>1, <1>2, <1>3, <1>4, <1>5, <1>6, <1>7 DEF Here, Locals, Path, Keep,
     Key, Node, Placed, Placing, Unlinking, Moving, Demoting
<1> QED BY <1>1, <1>8, <1>9, <1>10, <1>11, <1>12, <1>13, CalmlyGood

LEMMA HelpNextGood ==
  ASSUME NEW t \in Threads, Here(t), HelpNext(t)
  PROVE  Good(t)
<1>1. pc[t] = "helpnext" /\ todo' = todo /\ Calmly
  BY DEF HelpNext, Calmly, Still, shape, heights, history
<1>2. /\ Known' = Known /\ Before0' = Before0 /\ Beyond' = Beyond
      /\ next' = next /\ marked' = marked /\ hasDups' = hasDups
  BY <1>1, CalmlySame
<1>3. pc'[t] \in {"prev", "raise", "help", "count", "helpcas"}
  BY DEF HelpNext, Goto, Here, LocalsKept, Helped
<1>4. /\ Keep(t, {"i", "curr"})
      /\ \/ /\ pc'[t] # "helpcas" /\ loc'[t].curr = loc[t].curr
            /\ \/ loc'[t].i = loc[t].i
               \/ loc[t].i < loc[t].high /\ loc'[t].i = loc[t].i + 1
         \/ /\ pc'[t] = "helpcas" /\ loc'[t].i = loc[t].i
            /\ loc'[t].curr = Word(loc[t].succ, loc[t].i)
  <2>1. CASE Helped(t) BY <2>1, HelpedMoves DEF Keep
  <2>2. CASE /\ pc'[t] = "helpcas"
             /\ \E v : /\ loc' = [loc EXCEPT ![t].curr = v]
                       /\ v = Word(loc[t].succ, loc[t].i)
    BY <2>2 DEF Keep, Here, LocalsKept, NoLocals
  <2> QED BY <2>1, <2>2 DEF HelpNext, Goto, Here, LocalsKept, Word
<1>5. loc[t].i \in Nat /\ loc[t].high \in Nat /\ loc[t].high \in Levels
      /\ loc[t].i \in Levels /\ Op(t) \in Inserts
  BY <1>1, OwnLinked DEF Linked
<1>6. pc'[t] = "helpcas" =>
         /\ Marked(loc[t].succ, loc[t].i) /\ loc[t].succ \in Known
         /\ Word(loc[t].succ, loc[t].i) \in Beyond /\ Word(loc[t].succ, loc[t].i) # Head
  <2>1. pc'[t] = "helpcas" => Marked(loc[t].succ, loc[t].i)
    BY <1>1 DEF HelpNext, Helped, Goto, Here, LocalsKept
  <2>2. Marked(loc[t].succ, loc[t].i) => loc[t].succ \in Nodes
    BY MarkedWord DEF Here
  <2>3. loc[t].succ \in Nodes => loc[t].succ \in Known
    BY ConstantFacts DEF Here, Locals, Values, Beyond
  <2> QED BY <2>1, <2>2, <2>3, <1>5, LinkedWord DEF Here, Word, Before0
<1>7. \A j \in Nat : j <= loc[t].high => j \in Levels
  BY <1>5, SkipListAssumption DEF Levels
<1>8. Called(t)' /\ Own(t)'
  BY <1>1, <1>2, <1>3, <1>4, <1>5, <1>6, <1>7, OnwardKeeps DEF Here, Locals,
     Called, Onward, Keep, Entered, Linked, Locating, Placing
<1>9. Values(t)'
  BY <1>1, <1>2, <1>3, <1>4, <1>5, <1>6, <1>7 DEF Here, Locals, Values, Keep,
     Beyond, Before0
<1>10. Depths(t)'
  BY <1>1, <1>2, <1>3, <1>4, <1>5, <1>6, <1>7, ConstantFacts DEF Here, Locals,
     Depths, Keep, Entered, Linked, Locating, AtLevel, Rising, Placing
<1>11. Walking(t)'
  BY <1>1, <1>2, <1>3, <1>4, <1>5, <1>6, <1>7 DEF Here, Locals, Walking, Keep,
     Key, Unlinking
<1>12. Dead(t)'
  BY <1>1, <1>2, <1>3, <1>4, <1>5, <1>6, <1>7 DEF Here, Locals, Dead, Keep,
     Unlinking, Word, Marked
<1> HIDE DEF Before, Equal
<1>13. Path(t)'
  BY <1>1, <1>2, <1>3, <1>4, <1>5, <1>6, <1>7 DEF Here, Locals, Path, Keep,
     Key, Node, Placed, Placing, Unlinking, Moving, Demoting
<1> QED BY <1>1, <1>8, <1>9, <1>10, <1>11, <1>12, <1>13, CalmlyGood

LEMMA HelpCasGood ==
  ASSUME NEW t \in Threads, Here(t), HelpCas(t)
  PROVE  Good(t)
<1>1. pc[t] = "helpcas" /\ todo' = todo
  BY DEF HelpCas
<1>2. Tidy(t) /\ Known' = Known
  <2>1. UNCHANGED <<marked, live, hasDups>> BY DEF HelpCas, history
  <2>2. CASE next' = next BY <2>1, <2>2, StillTidy DEF Here, Still
  <2>3. CASE /\ Swing(Node(t), loc[t].i, loc[t].curr)
             /\ Holds(Node(t), loc[t].i, loc[t].succ)
    <3>1. /\ loc[t].i \in Levels /\ Node(t) \in Before0 /\ Node(t) # Nil
          /\ loc[t].succ \in Known
      BY <1>1, OwnLinked, KnownNodes DEF Here, Locals, Dead, Linked
    <3>2. loc[t].curr \in Beyond
      BY <1>1 DEF Here, Locals, Values, Walking, Before0, Beyond
    <3>3. loc[t].i = 0 => /\ Marked(loc[t].succ, 0)
                          /\ loc[t].curr = next[loc[t].succ, 0]
      BY <1>1 DEF Here, Locals, Dead
    <3>4. SwingTo(Node(t), loc[t].i, loc[t].curr)
      BY <2>3, <3>1, <3>2, <3>3 DEF SwingTo, Swing, Holds
    <3> QED BY <2>1, <3>4, SwingTidy DEF Here, Words, Marked
  <2> QED BY <2>2, <2>3 DEF HelpCas
<1>3. Sizes' /\ Hints'
  BY <1>2 DEF HelpCas, shape, heights, history, Here, Sizes, Hints, Before0
<1>4. pc'[t] \in {"prev", "raise", "help", "count"}
  BY DEF HelpCas, Goto, Here, LocalsKept, Helped
<1>5. /\ Keep(t, {"i"})
      /\ \/ loc'[t].i = loc[t].i
         \/ loc[t].i < loc[t].high /\ loc'[t].i = loc[t].i + 1
  <2>1. CASE Helped(t) BY <2>1, HelpedMoves DEF Keep
  <2>2. CASE UNCHANGED loc BY <2>2 DEF Keep
  <2> QED BY <2>1, <2>2 DEF HelpCas
<1>6. loc[t].i \in Nat /\ loc[t].high \in Nat /\ loc[t].high \in Levels
      /\ loc[t].i \in Levels /\ Op(t) \in Inserts
  BY <1>1, OwnLinked DEF Linked
<1>7. Before0' = Before0 /\ Beyond' = Beyond
  BY <1>2 DEF Before0, Beyond
<1>8. \A j \in Nat : j <= loc[t].high => j \in Levels
  BY <1>6, SkipListAssumption DEF Levels
<1>9. Called(t)' /\ Own(t)'
  BY <1>1, <1>2, <1>3, <1>4, <1>5, <1>6, <1>7, <1>8, OnwardKeeps DEF Here,
     Locals, Called, Onward, Keep, Entered, Linked, Locating, Placing
<1>10. Values(t)'
  BY <1>1, <1>2, <1>3, <1>4, <1>5, <1>6, <1>7, <1>8 DEF Here, Locals, Values,
     Keep
<1>11. Depths(t)'
  BY <1>1, <1>2, <1>3, <1>4, <1>5, <1>6, <1>7, <1>8, ConstantFacts DEF Here,
     Locals, Depths, Keep, Entered, Linked, Locating, AtLevel, Rising, Placing
<1>12. Walking(t)'
  BY <1>1, <1>2, <1>3, <1>4, <1>5, <1>6, <1>7, <1>8 DEF Here, Locals, Walking,
     Keep, Key, Unlinking
<1>13. Dead(t)'
  BY <1>1, <1>2, <1>3, <1>4, <1>5, <1>6, <1>7, <1>8 DEF Here, Locals, Dead,
     Keep, Unlinking
<1> HIDE DEF Before, Equal
<1>14. Path(t)'
  BY <1>1, <1>2, <1>3, <1>4, <1>5, <1>6, <1>7, <1>8 DEF Here, Locals, Path,
     Keep, Key, Node, Placed, Placing, Unlinking, Moving, Demoting
<1> QED BY <1>2, <1>3, <1>9, <1>10, <1>11, <1>12, <1>13, <1>14 DEF Good, Locals

LEMMA RaiseGood ==
  ASSUME NEW t \in Threads, Here(t), Raise(t)
  PROVE  Good(t)
<1>1. pc[t] = "raise" /\ todo' = todo /\ Calmly
  BY DEF Raise, Calmly, Still, shape, heights, history
<1>2. /\ Known' = Known /\ Before0' = Before0 /\ Beyond' = Beyond
      /\ next' = next /\ marked' = marked /\ hasDups' = hasDups
  BY <1>1, CalmlySame
<1>3. pc'[t] \in {"prev", "raisecas", "raiseset"}
  BY DEF Raise, Goto, Here, LocalsKept
<1>4. loc' = loc
  BY DEF Raise
<1>5. Keep(t, {})
  BY <1>4 DEF Keep
<1>6. loc[t].i \in Nat /\ loc[t].high \in Nat /\ loc[t].high \in Levels
      /\ loc[t].i \in Levels /\ Op(t) \in Inserts
  BY <1>1, OwnLinked DEF Linked
<1>7. Called(t)' /\ Own(t)'
  BY <1>1, <1>2, <1>3, <1>4, <1>5, <1>6, OnwardKeeps DEF Here, Locals, Called,
     Onward, Keep, Entered, Linked, Locating, Placing
<1>8. Values(t)'
  BY <1>1, <1>2, <1>3, <1>4, <1>5, <1>6 DEF Here, Locals, Values, Keep
<1>9. Depths(t)'
  BY <1>1, <1>2, <1>3, <1>4, <1>5, <1>6, ConstantFacts DEF Here, Locals,
     Depths, Keep, Entered, Linked, Locating, AtLevel, Rising, Placing
<1>10. Walking(t)'
  BY <1>1, <1>2, <1>3, <1>4, <1>5, <1>6 DEF Here, Locals, Walking, Keep, Key,
     Unlinking
<1>11. Dead(t)'
  BY <1>1, <1>2, <1>3, <1>4, <1>5, <1>6 DEF Here, Locals, Dead, Keep, Unlinking
<1> HIDE DEF Before, Equal
<1>12. Path(t)'
  BY <1>1, <1>2, <1>3, <1>4, <1>5, <1>6 DEF Here, Locals, Path, Keep, Key,
     Node, Placed, Placing, Unlinking, Moving, Demoting
<1> QED BY <1>1, <1>7, <1>8, <1>9, <1>10, <1>11, <1>12, CalmlyGood

LEMMA RelinkGood ==
  ASSUME NEW t \in Threads, Here(t), Relink(t)
  PROVE  Good(t)
<1>1. pc[t] = "relink" /\ todo' = todo /\ Calmly
  BY DEF Relink, Calmly, Still, shape, heights, history
<1>2. /\ Known' = Known /\ Before0' = Before0 /\ Beyond' = Beyond
      /\ next' = next /\ marked' = marked /\ hasDups' = hasDups
  BY <1>1, CalmlySame
<1>3. pc'[t] \in {"prev", "raise"}
  BY DEF Relink, Goto, Here, LocalsKept
<1>4. loc' = loc
  BY DEF Relink
<1>5. Keep(t, {})
  BY <1>4 DEF Keep
<1>6. loc[t].i \in Nat /\ loc[t].high \in Nat /\ loc[t].high \in Levels
      /\ loc[t].i \in Levels /\ Op(t) \in Inserts
  BY <1>1, OwnLinked DEF Linked
<1>7. Called(t)' /\ Own(t)'
  BY <1>1, <1>2, <1>3, <1>4, <1>5, <1>6, OnwardKeeps DEF Here, Locals, Called,
     Onward, Keep, Entered, Linked, Locating, Placing
<1>8. Values(t)'
  BY <1>1, <1>2, <1>3, <1>4, <1>5, <1>6 DEF Here, Locals, Values, Keep
<1>9. Depths(t)'
  BY <1>1, <1>2, <1>3, <1>4, <1>5, <1>6, ConstantFacts DEF Here, Locals,
     Depths, Keep, Entered, Linked, Locating, AtLevel, Rising, Placing
<1>10. Walking(t)'
  BY <1>1, <1>2, <1>3, <1>4, <1>5, <1>6 DEF Here, Locals, Walking, Keep, Key,
     Unlinking
<1>11. Dead(t)'
  BY <1>1, <1>2, <1>3, <1>4, <1>5, <1>6 DEF Here, Locals, Dead, Keep, Unlinking
<1> HIDE DEF Before, Equal
<1>12. Path(t)'
  BY <1>1, <1>2, <1>3, <1>4, <1>5, <1>6 DEF Here, Locals, Path, Keep, Key,
     Node, Placed, Placing, Unlinking, Moving, Demoting
<1> QED BY <1>1, <1>7, <1>8, <1>9, <1>10, <1>11, <1>12, CalmlyGood

LEMMA RaiseSetGood ==
  ASSUME NEW t \in Threads, Here(t), RaiseSet(t)
  PROVE  Good(t)
<1>1. pc[t] = "raiseset" /\ todo' = todo
  BY DEF RaiseSet
<1>2. Tidy(t) /\ Known' = Known
  <2>1. UNCHANGED <<live, hasDups>> BY DEF RaiseSet, history
  <2>2. /\ Node(t) \in Before0 /\ loc[t].i \in Levels
    BY <1>1, OwnLinked DEF Linked
  <2>3. loc[t].i # 0 BY <1>1 DEF Here, PlaceInv, InCall, Raising
  <2>4. loc[t].succs[loc[t].i] \in Beyond
    BY <2>2 DEF Here, Locals, Values
  <2>5. SwingTo(Node(t), loc[t].i, loc[t].succs[loc[t].i])
    BY <2>2, <2>3, <2>4 DEF SwingTo, RaiseSet, Swing
  <2>6. /\ marked' \subseteq Nodes \X Levels
        /\ \A n \in Nodes : Marked(n, 0)' <=> Marked(n, 0)
    BY <2>3 DEF RaiseSet, Marked, Here, Words
  <2> QED BY <2>1, <2>5, <2>6, SwingTidy DEF Here
<1>3. Sizes' /\ Hints'
  BY <1>2 DEF RaiseSet, shape, heights, history, Here, Sizes, Hints, Before0
<1>4. pc'[t] \in {"raisecas"}
  BY DEF RaiseSet, Goto, Here, LocalsKept
<1>5. loc' = loc
  BY DEF RaiseSet
<1>6. Keep(t, {})
  BY <1>5 DEF Keep
<1>7. loc[t].i \in Nat /\ loc[t].high \in Nat /\ loc[t].high \in Levels
      /\ loc[t].i \in Levels /\ Op(t) \in Inserts
  BY <1>1, OwnLinked DEF Linked
<1>8. Before0' = Before0 /\ Beyond' = Beyond
  BY <1>2 DEF Before0, Beyond
<1>9. Called(t)' /\ Own(t)'
  BY <1>1, <1>2, <1>3, <1>4, <1>5, <1>6, <1>7, <1>8, OnwardKeeps DEF Here,
     Locals, Called, Onward, Keep, Entered, Linked, Locating, Placing
<1>10. Values(t)'
  BY <1>1, <1>2, <1>3, <1>4, <1>5, <1>6, <1>7, <1>8 DEF Here, Locals, Values,
     Keep
<1>11. Depths(t)'
  BY <1>1, <1>2, <1>3, <1>4, <1>5, <1>6, <1>7, <1>8, ConstantFacts DEF Here,
     Locals, Depths, Keep, Entered, Linked, Locating, AtLevel, Rising, Placing
<1>12. Walking(t)'
  BY <1>1, <1>2, <1>3, <1>4, <1>5, <1>6, <1>7, <1>8 DEF Here, Locals, Walking,
     Keep, Key, Unlinking
<1>13. Dead(t)'
  BY <1>1, <1>2, <1>3, <1>4, <1>5, <1>6, <1>7, <1>8 DEF Here, Locals, Dead,
     Keep, Unlinking
<1> HIDE DEF Before, Equal
<1>14. Path(t)'
  BY <1>1, <1>2, <1>3, <1>4, <1>5, <1>6, <1>7, <1>8 DEF Here, Locals, Path,
     Keep, Key, Node, Placed, Placing, Unlinking, Moving, Demoting
<1> QED BY <1>2, <1>3, <1>9, <1>10, <1>11, <1>12, <1>13, <1>14 DEF Good, Locals

LEMMA RaiseCasGood ==
  ASSUME NEW t \in Threads, Here(t), RaiseCas(t)
  PROVE  Good(t)
<1>1. pc[t] = "raisecas" /\ todo' = todo
  BY DEF RaiseCas
<1>2. Tidy(t) /\ Known' = Known
  <2>1. UNCHANGED <<marked, live, hasDups>> BY DEF RaiseCas, history
  <2>2. /\ Node(t) \in Beyond /\ loc[t].i \in Levels
    BY <1>1, OwnLinked DEF Linked, Beyond
  <2>3. loc[t].i # 0 BY <1>1 DEF Here, PlaceInv, InCall, Raising
  <2>4. loc[t].preds[loc[t].i] \in Before0 \cup {Nil}
    BY <2>2 DEF Here, Locals, Values
  <2>5. SwingTo(loc[t].preds[loc[t].i], loc[t].i, Node(t))
    BY <2>2, <2>3, <2>4 DEF SwingTo, RaiseCas, Swing
  <2> QED BY <2>1, <2>5, SwingTidy DEF Here, Words, Marked
<1>3. Sizes' /\ Hints'
  BY <1>2 DEF RaiseCas, shape, heights, history, Here, Sizes, Hints, Before0
<1>4. pc'[t] \in {"raise", "prev"}
  BY DEF RaiseCas, Goto, Here, LocalsKept
<1>5. \/ loc' = loc
      \/ /\ loc[t].i < loc[t].high
         /\ \E v : loc' = [loc EXCEPT ![t].i = v] /\ v = loc[t].i + 1
  BY DEF RaiseCas, Goto, Here, LocalsKept
<1>6. /\ Keep(t, {"i"})
      /\ \/ loc'[t].i = loc[t].i
         \/ loc[t].i < loc[t].high /\ loc'[t].i = loc[t].i + 1
  BY <1>5 DEF Keep, Here, LocalsKept, NoLocals
<1>7. loc[t].i \in Nat /\ loc[t].high \in Nat /\ loc[t].high \in Levels
      /\ loc[t].i \in Levels /\ Op(t) \in Inserts
  BY <1>1, OwnLinked DEF Linked
<1>8. Before0' = Before0 /\ Beyond' = Beyond
  BY <1>2 DEF Before0, Beyond
<1>9. \A j \in Nat : j <= loc[t].high => j \in Levels
  BY <1>7, SkipListAssumption DEF Levels
<1>10. Called(t)' /\ Own(t)'
  BY <1>1, <1>2, <1>3, <1>4, <1>6, <1>7, <1>8, <1>9, OnwardKeeps DEF Here,
     Locals, Called, Onward, Keep, Entered, Linked, Locating, Placing
<1>11. Values(t)'
  BY <1>1, <1>2, <1>3, <1>4, <1>6, <1>7, <1>8, <1>9 DEF Here, Locals, Values,
     Keep
<1>12. Depths(t)'
  BY <1>1, <1>2, <1>3, <1>4, <1>6, <1>7, <1>8, <1>9, ConstantFacts DEF Here,
     Locals, Depths, Keep, Entered, Linked, Locating, AtLevel, Rising, Placing
<1>13. Walking(t)'
  BY <1>1, <1>2, <1>3, <1>4, <1>6, <1>7, <1>8, <1>9 DEF Here, Locals, Walking,
     Keep, Key, Unlinking
<1>14. Dead(t)'
  BY <1>1, <1>2, <1>3, <1>4, <1>6, <1>7, <1>8, <1>9 DEF Here, Locals, Dead,
     Keep, Unlinking
<1> HIDE DEF Before, Equal
<1>15. Path(t)'
  BY <1>1, <1>2, <1>3, <1>4, <1>6, <1>7, <1>8, <1>9 DEF Here, Locals, Path,
     Keep, Key, Node, Placed, Placing, Unlinking, Moving, Demoting
<1> QED BY <1>2, <1>3, <1>10, <1>11, <1>12, <1>13, <1>14, <1>15 DEF Good,
     Locals

LEMMA RaiseAgainGood ==
  ASSUME NEW t \in Threads, Here(t), RaiseAgain(t)
  PROVE  Good(t)
<1>1. pc[t] = "raisecas" /\ todo' = todo /\ Calmly
  BY DEF RaiseAgain, Calmly, Still, shape, heights, history
<1>2. /\ Known' = Known /\ Before0' = Before0 /\ Beyond' = Beyond
      /\ next' = next /\ marked' = marked /\ hasDups' = hasDups
  BY <1>1, CalmlySame
<1>3. pc'[t] \in {"locate"}
  BY DEF RaiseAgain, Goto, Here, LocalsKept
<1>4. \E v : loc' = [loc EXCEPT ![t].ret = v] /\ v = "relink"
  BY DEF RaiseAgain, Goto, Here, LocalsKept
<1>5. /\ Keep(t, {"ret"})
      /\ loc'[t].ret = "relink"
  BY <1>4 DEF Keep, Here, LocalsKept, NoLocals
<1>6. loc[t].i \in Nat /\ loc[t].high \in Nat /\ loc[t].high \in Levels
      /\ loc[t].i \in Levels /\ Op(t) \in Inserts
  BY <1>1, OwnLinked DEF Linked
<1>7. Called(t)' /\ Own(t)'
  BY <1>1, <1>2, <1>3, <1>5, <1>6, OnwardKeeps DEF Here, Locals, Called,
     Onward, Keep, Entered, Linked, Locating, Placing
<1>8. Values(t)'
  BY <1>1, <1>2, <1>3, <1>5, <1>6 DEF Here, Locals, Values, Keep
<1>9. Depths(t)'
  BY <1>1, <1>2, <1>3, <1>5, <1>6, ConstantFacts DEF Here, Locals, Depths,
     Keep, Entered, Linked, Locating, AtLevel, Rising, Placing
<1>10. Walking(t)'
  BY <1>1, <1>2, <1>3, <1>5, <1>6 DEF Here, Locals, Walking, Keep, Key,
     Unlinking
<1>11. Dead(t)'
  BY <1>1, <1>2, <1>3, <1>5, <1>6 DEF Here, Locals, Dead, Keep, Unlinking
<1> HIDE DEF Before, Equal
<1>12. Path(t)'
  BY <1>1, <1>2, <1>3, <1>5, <1>6 DEF Here, Locals, Path, Keep, Key, Node,
     Placed, Placing, Unlinking, Moving, Demoting
<1> QED BY <1>1, <1>7, <1>8, <1>9, <1>10, <1>11, <1>12, CalmlyGood

LEMMA PrevGood ==
  ASSUME NEW t \in Threads, Here(t), Prev(t)
  PROVE  Good(t)
<1>1. pc[t] = "prev" /\ todo' = todo
  BY DEF Prev
<1>2. Tidy(t) /\ Known' = Known
  BY StillTidy DEF Prev, Here, Still, shape, history
<1>3. Sizes' /\ Hints'
  <2>1. loc[t].preds[0] \in Before0 \cup {Nil}
    BY ConstantFacts DEF Here, Locals, Values
  <2>2. prev' \in [Cells -> Before0 \cup {Nil}]
    BY <2>1 DEF Prev, Here, Hints
  <2> QED BY <1>2, <2>2 DEF Prev, shape, heights, Here, Sizes, Hints, Before0
<1>4. pc'[t] \in {"prevsucc"}
  BY DEF Prev, Goto, Here, LocalsKept
<1>5. loc' = loc
  BY DEF Prev
<1>6. Keep(t, {})
  BY <1>5 DEF Keep
<1>7. loc[t].i \in Nat /\ loc[t].high \in Nat /\ loc[t].high \in Levels
      /\ loc[t].i \in Levels /\ Op(t) \in Inserts
  BY <1>1, OwnLinked DEF Linked
<1>8. Before0' = Before0 /\ Beyond' = Beyond
  BY <1>2 DEF Before0, Beyond
<1>9. Called(t)' /\ Own(t)'
  BY <1>1, <1>2, <1>3, <1>4, <1>5, <1>6, <1>7, <1>8, OnwardKeeps DEF Here,
     Locals, Called, Onward, Keep, Entered, Linked, Locating, Placing
<1>10. Values(t)'
  BY <1>1, <1>2, <1>3, <1>4, <1>5, <1>6, <1>7, <1>8 DEF Here, Locals, Values,
     Keep
<1>11. Depths(t)'
  BY <1>1, <1>2, <1>3, <1>4, <1>5, <1>6, <1>7, <1>8, ConstantFacts DEF Here,
     Locals, Depths, Keep, Entered, Linked, Locating, AtLevel, Rising, Placing
<1>12. Walking(t)'
  BY <1>1, <1>2, <1>3, <1>4, <1>5, <1>6, <1>7, <1>8 DEF Here, Locals, Walking,
     Keep, Key, Unlinking
<1>13. Dead(t)'
  BY <1>1, <1>2, <1>3, <1>4, <1>5, <1>6, <1>7, <1>8 DEF Here, Locals, Dead,
     Keep, Unlinking
<1> HIDE DEF Before, Equal
<1>14. Path(t)'
  BY <1>1, <1>2, <1>3, <1>4, <1>5, <1>6, <1>7, <1>8 DEF Here, Locals, Path,
     Keep, Key, Node, Placed, Placing, Unlinking, Moving, Demoting
<1> QED BY <1>2, <1>3, <1>9, <1>10, <1>11, <1>12, <1>13, <1>14 DEF Good, Locals

LEMMA PrevSuccGood ==
  ASSUME NEW t \in Threads, Here(t), PrevSucc(t)
  PROVE  Good(t)
<1>1. pc[t] = "prevsucc" /\ todo' = todo /\ Calmly
  BY DEF PrevSucc, Calmly, Still, shape, heights, history
<1>2. /\ Known' = Known /\ Before0' = Before0 /\ Beyond' = Beyond
      /\ next' = next /\ marked' = marked /\ hasDups' = hasDups
  BY <1>1, CalmlySame
<1>3. pc'[t] \in {"help", "count", "prevcas"}
  BY DEF PrevSucc, Goto, Here, LocalsKept, Above
<1>4. /\ Keep(t, {"i", "succ"})
      /\ \/ /\ pc'[t] # "prevcas" /\ loc'[t].succ = loc[t].succ
            /\ \/ loc'[t].i = loc[t].i
               \/ loc[t].high > 0 /\ loc'[t].i = 1
         \/ /\ pc'[t] = "prevcas" /\ loc'[t].i = loc[t].i
            /\ loc'[t].succ = Word(Node(t), 0)
  <2>1. CASE Above(t) BY <2>1, AboveMoves DEF Keep
  <2>2. CASE /\ pc'[t] = "prevcas"
             /\ \E v : loc' = [loc EXCEPT ![t].succ = v] /\ v = Word(Node(t), 0)
    BY <2>2 DEF Keep, Here, LocalsKept, NoLocals
  <2> QED BY <2>1, <2>2 DEF PrevSucc, Goto, Here, LocalsKept, Word
<1>5. loc[t].i \in Nat /\ loc[t].high \in Nat /\ loc[t].high \in Levels
      /\ loc[t].i \in Levels /\ Op(t) \in Inserts
  BY <1>1, OwnLinked DEF Linked
<1>6. Word(Node(t), 0) \in Beyond /\ Word(Node(t), 0) # Nil
  BY <1>1, OwnLinked, LinkedWord, ConstantFacts DEF Here, Word, Linked
<1>7. \A j \in Nat : j <= loc[t].high => j \in Levels
  BY <1>5, SkipListAssumption DEF Levels
<1>8. Called(t)' /\ Own(t)'
  BY <1>1, <1>2, <1>3, <1>4, <1>5, <1>6, <1>7, OnwardKeeps DEF Here, Locals,
     Called, Onward, Keep, Entered, Linked, Locating, Placing
<1>9. Values(t)'
  BY <1>1, <1>2, <1>3, <1>4, <1>5, <1>6, <1>7 DEF Here, Locals, Values, Keep
<1>10. Depths(t)'
  BY <1>1, <1>2, <1>3, <1>4, <1>5, <1>6, <1>7, ConstantFacts DEF Here, Locals,
     Depths, Keep, Entered, Linked, Locating, AtLevel, Rising, Placing
<1>11. Walking(t)'
  BY <1>1, <1>2, <1>3, <1>4, <1>5, <1>6, <1>7 DEF Here, Locals, Walking, Keep,
     Key, Unlinking
<1>12. Dead(t)'
  BY <1>1, <1>2, <1>3, <1>4, <1>5, <1>6, <1>7 DEF Here, Locals, Dead, Keep,
     Unlinking
<1> HIDE DEF Before, Equal
<1>13. Path(t)'
  BY <1>1, <1>2, <1>3, <1>4, <1>5, <1>6, <1>7 DEF Here, Locals, Path, Keep,
     Key, Node, Placed, Placing, Unlinking, Moving, Demoting
<1> QED BY <1>1, <1>8, <1>9, <1>10, <1>11, <1>12, <1>13, CalmlyGood

LEMMA PrevCasGood ==
  ASSUME NEW t \in Threads, Here(t), PrevCas(t)
  PROVE  Good(t)
<1>1. pc[t] = "prevcas" /\ todo' = todo
  BY DEF PrevCas
<1>2. Tidy(t) /\ Known' = Known
  BY StillTidy DEF PrevCas, Here, Still, shape, history
<1>3. Sizes' /\ Hints'
  <2>1. Node(t) \in Before0 BY <1>1, OwnLinked DEF Linked
  <2>2. prev' \in [Cells -> Before0 \cup {Nil}]
    BY <2>1 DEF PrevCas, Here, Hints
  <2> QED BY <1>2, <2>2 DEF PrevCas, shape, heights, Here, Sizes, Hints, Before0
<1>4. pc'[t] \in {"help", "count"}
  BY DEF PrevCas, Goto, Here, LocalsKept, Above
<1>5. /\ Keep(t, {"i"})
      /\ \/ loc'[t].i = loc[t].i
         \/ loc[t].high > 0 /\ loc'[t].i = 1
  BY AboveMoves DEF PrevCas, Keep
<1>6. loc[t].i \in Nat /\ loc[t].high \in Nat /\ loc[t].high \in Levels
      /\ loc[t].i \in Levels /\ Op(t) \in Inserts
  BY <1>1, OwnLinked DEF Linked
<1>7. Before0' = Before0 /\ Beyond' = Beyond
  BY <1>2 DEF Before0, Beyond
<1>8. \A j \in Nat : j <= loc[t].high => j \in Levels
  BY <1>6, SkipListAssumption DEF Levels
<1>9. Called(t)' /\ Own(t)'
  BY <1>1, <1>2, <1>3, <1>4, <1>5, <1>6, <1>7, <1>8, OnwardKeeps DEF Here,
     Locals, Called, Onward, Keep, Entered, Linked, Locating, Placing
<1>10. Values(t)'
  BY <1>1, <1>2, <1>3, <1>4, <1>5, <1>6, <1>7, <1>8 DEF Here, Locals, Values,
     Keep
<1>11. Depths(t)'
  BY <1>1, <1>2, <1>3, <1>4, <1>5, <1>6, <1>7, <1>8, ConstantFacts DEF Here,
     Locals, Depths, Keep, Entered, Linked, Locating, AtLevel, Rising, Placing
<1>12. Walking(t)'
  BY <1>1, <1>2, <1>3, <1>4, <1>5, <1>6, <1>7, <1>8 DEF Here, Locals, Walking,
     Keep, Key, Unlinking
<1>13. Dead(t)'
  BY <1>1, <1>2, <1>3, <1>4, <1>5, <1>6, <1>7, <1>8 DEF Here, Locals, Dead,
     Keep, Unlinking
<1> HIDE DEF Before, Equal
<1>14. Path(t)'
  BY <1>1, <1>2, <1>3, <1>4, <1>5, <1>6, <1>7, <1>8 DEF Here, Locals, Path,
     Keep, Key, Node, Placed, Placing, Unlinking, Moving, Demoting
<1> QED BY <1>2, <1>3, <1>9, <1>10, <1>11, <1>12, <1>13, <1>14 DEF Good, Locals

LEMMA LinkGood ==
  ASSUME NEW t \in Threads, Here(t), Link(t)
  PROVE  Good(t)
<1>1. pc[t] = "link" /\ todo' = todo /\ prev' = prev BY DEF Link
<1>2. /\ Inserting(t) /\ Node(t) \in Nodes \ Known /\ KeyOf[Node(t)] = Key(t)
      /\ \A C \in todo[t] : \A c \in C : c.op \in Inserts => c.node # Node(t)
  BY <1>1, OwnNode DEF Placing
<1>3. CASE UNCHANGED <<next, loc, history>> /\ Goto(t, "locate")
  <2>1. Calmly BY <1>3 DEF Link, Calmly, Still, heights, history
  <2>2. /\ Known' = Known /\ Before0' = Before0 /\ Beyond' = Beyond
        /\ next' = next /\ marked' = marked /\ hasDups' = hasDups
    BY <2>1, CalmlySame
  <2>3. pc'[t] = "locate" /\ loc' = loc BY <1>3 DEF Goto, Here, LocalsKept
  <2>4. loc[t].ret # "relink"
    BY <1>1 DEF Here, PlaceInv, InCall, NotRelinking
  <2>5. Called(t)' /\ Own(t)'
    BY <1>1, <2>2, <2>3, <2>4, OnwardKeeps DEF Here, Locals, Called, Onward,
       Entered, Linked, Locating, Placing
  <2>6. Values(t)' BY <2>2, <2>3 DEF Here, Locals, Values
  <2>7. Depths(t)'
    BY <2>3, <2>4 DEF Here, Locals, Depths, Entered, Linked, Locating, AtLevel,
       Rising, Placing
  <2>8. Walking(t)' BY <1>1, <2>3 DEF Here, Locals, Walking, Key
  <2>9. Dead(t)' BY <2>3 DEF Dead, Unlinking
  <2>10. Path(t)' BY <2>3 DEF Path, Placed, Placing, Unlinking, Moving, Demoting
  <2> QED
    BY <2>1, <2>5, <2>6, <2>7, <2>8, <2>9, <2>10, CalmlyGood
<1>4. CASE /\ Holds(loc[t].preds[0], 0, loc[t].succs[0])
           /\ Swing(loc[t].preds[0], 0, Node(t))
           /\ Becomes(live \cup {Node(t)})
           /\ loc' = [loc EXCEPT ![t].i = 0] /\ Goto(t, "help")
  <2> DEFINE p == loc[t].preds[0]
  <2>1. /\ next[p, 0] = loc[t].succs[0] /\ ~ Marked(p, 0)
        /\ next' = [next EXCEPT ![<<p, 0>>] = Node(t)]
        /\ live' = live \cup {Node(t)} /\ marked' = marked /\ hasDups' = hasDups
        /\ height' = height /\ headHeight' = headHeight
        /\ tailHeight' = tailHeight
    BY <1>4 DEF Link, Holds, Swing, Becomes, heights
  <2>2. /\ Before(p, Key(t)) /\ p \in Before0 \cup {Nil}
        /\ next[Node(t), 0] = loc[t].succs[0]
    BY <1>1, ConstantFacts DEF Here, Locals, Path, Placed, Placing, Values
  <2> HIDE DEF p
  <2>3. p \in Before0 /\ (p \in Nodes => Ordered(p, Node(t)))
    BY <2>2, <1>2, ConstantFacts DEF Before, Before0, Ordered
  <2>4. Tidy(t) /\ Known' = Known \cup {Node(t)}
    BY <1>2, <2>1, <2>2, <2>3, LinkTidy DEF Here
  <2>5. /\ Known \subseteq Known' /\ Before0 \subseteq Before0'
        /\ Beyond \subseteq Beyond'
    BY <2>4 DEF Before0, Beyond
  <2>6. Sizes' /\ Hints'
    BY <1>1, <2>1, <2>5 DEF Here, Sizes, Hints
  <2>7. pc'[t] = "help" BY <1>4 DEF Goto, Here, LocalsKept
  <2>8. Keep(t, {"i"}) /\ loc'[t].i = 0
    BY <1>4 DEF Keep, Here, LocalsKept, NoLocals
  <2>9. loc[t].high \in Levels /\ 0 <= loc[t].high
    <3>1. loc[t].high \in Levels BY DEF Here, Locals, Depths
    <3> QED BY <3>1, SkipListAssumption DEF Levels
  <2>10. /\ (Node(t))' = Node(t) /\ Op(t)' = Op(t) /\ Op(t) \in Inserts
         /\ pc[t] # "idle"
    BY <1>1, <1>2, <2>8 DEF Keep, Node, Op, Inserting
  <2>11. Called(t)'
    BY <1>1, <2>7, <2>8, <2>10 DEF Here, Locals, Called, Keep, Op
  <2>12. Own(t)'
    <3>1. Entered(t)' BY <2>7 DEF Entered, Linked
    <3>2. \A C \in todo[t] : \A c \in C : c.op \in Inserts => c.node \notin Known'
      BY <1>2, <2>4 DEF Here, Locals, Own
    <3> QED BY <1>1, <2>4, <2>10, <3>1, <3>2 DEF Own
  <2>13. Values(t)' BY <2>5, <2>8 DEF Here, Locals, Values, Keep
  <2>14. Depths(t)'
    BY <2>7, <2>8, <2>9, ConstantFacts DEF Here, Locals, Depths, Keep, AtLevel,
       Rising, Placing
  <2>15. Walking(t)'
    BY <1>1, <2>7, <2>8 DEF Here, Locals, Walking, Keep, Key
  <2>16. Dead(t)' BY <2>7 DEF Dead, Unlinking
  <2>17. Path(t)' BY <2>7 DEF Path, Placed, Placing, Unlinking, Moving, Demoting
  <2> QED
    BY <2>4, <2>6, <2>11, <2>12, <2>13, <2>14, <2>15, <2>16, <2>17 DEF Good,
         Locals
<1> QED BY <1>3, <1>4 DEF Link

LEMMA TossGood ==
  ASSUME NEW t \in Threads, Here(t), Toss(t)
  PROVE  Good(t)
<1> DEFINE preds(h) == [l \in Levels |->
               IF l \in loc[t].top .. h THEN Head ELSE loc[t].preds[l]]
           succs(h) == [l \in Levels |->
               IF l \in loc[t].top .. h THEN Tail ELSE loc[t].succs[l]]
<1>1. /\ pc[t] = "insert" /\ todo' = todo /\ prev' = prev
      /\ marked' = marked /\ live' = live
      /\ headHeight' = headHeight /\ tailHeight' = tailHeight
      /\ loc[t].found # Nil => loc[t].call.op = "insert_dup"
      /\ hasDups' = (hasDups \/ loc[t].found # Nil)
  BY DEF Toss, heights, history
<1>2. PICK h \in 0 .. MaxHeight - 2 :
         /\ h <= loc[t].top
         /\ height' = [height EXCEPT ![Node(t)] = h]
         /\ loc' = [loc EXCEPT ![t].preds = preds(h), ![t].succs = succs(h),
                               ![t].high = h]
         /\ next' = [w \in Cells \X Levels |->
               IF w[1] = Node(t) /\ w[2] <= h THEN succs(h)[w[2]] ELSE next[w]]
         /\ pc'[t] \in {"grow", "link"}
  BY DEF Toss, Goto, Here, LocalsKept
<1>3. /\ Inserting(t) /\ Node(t) \in Nodes \ Known /\ KeyOf[Node(t)] = Key(t)
      /\ loc[t].ret # "relink" /\ pc[t] # "idle"
  BY <1>1, OwnNode DEF Here, PlaceInv, InCall, NotRelinking
<1>4. /\ h \in Levels /\ h + 1 \in Levels /\ h \in Nat /\ h >= 0
      /\ loc[t].top \in Levels /\ loc[t].top \in Nat
  BY SkipListAssumption, ConstantFacts DEF Levels, Here, Locals, Depths
<1>5. /\ preds(h) \in [Levels -> Before0 \cup {Nil}]
      /\ succs(h) \in [Levels -> Beyond]
  BY DEF Here, Locals, Values, Before0, Beyond
<1>6. /\ \/ preds(h)[0] = loc[t].preds[0] /\ succs(h)[0] = loc[t].succs[0]
         \/ preds(h)[0] = Head /\ succs(h)[0] = Tail
      /\ \A l \in Levels : succs(h)[l] \in Beyond
  BY <1>5, ConstantFacts
<1> DEFINE S == succs(h)  P == preds(h)
<1>7. /\ loc' = [loc EXCEPT ![t].preds = P, ![t].succs = S, ![t].high = h]
      /\ next' = [w \in Cells \X Levels |->
            IF w[1] = Node(t) /\ w[2] <= h THEN S[w[2]] ELSE next[w]]
  BY <1>2
<1>8. P \in [Levels -> Before0 \cup {Nil}] /\ S \in [Levels -> Beyond] BY <1>5
<1>9. \/ P[0] = loc[t].preds[0] /\ S[0] = loc[t].succs[0]
      \/ P[0] = Head /\ S[0] = Tail
  BY <1>6
<1> HIDE DEF preds, succs, P, S
<1>10. /\ Before(loc[t].preds[0], Key(t)) /\ ~ Before(loc[t].succs[0], Key(t))
       /\ loc[t].succs[0] # Nil
       /\ loc[t].found = Nil => ~ Equal(loc[t].succs[0], Key(t))
  BY <1>1 DEF Here, Locals, Path, Placed
<1>11. /\ Before(P[0], Key(t)) /\ ~ Before(S[0], Key(t)) /\ S[0] # Nil
       /\ loc[t].found = Nil => ~ Equal(S[0], Key(t))
  BY <1>9, <1>10, ConstantFacts DEF Before, Equal
<1>12. Node(t) \in Cells /\ 0 \in Levels BY <1>3, ConstantFacts
<1>13. /\ next' \in [Cells \X Levels -> Beyond]
       /\ \A c \in Cells \ {Node(t)} : next'[c, 0] = next[c, 0]
       /\ next'[Node(t), 0] = S[0]
  <2>1. \A c \in Cells, l \in Levels :
           next'[c, l] = IF c = Node(t) /\ l <= h THEN S[l] ELSE next[c, l]
    BY <1>7
  <2>2. DOMAIN next' = Cells \X Levels BY <1>7
  <2>3. \A w \in Cells \X Levels : next'[w] \in Beyond
    BY <1>7, <1>8 DEF Here, Words
  <2>4. next' \in [Cells \X Levels -> Beyond] BY <2>2, <2>3, <1>7
  <2>5. 0 <= h BY <1>4
  <2> QED BY <2>1, <2>4, <2>5, <1>12
<1>14. S[0] \in Nodes => OrderedAfter(Node(t), S[0])
  <2> SUFFICES ASSUME S[0] \in Nodes PROVE OrderedAfter(Node(t), S[0])
    OBVIOUS
  <2>1. KeyOf[S[0]] \in Nat /\ Key(t) \in Nat /\ ~ KeyOf[S[0]] < Key(t)
    BY <1>3, <1>11, SkipListAssumption DEF Before
  <2>2. loc[t].found = Nil => KeyOf[S[0]] # Key(t) BY <1>11 DEF Equal
  <2>3. Key(t) < KeyOf[S[0]] \/ (loc[t].found # Nil /\ Key(t) = KeyOf[S[0]])
    BY <2>1, <2>2
  <2>4. loc[t].found # Nil => hasDups' BY <1>1
  <2> QED BY <1>3, <2>3, <2>4 DEF OrderedAfter
<1>15. Tidy(t) /\ Known' = Known
  <2>1. hasDups \in BOOLEAN /\ hasDups' \in BOOLEAN /\ (hasDups => hasDups')
    BY <1>1 DEF Here, Words
  <2> QED BY <1>1, <1>3, <1>13, <1>14, <2>1, TossTidy DEF Here
<1>16. Before0' = Before0 /\ Beyond' = Beyond BY <1>15 DEF Before0, Beyond
<1>17. Sizes' /\ Hints'
  <2>1. height' \in [Nodes -> Levels] BY <1>2, <1>4 DEF Here, Sizes
  <2> QED BY <1>1, <1>16, <2>1 DEF Here, Sizes, Hints
<1>18. /\ Keep(t, {"preds", "succs", "high"}) /\ loc'[t].high = h
       /\ loc'[t].preds = P /\ loc'[t].succs = S
  BY <1>7 DEF Keep, Here, LocalsKept, NoLocals
<1>19. pc'[t] \in {"grow", "link"} BY <1>2
<1>20. Called(t)' /\ Own(t)'
  BY <1>1, <1>3, <1>15, <1>18, <1>19, OnwardKeeps DEF Here, Locals, Called,
     Onward, Keep, Entered, Linked, Locating, Placing
<1>21. Values(t)'
  BY <1>8, <1>15, <1>16, <1>18 DEF Here, Locals, Values, Keep
<1>22. Depths(t)'
  BY <1>3, <1>4, <1>18, <1>19 DEF Here, Locals, Depths, Keep, Entered, Linked,
     Locating, AtLevel, Rising, Placing
<1>23. Walking(t)'
  BY <1>1, <1>18, <1>19 DEF Here, Locals, Walking, Keep, Key
<1>24. Dead(t)' BY <1>19 DEF Dead, Unlinking
<1>25. Path(t)'
  <2> HIDE DEF Before, Equal
  <2>1. (Key(t))' = Key(t) /\ (Node(t))' = Node(t) BY <1>18 DEF Keep, Key, Node
  <2>2. loc'[t].preds[0] = P[0] /\ loc'[t].succs[0] = S[0]
        /\ loc'[t].found = loc[t].found
    BY <1>18 DEF Keep
  <2>3. Before(loc[t].preds[0], Key(t))' BY <1>11, <2>1, <2>2 DEF Before
  <2>4. (~ Before(loc[t].succs[0], Key(t)))' BY <1>11, <2>1, <2>2 DEF Before
  <2>5. (loc[t].found = Nil => ~ Equal(loc[t].succs[0], Key(t)))'
    BY <1>11, <2>1, <2>2 DEF Equal
  <2>6. (loc[t].succs[0] # Nil)' BY <1>11, <2>2
  <2>7. (loc[t].found # Nil => hasDups)' BY <1>1, <2>2
  <2>8. (next[Node(t), 0] = loc[t].succs[0])' BY <1>13, <2>1, <2>2
  <2> QED BY <2>3, <2>4, <2>5, <2>6, <2>7, <2>8 DEF Path
<1> QED
  BY <1>15, <1>17, <1>20, <1>21, <1>22, <1>23, <1>24, <1>25 DEF Good, Locals

LEMMA NoEntryGood ==
  ASSUME NEW t \in Threads, Here(t), NoEntry(t)
  PROVE  Good(t)
<1>1. todo' = todo /\ Calmly
  BY DEF NoEntry, Calmly, Still, shape, heights, Return
<1>2. Return(t, "noent")
  BY DEF NoEntry
<1> QED BY <1>1, <1>2, ReturnGood

LEMMA AdjustGood ==
  ASSUME NEW t \in Threads, Here(t), Adjust(t)
  PROVE  Good(t)
<1>1. todo' = todo /\ Calmly
  BY DEF Adjust, Calmly, Still, shape, heights, Return
<1>2. Return(t, "ok")
  BY DEF Adjust
<1> QED BY <1>1, <1>2, ReturnGood

-----------------------------------------------------------------------------
(***************************************************************************)
(* The steps of a remove.  Its mark takes a node out of the live ones; its *)
(* help and its sweep swing words of level 0 past marked nodes only.       *)
(***************************************************************************)
LEMMA FoundAtGood ==
  ASSUME NEW t \in Threads, Here(t), FoundAt(t)
  PROVE  Good(t)
<1>1. todo' = todo /\ Calmly
  BY DEF FoundAt, Calmly, Still, shape, heights, Return
<1>2. Return(t, IF loc[t].found = Nil THEN "missing" ELSE "found")
  BY DEF FoundAt
<1> QED BY <1>1, <1>2, ReturnGood

LEMMA FoundGood ==
  ASSUME NEW t \in Threads, Here(t), Found(t)
  PROVE  Good(t)
<1>1. pc[t] = "remove" /\ todo' = todo /\ Calmly
  BY DEF Found, Calmly, Still, shape, heights, history
<1>2. /\ Known' = Known /\ Before0' = Before0 /\ Beyond' = Beyond
      /\ next' = next /\ marked' = marked /\ hasDups' = hasDups
  BY <1>1, CalmlySame
<1>3. pc'[t] \in {"mark"}
  BY DEF Found, Goto, Here, LocalsKept
<1>4. \E u, v : /\ loc' = [loc EXCEPT ![t].i = u, ![t].node = v]
                /\ u = height[loc[t].found] /\ v = loc[t].found
  BY DEF Found, Goto, Here, LocalsKept
<1>5. /\ Keep(t, {"i", "node"})
      /\ loc'[t].i = height[loc[t].found] /\ loc'[t].node = loc[t].found
  BY <1>4 DEF Keep, Here, LocalsKept, NoLocals
<1>6. loc[t].found \in Known /\ height[loc[t].found] \in Levels
  BY KnownNodes DEF Found, Here, Locals, Values, Sizes
<1>7. Called(t)' /\ Own(t)'
  BY <1>1, <1>2, <1>3, <1>5, <1>6, OnwardKeeps DEF Here, Locals, Called,
     Onward, Keep, Entered, Linked, Locating, Placing
<1>8. Values(t)'
  BY <1>1, <1>2, <1>3, <1>5, <1>6 DEF Here, Locals, Values, Keep
<1>9. Depths(t)'
  BY <1>1, <1>2, <1>3, <1>5, <1>6, ConstantFacts DEF Here, Locals, Depths,
     Keep, Entered, Linked, Locating, AtLevel, Rising, Placing
<1>10. Walking(t)'
  BY <1>1, <1>2, <1>3, <1>5, <1>6 DEF Here, Locals, Walking, Keep, Key,
     Unlinking
<1>11. Dead(t)'
  BY <1>1, <1>2, <1>3, <1>5, <1>6 DEF Here, Locals, Dead, Keep, Unlinking
<1> HIDE DEF Before, Equal
<1>12. Path(t)'
  BY <1>1, <1>2, <1>3, <1>5, <1>6 DEF Here, Locals, Path, Keep, Key, Node,
     Placed, Placing, Unlinking, Moving, Demoting
<1> QED BY <1>1, <1>7, <1>8, <1>9, <1>10, <1>11, <1>12, CalmlyGood

LEMMA MarkGood ==
  ASSUME NEW t \in Threads, Here(t), Mark(t)
  PROVE  Good(t)
<1>1. pc[t] = "mark" /\ todo' = todo
  BY DEF Mark
<1>2. Tidy(t) /\ Known' = Known
  <2>1. loc[t].i \in Levels /\ loc[t].node \in Known
    BY <1>1, ConstantFacts DEF Here, Locals, Values, Depths, PlaceInv, InCall
  <2>2. /\ marked' = marked \cup {<<loc[t].node, loc[t].i>>} /\ loc[t].i # 0
        /\ UNCHANGED <<next, live, hasDups>>
    BY DEF Mark, history
  <2> QED BY <2>1, <2>2, MarkTidy DEF Here
<1>3. Sizes' /\ Hints'
  BY <1>2 DEF Mark, shape, heights, history, Here, Sizes, Hints, Before0
<1>4. next' = next /\ hasDups' = hasDups /\ loc[t].node \in Known
  BY <1>1, ConstantFacts DEF Mark, Here, Locals, Values, PlaceInv, InCall
<1>5. pc' = pc
  BY DEF Mark, Goto, Here, LocalsKept
<1>6. \E v : /\ loc' = [loc EXCEPT ![t].i = v]
             /\ v = loc[t].i - 1 /\ loc[t].i > 0
  BY DEF Mark, Goto, Here, LocalsKept
<1>7. /\ Keep(t, {"i"})
      /\ loc'[t].i = loc[t].i - 1 /\ loc[t].i > 0
  BY <1>6 DEF Keep, Here, LocalsKept, NoLocals
<1>8. Before0' = Before0 /\ Beyond' = Beyond
  BY <1>2 DEF Before0, Beyond
<1>9. loc[t].i - 1 \in Levels
  BY <1>6, SkipListAssumption DEF Here, Locals, Depths, Levels
<1>10. Called(t)' /\ Own(t)'
  BY <1>1, <1>2, <1>3, <1>4, <1>5, <1>7, <1>8, <1>9, OnwardKeeps DEF Here,
     Locals, Called, Onward, Keep, Entered, Linked, Locating, Placing
<1>11. Values(t)'
  BY <1>1, <1>2, <1>3, <1>4, <1>5, <1>7, <1>8, <1>9 DEF Here, Locals, Values,
     Keep
<1>12. Depths(t)'
  BY <1>1, <1>2, <1>3, <1>4, <1>5, <1>7, <1>8, <1>9, ConstantFacts DEF Here,
     Locals, Depths, Keep, Entered, Linked, Locating, AtLevel, Rising, Placing
<1>13. Walking(t)'
  BY <1>1, <1>2, <1>3, <1>4, <1>5, <1>7, <1>8, <1>9 DEF Here, Locals, Walking,
     Keep, Key, Unlinking
<1>14. Dead(t)'
  BY <1>1, <1>2, <1>3, <1>4, <1>5, <1>7, <1>8, <1>9 DEF Here, Locals, Dead,
     Keep, Unlinking
<1> HIDE DEF Before, Equal
<1>15. Path(t)'
  BY <1>1, <1>2, <1>3, <1>4, <1>5, <1>7, <1>8, <1>9 DEF Here, Locals, Path,
     Keep, Key, Node, Placed, Placing, Unlinking, Moving, Demoting
<1> QED BY <1>2, <1>3, <1>10, <1>11, <1>12, <1>13, <1>14, <1>15 DEF Good,
     Locals

LEMMA Mark0Good ==
  ASSUME NEW t \in Threads, Here(t), Mark0(t)
  PROVE  Good(t)
<1>1. /\ pc[t] = "mark" /\ loc[t].i = 0 /\ todo' = todo
      /\ next' = next /\ hasDups' = hasDups
      /\ UNCHANGED <<height, prev, headHeight, tailHeight>>
  BY DEF Mark0, heights
<1>2. CASE Return(t, "ok") /\ marked' = marked
  <2>1. Calmly BY <1>1, <1>2 DEF Calmly, Still, Return
  <2> QED BY <1>1, <1>2, <2>1, ReturnGood
<1>3. CASE /\ ~ Marked(loc[t].node, 0)
           /\ marked' = marked \cup {<<loc[t].node, 0>>}
           /\ Becomes(live \ {loc[t].node})
           /\ Goto(t, "unlink") /\ loc' = loc
  <2>1. loc[t].node \in Known
    BY <1>1, ConstantFacts DEF Here, Locals, Values, PlaceInv, InCall
  <2>2. Tidy(t) /\ Known' = Known
    <3>1. live' = IF loc[t].i = 0 THEN live \ {loc[t].node} ELSE live
      BY <1>1, <1>3 DEF Becomes
    <3> QED BY <1>1, <1>3, <2>1, <3>1, MarkTidy, ConstantFacts DEF Here
  <2>3. Before0' = Before0 /\ Beyond' = Beyond BY <2>2 DEF Before0, Beyond
  <2>4. Sizes' /\ Hints' BY <1>1, <2>3 DEF Here, Sizes, Hints
  <2>5. pc'[t] = "unlink" BY <1>3 DEF Goto, Here, LocalsKept
  <2>6. Called(t)' /\ Own(t)'
    BY <1>1, <1>3, <2>2, <2>5, OnwardKeeps DEF Here, Locals, Called, Onward,
       Entered, Linked, Locating, Placing
  <2>7. Values(t)' BY <1>3, <2>2, <2>3 DEF Here, Locals, Values
  <2>8. Depths(t)'
    BY <1>3, <2>5 DEF Here, Locals, Depths, Entered, Linked, Locating, AtLevel,
       Rising, Placing
  <2>9. Walking(t)' BY <1>1, <1>3, <2>5 DEF Here, Locals, Walking, Key
  <2>10. Dead(t)' BY <1>3, <2>1, <2>2, <2>5 DEF Dead, Marked
  <2>11. Path(t)'
    <3>1. Path(t) BY DEF Here, Locals
    <3> HIDE DEF Before, Equal
    <3> QED BY <1>1, <1>3, <2>5, <3>1 DEF Path, Placed, Placing, Key
  <2> QED
    BY <2>2, <2>4, <2>6, <2>7, <2>8, <2>9, <2>10, <2>11 DEF Good, Locals
<1> QED BY <1>2, <1>3 DEF Mark0

LEMMA UnlinkGood ==
  ASSUME NEW t \in Threads, Here(t), Unlink(t)
  PROVE  Good(t)
<1>1. pc[t] = "unlink" /\ todo' = todo /\ Calmly
  BY DEF Unlink, Calmly, Still, shape, heights, history
<1>2. /\ Known' = Known /\ Before0' = Before0 /\ Beyond' = Beyond
      /\ next' = next /\ marked' = marked /\ hasDups' = hasDups
  BY <1>1, CalmlySame
<1>3. pc'[t] \in {"sweep"}
  BY DEF Unlink, Goto, Here, LocalsKept
<1>4. \E v : loc' = [loc EXCEPT ![t].high = v] /\ v = height[loc[t].node]
  BY DEF Unlink, Goto, Here, LocalsKept
<1>5. /\ Keep(t, {"high"})
      /\ loc'[t].high = height[loc[t].node]
  BY <1>4 DEF Keep, Here, LocalsKept, NoLocals
<1>6. height[loc[t].node] \in Levels
  BY <1>1, KnownNodes DEF Here, Locals, Dead, Unlinking, Sizes
<1>7. Called(t)' /\ Own(t)'
  BY <1>1, <1>2, <1>3, <1>5, <1>6, OnwardKeeps DEF Here, Locals, Called,
     Onward, Keep, Entered, Linked, Locating, Placing
<1>8. Values(t)'
  BY <1>1, <1>2, <1>3, <1>5, <1>6 DEF Here, Locals, Values, Keep
<1>9. Depths(t)'
  BY <1>1, <1>2, <1>3, <1>5, <1>6, ConstantFacts DEF Here, Locals, Depths,
     Keep, Entered, Linked, Locating, AtLevel, Rising, Placing
<1>10. Walking(t)'
  BY <1>1, <1>2, <1>3, <1>5, <1>6 DEF Here, Locals, Walking, Keep, Key,
     Unlinking
<1>11. Dead(t)'
  BY <1>1, <1>2, <1>3, <1>5, <1>6 DEF Here, Locals, Dead, Keep, Unlinking,
     Marked
<1> HIDE DEF Before, Equal
<1>12. Path(t)'
  BY <1>1, <1>2, <1>3, <1>5, <1>6 DEF Here, Locals, Path, Keep, Key, Node,
     Placed, Placing, Unlinking, Moving, Demoting
<1> QED BY <1>1, <1>7, <1>8, <1>9, <1>10, <1>11, <1>12, CalmlyGood

LEMMA SweepGood ==
  ASSUME NEW t \in Threads, Here(t), Sweep(t)
  PROVE  Good(t)
<1>1. pc[t] = "sweep" /\ todo' = todo /\ Calmly
  BY DEF Sweep, Calmly, Still, shape, heights, history
<1>2. /\ Known' = Known /\ Before0' = Before0 /\ Beyond' = Beyond
      /\ next' = next /\ marked' = marked /\ hasDups' = hasDups
  BY <1>1, CalmlySame
<1>3. pc'[t] \in {"sweephead"}
  BY DEF Sweep, Goto, Here, LocalsKept
<1>4. \E u, v : /\ loc' = [loc EXCEPT ![t].bound = u, ![t].lvl = u, ![t].again = v]
                /\ u = SweepTop(t)
  BY DEF Sweep, Goto, Here, LocalsKept
<1>5. /\ Keep(t, {"bound", "lvl", "again"})
      /\ loc'[t].bound = SweepTop(t) /\ loc'[t].lvl = SweepTop(t)
  BY <1>4 DEF Keep, Here, LocalsKept, NoLocals
<1>6. SweepTop(t) \in Levels /\ SweepTop(t) \in 0 .. MaxHeight
  <2>1. loc[t].high \in Levels /\ headHeight \in Levels
    BY DEF Here, Locals, Depths, Sizes
  <2>2. SweepTop(t) \in {loc[t].high, headHeight}
    BY <2>1, LargerOfTwo, ConstantFacts DEF SweepTop
  <2>3. SweepTop(t) \in Levels BY <2>1, <2>2
  <2> QED BY <2>3, SkipListAssumption DEF Levels
<1>7. Called(t)' /\ Own(t)'
  BY <1>1, <1>2, <1>3, <1>5, <1>6, OnwardKeeps DEF Here, Locals, Called,
     Onward, Keep, Entered, Linked, Locating, Placing
<1>8. Values(t)'
  BY <1>1, <1>2, <1>3, <1>5, <1>6 DEF Here, Locals, Values, Keep
<1>9. Depths(t)'
  BY <1>1, <1>2, <1>3, <1>5, <1>6, ConstantFacts DEF Here, Locals, Depths,
     Keep, Entered, Linked, Locating, AtLevel, Rising, Placing
<1>10. Walking(t)'
  BY <1>1, <1>2, <1>3, <1>5, <1>6 DEF Here, Locals, Walking, Keep, Key,
     Unlinking
<1>11. Dead(t)'
  BY <1>1, <1>2, <1>3, <1>5, <1>6 DEF Here, Locals, Dead, Keep, Unlinking,
     Marked
<1> HIDE DEF Before, Equal
<1>12. Path(t)'
  BY <1>1, <1>2, <1>3, <1>5, <1>6 DEF Here, Locals, Path, Keep, Key, Node,
     Placed, Placing, Unlinking, Moving, Demoting
<1> QED BY <1>1, <1>7, <1>8, <1>9, <1>10, <1>11, <1>12, CalmlyGood

LEMMA SweepHeadGood ==
  ASSUME NEW t \in Threads, Here(t), SweepHead(t)
  PROVE  Good(t)
<1>1. pc[t] = "sweephead" /\ todo' = todo /\ Calmly
  BY DEF SweepHead, Calmly, Still, shape, heights, history
<1>2. /\ Known' = Known /\ Before0' = Before0 /\ Beyond' = Beyond
      /\ next' = next /\ marked' = marked /\ hasDups' = hasDups
  BY <1>1, CalmlySame
<1>3. pc'[t] \in {"sweepcurr"}
  BY DEF SweepHead, Goto, Here, LocalsKept
<1>4. \E u, v : /\ loc' = [loc EXCEPT ![t].pred = u, ![t].curr = v]
                /\ u = Head /\ v = Word(Head, loc[t].lvl)
  BY DEF SweepHead, Goto, Here, LocalsKept, Word
<1>5. /\ Keep(t, {"pred", "curr"})
      /\ loc'[t].pred = Head /\ loc'[t].curr = Word(Head, loc[t].lvl)
  BY <1>4 DEF Keep, Here, LocalsKept, NoLocals
<1>6. loc[t].lvl \in Levels
  BY <1>1 DEF Here, Locals, Depths, AtLevel
<1>7. Word(Head, loc[t].lvl) \in Beyond /\ Word(Head, loc[t].lvl) # Head
  BY <1>6, LinkedWord DEF Here, Word, Before0
<1>8. Called(t)' /\ Own(t)'
  BY <1>1, <1>2, <1>3, <1>5, <1>6, <1>7, OnwardKeeps DEF Here, Locals, Called,
     Onward, Keep, Entered, Linked, Locating, Placing
<1>9. Values(t)'
  BY <1>1, <1>2, <1>3, <1>5, <1>6, <1>7 DEF Here, Locals, Values, Keep, Beyond,
     Before0
<1>10. Depths(t)'
  BY <1>1, <1>2, <1>3, <1>5, <1>6, <1>7, ConstantFacts DEF Here, Locals,
     Depths, Keep, Entered, Linked, Locating, AtLevel, Rising, Placing
<1>11. Walking(t)'
  BY <1>1, <1>2, <1>3, <1>5, <1>6, <1>7, ConstantFacts DEF Here, Locals,
     Walking, Keep, Key, Unlinking
<1>12. Dead(t)'
  BY <1>1, <1>2, <1>3, <1>5, <1>6, <1>7 DEF Here, Locals, Dead, Keep,
     Unlinking, Marked
<1> HIDE DEF Before, Equal
<1>13. Path(t)'
  BY <1>1, <1>2, <1>3, <1>5, <1>6, <1>7 DEF Here, Locals, Path, Keep, Key,
     Node, Placed, Placing, Unlinking, Moving, Demoting
<1> QED BY <1>1, <1>8, <1>9, <1>10, <1>11, <1>12, <1>13, CalmlyGood

LEMMA VerifyHeadGood ==
  ASSUME NEW t \in Threads, Here(t), VerifyHead(t)
  PROVE  Good(t)
<1>1. pc[t] = "verify" /\ todo' = todo /\ Calmly
  BY DEF VerifyHead, Calmly, Still, shape, heights, history
<1>2. /\ Known' = Known /\ Before0' = Before0 /\ Beyond' = Beyond
      /\ next' = next /\ marked' = marked /\ hasDups' = hasDups
  BY <1>1, CalmlySame
<1>3. pc'[t] \in {"verifycurr"}
  BY DEF VerifyHead, Goto, Here, LocalsKept
<1>4. \E v : loc' = [loc EXCEPT ![t].curr = v] /\ v = Word(Head, loc[t].lvl)
  BY DEF VerifyHead, Goto, Here, LocalsKept, Word
<1>5. /\ Keep(t, {"curr"})
      /\ loc'[t].curr = Word(Head, loc[t].lvl)
  BY <1>4 DEF Keep, Here, LocalsKept, NoLocals
<1>6. loc[t].lvl \in Levels
  BY <1>1 DEF Here, Locals, Depths, AtLevel
<1>7. Word(Head, loc[t].lvl) \in Beyond /\ Word(Head, loc[t].lvl) # Head
  BY <1>6, LinkedWord DEF Here, Word, Before0
<1>8. Called(t)' /\ Own(t)'
  BY <1>1, <1>2, <1>3, <1>5, <1>6, <1>7, OnwardKeeps DEF Here, Locals, Called,
     Onward, Keep, Entered, Linked, Locating, Placing
<1>9. Values(t)'
  BY <1>1, <1>2, <1>3, <1>5, <1>6, <1>7 DEF Here, Locals, Values, Keep, Beyond,
     Before0
<1>10. Depths(t)'
  BY <1>1, <1>2, <1>3, <1>5, <1>6, <1>7, ConstantFacts DEF Here, Locals,
     Depths, Keep, Entered, Linked, Locating, AtLevel, Rising, Placing
<1>11. Walking(t)'
  BY <1>1, <1>2, <1>3, <1>5, <1>6, <1>7, ConstantFacts DEF Here, Locals,
     Walking, Keep, Key, Unlinking
<1>12. Dead(t)'
  BY <1>1, <1>2, <1>3, <1>5, <1>6, <1>7 DEF Here, Locals, Dead, Keep,
     Unlinking, Marked
<1> HIDE DEF Before, Equal
<1>13. Path(t)'
  BY <1>1, <1>2, <1>3, <1>5, <1>6, <1>7 DEF Here, Locals, Path, Keep, Key,
     Node, Placed, Placing, Unlinking, Moving, Demoting
<1> QED BY <1>1, <1>8, <1>9, <1>10, <1>11, <1>12, <1>13, CalmlyGood

LEMMA VerifyCurrGood ==
  ASSUME NEW t \in Threads, Here(t), VerifyCurr(t)
  PROVE  Good(t)
<1>1. pc[t] = "verifycurr" /\ todo' = todo /\ Calmly
  BY DEF VerifyCurr, Calmly, Still, shape, heights, history
<1>2. /\ Known' = Known /\ Before0' = Before0 /\ Beyond' = Beyond
      /\ next' = next /\ marked' = marked /\ hasDups' = hasDups
  BY <1>1, CalmlySame
<1>3. pc'[t] \in {"sweep", "verifycurr", "verify", "unprev", "rebnext"}
  BY DEF VerifyCurr, Goto, Here, LocalsKept, Unlinked
<1>4. /\ Keep(t, {"curr", "lvl"})
      /\ \/ loc'[t].curr = loc[t].curr
         \/ /\ ~ Past(loc[t]) /\ loc'[t].curr = Word(loc[t].curr, loc[t].lvl)
      /\ \/ loc'[t].lvl = loc[t].lvl
         \/ loc[t].lvl > 0 /\ loc'[t].lvl = loc[t].lvl - 1
  <2>1. \/ loc' = loc
        \/ /\ ~ Past(loc[t])
           /\ \E v : loc' = [loc EXCEPT ![t].curr = v]
                     /\ v = Word(loc[t].curr, loc[t].lvl)
        \/ /\ loc[t].lvl > 0
           /\ \E v : loc' = [loc EXCEPT ![t].lvl = v] /\ v = loc[t].lvl - 1
    BY DEF VerifyCurr, Word
  <2>2. Keep(t, {"curr", "lvl"})
    BY <2>1 DEF Keep, Here, LocalsKept, NoLocals
  <2>3. \/ loc'[t].curr = loc[t].curr
        \/ ~ Past(loc[t]) /\ loc'[t].curr = Word(loc[t].curr, loc[t].lvl)
    BY <2>1 DEF Here, LocalsKept, NoLocals
  <2>4. \/ loc'[t].lvl = loc[t].lvl
        \/ loc[t].lvl > 0 /\ loc'[t].lvl = loc[t].lvl - 1
    BY <2>1 DEF Here, LocalsKept, NoLocals
  <2> QED BY <2>2, <2>3, <2>4
<1>5. /\ loc[t].lvl \in Levels /\ loc[t].curr # Head
      /\ loc[t].curr \in Before0 \cup {Tail, Nil}
  BY <1>1 DEF Here, Locals, Depths, AtLevel, Values, Walking
<1>6. ~ Past(loc[t]) => Word(loc[t].curr, loc[t].lvl) \in Beyond
                        /\ Word(loc[t].curr, loc[t].lvl) # Head
  BY <1>5, LinkedWord DEF Past, After, Here, Word
<1>7. loc[t].lvl > 0 => loc[t].lvl - 1 \in Levels \cap (0 .. MaxHeight)
  BY <1>5, SkipListAssumption DEF Levels
<1>8. Called(t)' /\ Own(t)'
  BY <1>1, <1>2, <1>3, <1>4, <1>5, <1>6, <1>7, OnwardKeeps DEF Here, Locals,
     Called, Onward, Keep, Entered, Linked, Locating, Placing
<1>9. Values(t)'
  BY <1>1, <1>2, <1>3, <1>4, <1>5, <1>6, <1>7 DEF Here, Locals, Values, Keep,
     Beyond, Before0
<1>10. Depths(t)'
  BY <1>1, <1>2, <1>3, <1>4, <1>5, <1>6, <1>7, ConstantFacts DEF Here, Locals,
     Depths, Keep, Entered, Linked, Locating, AtLevel, Rising, Placing
<1>11. Walking(t)'
  BY <1>1, <1>2, <1>3, <1>4, <1>5, <1>6, <1>7 DEF Here, Locals, Walking, Keep,
     Key, Unlinking
<1>12. Dead(t)'
  BY <1>1, <1>2, <1>3, <1>4, <1>5, <1>6, <1>7 DEF Here, Locals, Dead, Keep,
     Unlinking, Marked
<1> HIDE DEF Before, Equal
<1>13. Path(t)'
  BY <1>1, <1>2, <1>3, <1>4, <1>5, <1>6, <1>7 DEF Here, Locals, Path, Keep,
     Key, Node, Placed, Placing, Unlinking, Moving, Demoting
<1> QED BY <1>1, <1>8, <1>9, <1>10, <1>11, <1>12, <1>13, CalmlyGood

LEMMA SweptMoves ==
    ASSUME NEW t \in Threads, Here(t),
           LevelSwept(t, loc[t]) \/ LevelSwept(t, [loc[t] EXCEPT !.again = TRUE])
    PROVE  /\ Keep(t, {"lvl"})
           /\ \/ pc'[t] = "sweephead" /\ loc[t].lvl > 0 /\ loc'[t].lvl = loc[t].lvl - 1
              \/ pc'[t] = "sweep" /\ loc'[t].lvl = loc[t].lvl
              \/ pc'[t] = "verify" /\ loc'[t].lvl = loc[t].bound
<1>1. ASSUME NEW me, LevelSwept(t, me), DOMAIN me = DOMAIN NoLocals
      PROVE  /\ \/ /\ me.lvl > 0 /\ pc'[t] = "sweephead"
                   /\ loc'[t] = [me EXCEPT !.lvl = me.lvl - 1]
                \/ me.lvl = 0 /\ pc'[t] = "sweep" /\ loc'[t] = me
                \/ pc'[t] = "verify" /\ loc'[t] = [me EXCEPT !.lvl = me.bound]
  BY <1>1 DEF LevelSwept, Goto, Here, LocalsKept
<1> DEFINE now == loc[t]  on == [loc[t] EXCEPT !.again = TRUE]
<1>2. DOMAIN now = DOMAIN NoLocals /\ DOMAIN on = DOMAIN NoLocals
  BY DEF Here, LocalsKept
<1>3. PICK me \in {now, on} : LevelSwept(t, me) OBVIOUS
<1>4. DOMAIN me = DOMAIN NoLocals BY <1>2, <1>3
<1>5. /\ me.call = now.call /\ me.ret = now.ret /\ me.pred = now.pred
      /\ me.curr = now.curr /\ me.succ = now.succ /\ me.top = now.top
      /\ me.i = now.i /\ me.found = now.found /\ me.node = now.node
      /\ me.high = now.high /\ me.bound = now.bound /\ me.hint = now.hint
      /\ me.met = now.met /\ me.idx = now.idx /\ me.preds = now.preds
      /\ me.succs = now.succs /\ me.lvl = now.lvl
  BY <1>2, <1>3 DEF NoLocals
<1>6. \/ /\ me.lvl > 0 /\ pc'[t] = "sweephead"
         /\ loc'[t] = [me EXCEPT !.lvl = me.lvl - 1]
      \/ me.lvl = 0 /\ pc'[t] = "sweep" /\ loc'[t] = me
      \/ pc'[t] = "verify" /\ loc'[t] = [me EXCEPT !.lvl = me.bound]
  BY <1>1, <1>3, <1>4
<1> HIDE DEF on
<1>7. Keep(t, {"lvl"}) BY <1>4, <1>5, <1>6 DEF Keep, NoLocals
<1> QED BY <1>4, <1>5, <1>6, <1>7 DEF NoLocals

LEMMA SweepCurrGood ==
  ASSUME NEW t \in Threads, Here(t), SweepCurr(t)
  PROVE  Good(t)
<1>1. pc[t] = "sweepcurr" /\ todo' = todo /\ Calmly
  BY DEF SweepCurr, Calmly, Still, shape, heights, history
<1>2. /\ Known' = Known /\ Before0' = Before0 /\ Beyond' = Beyond
      /\ next' = next /\ marked' = marked /\ hasDups' = hasDups
  BY <1>1, CalmlySame
<1>3. pc'[t] \in {"sweepcas", "sweepcurr", "sweephead", "sweep", "verify"}
  BY DEF SweepCurr, Goto, Here, LocalsKept, LevelSwept
<1>4. /\ Keep(t, {"pred", "curr", "succ", "lvl"})
      /\ \/ /\ Keep(t, {"lvl"}) /\ pc'[t] # "sweepcas"
            /\ \/ pc'[t] = "sweephead" /\ loc[t].lvl > 0 /\ loc'[t].lvl = loc[t].lvl - 1
               \/ pc'[t] = "sweep" /\ loc'[t].lvl = loc[t].lvl
               \/ pc'[t] = "verify" /\ loc'[t].lvl = loc[t].bound
         \/ /\ Keep(t, {"succ"}) /\ pc'[t] = "sweepcas"
            /\ loc[t].curr = loc[t].node \/ Marked(loc[t].curr, loc[t].lvl)
            /\ loc'[t].succ = Word(loc[t].curr, loc[t].lvl)
         \/ /\ Keep(t, {"pred", "curr"}) /\ pc'[t] = "sweepcurr"
            /\ ~ Past(loc[t]) /\ loc'[t].pred = loc[t].curr
            /\ loc'[t].curr = Word(loc[t].curr, loc[t].lvl)
  <2>1. \/ LevelSwept(t, loc[t])
        \/ /\ pc'[t] = "sweepcas"
           /\ loc[t].curr = loc[t].node \/ Marked(loc[t].curr, loc[t].lvl)
           /\ \E v : /\ loc' = [loc EXCEPT ![t].succ = v]
                     /\ v = Word(loc[t].curr, loc[t].lvl)
        \/ /\ pc'[t] = "sweepcurr" /\ ~ Past(loc[t])
           /\ \E u, v : /\ loc' = [loc EXCEPT ![t].pred = u, ![t].curr = v]
                        /\ u = loc[t].curr /\ v = Word(loc[t].curr, loc[t].lvl)
    BY DEF SweepCurr, Word, Goto, Here, LocalsKept
  <2>2. CASE LevelSwept(t, loc[t]) BY <2>2, SweptMoves DEF Keep
  <2>3. CASE /\ pc'[t] = "sweepcas"
             /\ loc[t].curr = loc[t].node \/ Marked(loc[t].curr, loc[t].lvl)
             /\ \E v : /\ loc' = [loc EXCEPT ![t].succ = v]
                       /\ v = Word(loc[t].curr, loc[t].lvl)
    BY <2>3 DEF Keep, Here, LocalsKept, NoLocals
  <2>4. CASE /\ pc'[t] = "sweepcurr" /\ ~ Past(loc[t])
             /\ \E u, v : /\ loc' = [loc EXCEPT ![t].pred = u, ![t].curr = v]
                          /\ u = loc[t].curr
                          /\ v = Word(loc[t].curr, loc[t].lvl)
    BY <2>4 DEF Keep, Here, LocalsKept, NoLocals
  <2> QED BY <2>1, <2>2, <2>3, <2>4
<1>5. /\ loc[t].lvl \in Levels /\ loc[t].bound \in Levels
      /\ loc[t].bound \in 0 .. MaxHeight
      /\ loc[t].lvl > 0 => loc[t].lvl - 1 \in Levels \cap (0 .. MaxHeight)
  <2>1. loc[t].lvl \in Levels /\ loc[t].bound \in Levels
    BY <1>1 DEF Here, Locals, Depths, AtLevel
  <2> QED BY <2>1, SkipListAssumption DEF Levels
<1>6. /\ loc[t].curr # Head /\ loc[t].curr \in Before0 \cup {Tail, Nil}
      /\ loc[t].node \in Known /\ Marked(loc[t].node, 0)
  BY <1>1 DEF Here, Locals, Values, Walking, Dead, Unlinking
<1>7. pc'[t] = "sweepcas" =>
         /\ loc[t].curr \in Known /\ loc[t].curr \in Before0
         /\ loc[t].lvl = 0 => Marked(loc[t].curr, 0)
  BY <1>4, <1>6, MarkedWord, ConstantFacts DEF Here, Keep, Before0
<1>8. ~ Past(loc[t]) => loc[t].curr \in Before0 /\ loc[t].curr # Nil
  BY <1>6, KnownNodes DEF Past, After, Here, Before0
<1>9. loc[t].curr \in Before0 => /\ Word(loc[t].curr, loc[t].lvl) \in Beyond
                                 /\ Word(loc[t].curr, loc[t].lvl) # Head
  BY <1>5, LinkedWord DEF Here, Word
<1>10. Called(t)' /\ Own(t)'
  BY <1>1, <1>2, <1>3, <1>4, <1>5, <1>6, <1>7, <1>8, <1>9, OnwardKeeps DEF
     Here, Locals, Called, Onward, Keep, Entered, Linked, Locating, Placing
<1>11. Values(t)'
  BY <1>1, <1>2, <1>3, <1>4, <1>5, <1>6, <1>7, <1>8, <1>9 DEF Here, Locals,
     Values, Keep, Beyond, Before0
<1>12. Depths(t)'
  BY <1>1, <1>2, <1>3, <1>4, <1>5, <1>6, <1>7, <1>8, <1>9, ConstantFacts DEF
     Here, Locals, Depths, Keep, Entered, Linked, Locating, AtLevel, Rising,
     Placing
<1>13. Walking(t)'
  BY <1>1, <1>2, <1>3, <1>4, <1>5, <1>6, <1>7, <1>8, <1>9 DEF Here, Locals,
     Walking, Keep, Key, Unlinking
<1>14. Dead(t)'
  BY <1>1, <1>2, <1>3, <1>4, <1>5, <1>6, <1>7, <1>8, <1>9 DEF Here, Locals,
     Dead, Keep, Unlinking, Marked, Word
<1> HIDE DEF Before, Equal
<1>15. Path(t)'
  BY <1>1, <1>2, <1>3, <1>4, <1>5, <1>6, <1>7, <1>8, <1>9 DEF Here, Locals,
     Path, Keep, Key, Node, Placed, Placing, Unlinking, Moving, Demoting
<1> QED BY <1>1, <1>10, <1>11, <1>12, <1>13, <1>14, <1>15, CalmlyGood

LEMMA SweepCasGood ==
  ASSUME NEW t \in Threads, Here(t), SweepCas(t)
  PROVE  Good(t)
<1>1. pc[t] = "sweepcas" /\ todo' = todo
  BY DEF SweepCas
<1>2. Tidy(t) /\ Known' = Known
  <2>1. UNCHANGED <<marked, live, hasDups>> BY DEF SweepCas, history
  <2>2. CASE next' = next BY <2>1, <2>2, StillTidy DEF Here, Still
  <2>3. CASE /\ Swing(loc[t].pred, loc[t].lvl, loc[t].succ)
             /\ Holds(loc[t].pred, loc[t].lvl, loc[t].curr)
    <3>1. /\ loc[t].lvl \in Levels /\ loc[t].pred \in Before0 \cup {Nil}
          /\ loc[t].succ \in Beyond /\ loc[t].pred # Nil
      BY <1>1 DEF Here, Locals, Values, Depths, AtLevel, Walking
    <3>2. loc[t].lvl = 0 => /\ Marked(loc[t].curr, 0) /\ loc[t].curr \in Known
                            /\ loc[t].succ = next[loc[t].curr, 0]
      BY <1>1 DEF Here, Locals, Dead
    <3>3. SwingTo(loc[t].pred, loc[t].lvl, loc[t].succ)
      BY <2>3, <3>1, <3>2 DEF SwingTo, Swing, Holds
    <3> QED BY <2>1, <3>3, SwingTidy DEF Here, Words, Marked
  <2> QED BY <2>2, <2>3 DEF SweepCas
<1>3. Sizes' /\ Hints'
  BY <1>2 DEF SweepCas, shape, heights, history, Here, Sizes, Hints, Before0
<1>4. pc'[t] \in {"sweepcurr", "sweephead", "sweep", "verify"}
  BY DEF SweepCas, Goto, Here, LocalsKept, LevelSwept
<1>5. /\ Keep(t, {"curr", "lvl"})
      /\ \/ /\ Keep(t, {"lvl"}) /\ pc'[t] # "sweepcurr"
            /\ \/ pc'[t] = "sweephead" /\ loc[t].lvl > 0 /\ loc'[t].lvl = loc[t].lvl - 1
               \/ pc'[t] = "sweep" /\ loc'[t].lvl = loc[t].lvl
               \/ pc'[t] = "verify" /\ loc'[t].lvl = loc[t].bound
         \/ /\ Keep(t, {"curr"}) /\ pc'[t] = "sweepcurr"
            /\ loc'[t].curr = loc[t].succ
  <2>1. \/ LevelSwept(t, loc[t]) \/ LevelSwept(t, [loc[t] EXCEPT !.again = TRUE])
        \/ /\ pc'[t] = "sweepcurr"
           /\ \E v : loc' = [loc EXCEPT ![t].curr = v] /\ v = loc[t].succ
    BY DEF SweepCas, Goto, Here, LocalsKept
  <2>2. CASE LevelSwept(t, loc[t]) \/ LevelSwept(t, [loc[t] EXCEPT !.again = TRUE])
    BY <2>2, SweptMoves DEF Keep
  <2>3. CASE /\ pc'[t] = "sweepcurr"
             /\ \E v : loc' = [loc EXCEPT ![t].curr = v] /\ v = loc[t].succ
    BY <2>3 DEF Keep, Here, LocalsKept, NoLocals
  <2> QED BY <2>1, <2>2, <2>3
<1>6. Before0' = Before0 /\ Beyond' = Beyond
  BY <1>2 DEF Before0, Beyond
<1>7. /\ loc[t].lvl \in Levels /\ loc[t].bound \in Levels
      /\ loc[t].bound \in 0 .. MaxHeight
      /\ loc[t].lvl > 0 => loc[t].lvl - 1 \in Levels \cap (0 .. MaxHeight)
  <2>1. loc[t].lvl \in Levels /\ loc[t].bound \in Levels
    BY <1>1 DEF Here, Locals, Depths, AtLevel
  <2> QED BY <2>1, SkipListAssumption DEF Levels
<1>8. /\ loc[t].succ \in Before0 \cup {Tail, Nil} /\ loc[t].succ # Head
      /\ loc[t].node \in Known /\ Marked(loc[t].node, 0)
  BY <1>1, KnownNodes, ConstantFacts DEF Here, Locals, Values, Beyond, Before0,
     Dead, Unlinking
<1>9. UNCHANGED <<marked, hasDups>>
  BY DEF SweepCas, history
<1>10. Called(t)' /\ Own(t)'
  BY <1>1, <1>2, <1>3, <1>4, <1>5, <1>6, <1>7, <1>8, <1>9, OnwardKeeps DEF
     Here, Locals, Called, Onward, Keep, Entered, Linked, Locating, Placing
<1>11. Values(t)'
  BY <1>1, <1>2, <1>3, <1>4, <1>5, <1>6, <1>7, <1>8, <1>9 DEF Here, Locals,
     Values, Keep, Before0, Beyond
<1>12. Depths(t)'
  BY <1>1, <1>2, <1>3, <1>4, <1>5, <1>6, <1>7, <1>8, <1>9, ConstantFacts DEF
     Here, Locals, Depths, Keep, Entered, Linked, Locating, AtLevel, Rising,
     Placing
<1>13. Walking(t)'
  BY <1>1, <1>2, <1>3, <1>4, <1>5, <1>6, <1>7, <1>8, <1>9 DEF Here, Locals,
     Walking, Keep, Key, Unlinking
<1>14. Dead(t)'
  BY <1>1, <1>2, <1>3, <1>4, <1>5, <1>6, <1>7, <1>8, <1>9 DEF Here, Locals,
     Dead, Keep, Unlinking, Marked
<1> HIDE DEF Before, Equal
<1>15. Path(t)'
  BY <1>1, <1>2, <1>3, <1>4, <1>5, <1>6, <1>7, <1>8, <1>9 DEF Here, Locals,
     Path, Keep, Key, Node, Placed, Placing, Unlinking, Moving, Demoting
<1> QED BY <1>2, <1>3, <1>10, <1>11, <1>12, <1>13, <1>14, <1>15 DEF Good,
     Locals

LEMMA UnPrevGood ==
  ASSUME NEW t \in Threads, Here(t), UnPrev(t)
  PROVE  Good(t)
<1>1. pc[t] = "unprev" /\ todo' = todo /\ Calmly
  BY DEF UnPrev, Calmly, Still, shape, heights, history
<1>2. /\ Known' = Known /\ Before0' = Before0 /\ Beyond' = Beyond
      /\ next' = next /\ marked' = marked /\ hasDups' = hasDups
  BY <1>1, CalmlySame
<1>3. pc'[t] \in {"unprevcas"}
  BY DEF UnPrev, Goto, Here, LocalsKept
<1>4. \E v : loc' = [loc EXCEPT ![t].hint = v] /\ v = prev[loc[t].node]
  BY DEF UnPrev, Goto, Here, LocalsKept
<1>5. /\ Keep(t, {"hint"})
      /\ loc'[t].hint = prev[loc[t].node]
  BY <1>4 DEF Keep, Here, LocalsKept, NoLocals
<1>6. prev[loc[t].node] \in Before0 \cup {Nil}
  BY <1>1, ConstantFacts DEF Here, PlaceInv, InCall, Retiring, Hints
<1>7. Called(t)' /\ Own(t)'
  BY <1>1, <1>2, <1>3, <1>5, <1>6, OnwardKeeps DEF Here, Locals, Called,
     Onward, Keep, Entered, Linked, Locating, Placing
<1>8. Values(t)'
  BY <1>1, <1>2, <1>3, <1>5, <1>6 DEF Here, Locals, Values, Keep
<1>9. Depths(t)'
  BY <1>1, <1>2, <1>3, <1>5, <1>6, ConstantFacts DEF Here, Locals, Depths,
     Keep, Entered, Linked, Locating, AtLevel, Rising, Placing
<1>10. Walking(t)'
  BY <1>1, <1>2, <1>3, <1>5, <1>6 DEF Here, Locals, Walking, Keep, Key,
     Unlinking
<1>11. Dead(t)'
  BY <1>1, <1>2, <1>3, <1>5, <1>6 DEF Here, Locals, Dead, Keep, Unlinking
<1> HIDE DEF Before, Equal
<1>12. Path(t)'
  BY <1>1, <1>2, <1>3, <1>5, <1>6 DEF Here, Locals, Path, Keep, Key, Node,
     Placed, Placing, Unlinking, Moving, Demoting
<1> QED BY <1>1, <1>7, <1>8, <1>9, <1>10, <1>11, <1>12, CalmlyGood

LEMMA UnPrevCasGood ==
  ASSUME NEW t \in Threads, Here(t), UnPrevCas(t)
  PROVE  Good(t)
<1>1. pc[t] = "unprevcas" /\ todo' = todo
  BY DEF UnPrevCas
<1>2. Tidy(t) /\ Known' = Known
  BY StillTidy DEF UnPrevCas, Here, Still, shape, history
<1>3. Sizes' /\ Hints'
  <2>1. loc[t].hint \in Before0 \cup {Nil} BY DEF Here, Locals, Values
  <2>2. prev' \in [Cells -> Before0 \cup {Nil}]
    BY <2>1 DEF UnPrevCas, Here, Hints
  <2> QED
    BY <1>2, <2>2 DEF UnPrevCas, shape, heights, Here, Sizes, Hints, Before0
<1>4. pc'[t] \in {"uncount"}
  BY DEF UnPrevCas, Goto, Here, LocalsKept
<1>5. loc' = loc
  BY DEF UnPrevCas
<1>6. Keep(t, {})
  BY <1>5 DEF Keep
<1>7. Before0' = Before0 /\ Beyond' = Beyond
  BY <1>2 DEF Before0, Beyond
<1>8. Called(t)' /\ Own(t)'
  BY <1>1, <1>2, <1>3, <1>4, <1>5, <1>6, <1>7, OnwardKeeps DEF Here, Locals,
     Called, Onward, Keep, Entered, Linked, Locating, Placing
<1>9. Values(t)'
  BY <1>1, <1>2, <1>3, <1>4, <1>5, <1>6, <1>7 DEF Here, Locals, Values, Keep
<1>10. Depths(t)'
  BY <1>1, <1>2, <1>3, <1>4, <1>5, <1>6, <1>7, ConstantFacts DEF Here, Locals,
     Depths, Keep, Entered, Linked, Locating, AtLevel, Rising, Placing
<1>11. Walking(t)'
  BY <1>1, <1>2, <1>3, <1>4, <1>5, <1>6, <1>7 DEF Here, Locals, Walking, Keep,
     Key, Unlinking
<1>12. Dead(t)'
  BY <1>1, <1>2, <1>3, <1>4, <1>5, <1>6, <1>7 DEF Here, Locals, Dead, Keep,
     Unlinking
<1> HIDE DEF Before, Equal
<1>13. Path(t)'
  BY <1>1, <1>2, <1>3, <1>4, <1>5, <1>6, <1>7 DEF Here, Locals, Path, Keep,
     Key, Node, Placed, Placing, Unlinking, Moving, Demoting
<1> QED BY <1>2, <1>3, <1>8, <1>9, <1>10, <1>11, <1>12, <1>13 DEF Good, Locals

LEMMA UnCountGood ==
  ASSUME NEW t \in Threads, Here(t), UnCount(t)
  PROVE  Good(t)
<1>1. pc[t] = "uncount" /\ todo' = todo /\ Calmly
  BY DEF UnCount, Calmly, Still, shape, heights, history
<1>2. /\ Known' = Known /\ Before0' = Before0 /\ Beyond' = Beyond
      /\ next' = next /\ marked' = marked /\ hasDups' = hasDups
  BY <1>1, CalmlySame
<1>3. pc'[t] \in {"shrink"}
  BY DEF UnCount, Goto, Here, LocalsKept
<1>4. \E v : loc' = [loc EXCEPT ![t].i = v] /\ v = headHeight
  BY DEF UnCount, Goto, Here, LocalsKept
<1>5. /\ Keep(t, {"i"})
      /\ loc'[t].i = headHeight
  BY <1>4 DEF Keep, Here, LocalsKept, NoLocals
<1>6. headHeight \in Levels
  BY DEF Here, Sizes
<1>7. Called(t)' /\ Own(t)'
  BY <1>1, <1>2, <1>3, <1>5, <1>6, OnwardKeeps DEF Here, Locals, Called,
     Onward, Keep, Entered, Linked, Locating, Placing
<1>8. Values(t)'
  BY <1>1, <1>2, <1>3, <1>5, <1>6 DEF Here, Locals, Values, Keep
<1>9. Depths(t)'
  BY <1>1, <1>2, <1>3, <1>5, <1>6, ConstantFacts DEF Here, Locals, Depths,
     Keep, Entered, Linked, Locating, AtLevel, Rising, Placing
<1>10. Walking(t)'
  BY <1>1, <1>2, <1>3, <1>5, <1>6 DEF Here, Locals, Walking, Keep, Key,
     Unlinking
<1>11. Dead(t)'
  BY <1>1, <1>2, <1>3, <1>5, <1>6 DEF Here, Locals, Dead, Keep, Unlinking
<1> HIDE DEF Before, Equal
<1>12. Path(t)'
  BY <1>1, <1>2, <1>3, <1>5, <1>6 DEF Here, Locals, Path, Keep, Key, Node,
     Placed, Placing, Unlinking, Moving, Demoting
<1> QED BY <1>1, <1>7, <1>8, <1>9, <1>10, <1>11, <1>12, CalmlyGood

LEMMA ShrinkGood ==
  ASSUME NEW t \in Threads, Here(t), Shrink(t)
  PROVE  Good(t)
<1>1. pc[t] = "shrink" /\ todo' = todo /\ Calmly
  BY DEF Shrink, Calmly, Still, shape, heights, history
<1>2. /\ Known' = Known /\ Before0' = Before0 /\ Beyond' = Beyond
      /\ next' = next /\ marked' = marked /\ hasDups' = hasDups
  BY <1>1, CalmlySame
<1>3. pc'[t] \in {"shrinkcas", "retire"}
  BY DEF Shrink, Goto, Here, LocalsKept
<1>4. loc' = loc
  BY DEF Shrink
<1>5. Keep(t, {})
  BY <1>4 DEF Keep
<1>6. pc'[t] = "shrinkcas" => loc[t].i > 1
  BY DEF Shrink, Empty, Goto, Here, LocalsKept
<1>7. Called(t)' /\ Own(t)'
  BY <1>1, <1>2, <1>3, <1>4, <1>5, <1>6, OnwardKeeps DEF Here, Locals, Called,
     Onward, Keep, Entered, Linked, Locating, Placing
<1>8. Values(t)'
  BY <1>1, <1>2, <1>3, <1>4, <1>5, <1>6 DEF Here, Locals, Values, Keep
<1>9. Depths(t)'
  BY <1>1, <1>2, <1>3, <1>4, <1>5, <1>6, ConstantFacts DEF Here, Locals,
     Depths, Keep, Entered, Linked, Locating, AtLevel, Rising, Placing
<1>10. Walking(t)'
  BY <1>1, <1>2, <1>3, <1>4, <1>5, <1>6 DEF Here, Locals, Walking, Keep, Key,
     Unlinking
<1>11. Dead(t)'
  BY <1>1, <1>2, <1>3, <1>4, <1>5, <1>6 DEF Here, Locals, Dead, Keep, Unlinking
<1> HIDE DEF Before, Equal
<1>12. Path(t)'
  BY <1>1, <1>2, <1>3, <1>4, <1>5, <1>6 DEF Here, Locals, Path, Keep, Key,
     Node, Placed, Placing, Unlinking, Moving, Demoting
<1> QED BY <1>1, <1>7, <1>8, <1>9, <1>10, <1>11, <1>12, CalmlyGood

LEMMA ShrinkCasGood ==
  ASSUME NEW t \in Threads, Here(t), ShrinkCas(t)
  PROVE  Good(t)
<1>1. pc[t] = "shrinkcas" /\ todo' = todo
  BY DEF ShrinkCas
<1>2. Tidy(t) /\ Known' = Known
  BY StillTidy DEF ShrinkCas, Here, Still, shape, history
<1>3. Sizes' /\ Hints'
  <2>1. loc[t].i > 1 /\ loc[t].i \in Levels
    BY <1>1 DEF Here, Locals, Depths
  <2>2. loc[t].i - 1 \in Levels \ {0} BY <2>1, SkipListAssumption DEF Levels
  <2>3. headHeight' \in Levels \ {0} BY <2>2 DEF ShrinkCas, Here, Sizes
  <2> QED BY <1>2, <2>3 DEF ShrinkCas, shape, Here, Sizes, Hints, Before0
<1>4. pc'[t] \in {"shrink", "shrinktail"}
  BY DEF ShrinkCas, Goto, Here, LocalsKept
<1>5. \/ loc' = loc
      \/ /\ pc'[t] = "shrink"
         /\ \E v : loc' = [loc EXCEPT ![t].i = v] /\ v = headHeight
  BY DEF ShrinkCas, Goto, Here, LocalsKept
<1>6. /\ Keep(t, {"i"})
      /\ loc'[t].i \in {loc[t].i, headHeight}
      /\ pc'[t] = "shrinktail" => loc'[t].i = loc[t].i
  BY <1>5 DEF Keep, Here, LocalsKept, NoLocals
<1>7. Before0' = Before0 /\ Beyond' = Beyond
  BY <1>2 DEF Before0, Beyond
<1>8. headHeight \in Levels
  BY DEF Here, Sizes
<1>9. Called(t)' /\ Own(t)'
  BY <1>1, <1>2, <1>3, <1>4, <1>6, <1>7, <1>8, OnwardKeeps DEF Here, Locals,
     Called, Onward, Keep, Entered, Linked, Locating, Placing
<1>10. Values(t)'
  BY <1>1, <1>2, <1>3, <1>4, <1>6, <1>7, <1>8 DEF Here, Locals, Values, Keep
<1>11. Depths(t)'
  BY <1>1, <1>2, <1>3, <1>4, <1>6, <1>7, <1>8, ConstantFacts DEF Here, Locals,
     Depths, Keep, Entered, Linked, Locating, AtLevel, Rising, Placing
<1>12. Walking(t)'
  BY <1>1, <1>2, <1>3, <1>4, <1>6, <1>7, <1>8 DEF Here, Locals, Walking, Keep,
     Key, Unlinking
<1>13. Dead(t)'
  BY <1>1, <1>2, <1>3, <1>4, <1>6, <1>7, <1>8 DEF Here, Locals, Dead, Keep,
     Unlinking
<1> HIDE DEF Before, Equal
<1>14. Path(t)'
  BY <1>1, <1>2, <1>3, <1>4, <1>6, <1>7, <1>8 DEF Here, Locals, Path, Keep,
     Key, Node, Placed, Placing, Unlinking, Moving, Demoting
<1> QED BY <1>2, <1>3, <1>9, <1>10, <1>11, <1>12, <1>13, <1>14 DEF Good, Locals

LEMMA ShrinkTailGood ==
  ASSUME NEW t \in Threads, Here(t), ShrinkTail(t)
  PROVE  Good(t)
<1>1. pc[t] = "shrinktail" /\ todo' = todo
  BY DEF ShrinkTail
<1>2. Tidy(t) /\ Known' = Known
  BY StillTidy DEF ShrinkTail, Here, Still, shape, history
<1>3. Sizes' /\ Hints'
  <2>1. loc[t].i > 1 /\ loc[t].i \in Levels
    BY <1>1 DEF Here, Locals, Depths
  <2>2. loc[t].i - 1 \in Levels \ {0} BY <2>1, SkipListAssumption DEF Levels
  <2>3. tailHeight' \in Levels \ {0} BY <2>2 DEF ShrinkTail
  <2> QED BY <1>2, <2>3 DEF ShrinkTail, shape, Here, Sizes, Hints, Before0
<1>4. pc'[t] \in {"shrink"}
  BY DEF ShrinkTail, Goto, Here, LocalsKept
<1>5. \E v : loc' = [loc EXCEPT ![t].i = v] /\ v = loc[t].i - 1
  BY DEF ShrinkTail, Goto, Here, LocalsKept
<1>6. /\ Keep(t, {"i"})
      /\ loc'[t].i = loc[t].i - 1
  BY <1>5 DEF Keep, Here, LocalsKept, NoLocals
<1>7. Before0' = Before0 /\ Beyond' = Beyond
  BY <1>2 DEF Before0, Beyond
<1>8. loc[t].i - 1 \in Levels
  BY <1>1, SkipListAssumption DEF Here, Locals, Depths, Levels
<1>9. Called(t)' /\ Own(t)'
  BY <1>1, <1>2, <1>3, <1>4, <1>6, <1>7, <1>8, OnwardKeeps DEF Here, Locals,
     Called, Onward, Keep, Entered, Linked, Locating, Placing
<1>10. Values(t)'
  BY <1>1, <1>2, <1>3, <1>4, <1>6, <1>7, <1>8 DEF Here, Locals, Values, Keep
<1>11. Depths(t)'
  BY <1>1, <1>2, <1>3, <1>4, <1>6, <1>7, <1>8, ConstantFacts DEF Here, Locals,
     Depths, Keep, Entered, Linked, Locating, AtLevel, Rising, Placing
<1>12. Walking(t)'
  BY <1>1, <1>2, <1>3, <1>4, <1>6, <1>7, <1>8 DEF Here, Locals, Walking, Keep,
     Key, Unlinking
<1>13. Dead(t)'
  BY <1>1, <1>2, <1>3, <1>4, <1>6, <1>7, <1>8 DEF Here, Locals, Dead, Keep,
     Unlinking
<1> HIDE DEF Before, Equal
<1>14. Path(t)'
  BY <1>1, <1>2, <1>3, <1>4, <1>6, <1>7, <1>8 DEF Here, Locals, Path, Keep,
     Key, Node, Placed, Placing, Unlinking, Moving, Demoting
<1> QED BY <1>2, <1>3, <1>9, <1>10, <1>11, <1>12, <1>13, <1>14 DEF Good, Locals

LEMMA RetireGood ==
  ASSUME NEW t \in Threads, Here(t), Retire(t)
  PROVE  Good(t)
<1>1. pc[t] = "retire" /\ todo' = todo /\ Calmly
  BY DEF Retire, Calmly, Still, shape, heights, history
<1>2. /\ Known' = Known /\ Before0' = Before0 /\ Beyond' = Beyond
      /\ next' = next /\ marked' = marked /\ hasDups' = hasDups
  BY <1>1, CalmlySame
<1>3. pc'[t] \in {"adjust"}
  BY DEF Retire, Goto, Here, LocalsKept
<1>4. loc' = loc
  BY DEF Retire
<1>5. Keep(t, {})
  BY <1>4 DEF Keep
<1>6. Called(t)' /\ Own(t)'
  BY <1>1, <1>2, <1>3, <1>4, <1>5, OnwardKeeps DEF Here, Locals, Called,
     Onward, Keep, Entered, Linked, Locating, Placing
<1>7. Values(t)'
  BY <1>1, <1>2, <1>3, <1>4, <1>5 DEF Here, Locals, Values, Keep
<1>8. Depths(t)'
  BY <1>1, <1>2, <1>3, <1>4, <1>5, ConstantFacts DEF Here, Locals, Depths,
     Keep, Entered, Linked, Locating, AtLevel, Rising, Placing
<1>9. Walking(t)'
  BY <1>1, <1>2, <1>3, <1>4, <1>5 DEF Here, Locals, Walking, Keep, Key,
     Unlinking
<1>10. Dead(t)'
  BY <1>1, <1>2, <1>3, <1>4, <1>5 DEF Here, Locals, Dead, Keep, Unlinking
<1> HIDE DEF Before, Equal
<1>11. Path(t)'
  BY <1>1, <1>2, <1>3, <1>4, <1>5 DEF Here, Locals, Path, Keep, Key, Node,
     Placed, Placing, Unlinking, Moving, Demoting
<1> QED BY <1>1, <1>6, <1>7, <1>8, <1>9, <1>10, <1>11, CalmlyGood

-----------------------------------------------------------------------------
(***************************************************************************)
(* The steps of a lookup: it reads, and keeps to known nodes.              *)
(***************************************************************************)
LEMMA LookStartGood ==
  ASSUME NEW t \in Threads, Here(t), LookStart(t)
  PROVE  Good(t)
<1>1. pc[t] = "lookup" /\ todo' = todo /\ Calmly
  BY DEF LookStart, Calmly, Still, shape, heights, history
<1>2. /\ Known' = Known /\ Before0' = Before0 /\ Beyond' = Beyond
      /\ next' = next /\ marked' = marked /\ hasDups' = hasDups
  BY <1>1, CalmlySame
<1>3. pc'[t] \in {"lookpred"}
  BY DEF LookStart, Goto, Here, LocalsKept
<1>4. \E u, v, w : /\ loc' = [loc EXCEPT ![t].pred = u, ![t].lvl = v, ![t].found = w]
                   /\ u = Head /\ v = headHeight - 1 /\ w = Nil
  BY DEF LookStart, Goto, Here, LocalsKept
<1>5. /\ Keep(t, {"pred", "lvl", "found"})
      /\ loc'[t].pred = Head /\ loc'[t].lvl = headHeight - 1
      /\ loc'[t].found = Nil
  BY <1>4 DEF Keep, Here, LocalsKept, NoLocals
<1>6. headHeight - 1 \in Levels /\ headHeight - 1 \in 0 .. MaxHeight
  BY SkipListAssumption DEF Here, Sizes, Levels
<1>7. Called(t)' /\ Own(t)'
  BY <1>1, <1>2, <1>3, <1>5, <1>6, OnwardKeeps DEF Here, Locals, Called,
     Onward, Keep, Entered, Linked, Locating, Placing
<1>8. Values(t)'
  BY <1>1, <1>2, <1>3, <1>5, <1>6, ConstantFacts DEF Here, Locals, Values,
     Keep, Before0
<1>9. Depths(t)'
  BY <1>1, <1>2, <1>3, <1>5, <1>6, ConstantFacts DEF Here, Locals, Depths,
     Keep, Entered, Linked, Locating, AtLevel, Rising, Placing
<1>10. Walking(t)'
  BY <1>1, <1>2, <1>3, <1>5, <1>6, ConstantFacts DEF Here, Locals, Walking,
     Keep, Key, Unlinking
<1>11. Dead(t)'
  BY <1>1, <1>2, <1>3, <1>5, <1>6 DEF Here, Locals, Dead, Keep, Unlinking
<1> HIDE DEF Before, Equal
<1>12. Path(t)'
  BY <1>1, <1>2, <1>3, <1>5, <1>6 DEF Here, Locals, Path, Keep, Key, Node,
     Placed, Placing, Unlinking, Moving, Demoting
<1> QED BY <1>1, <1>7, <1>8, <1>9, <1>10, <1>11, <1>12, CalmlyGood

LEMMA LookPredGood ==
  ASSUME NEW t \in Threads, Here(t), LookPred(t)
  PROVE  Good(t)
<1>1. pc[t] = "lookpred" /\ todo' = todo /\ Calmly
  BY DEF LookPred, Calmly, Still, shape, heights, history
<1>2. /\ Known' = Known /\ Before0' = Before0 /\ Beyond' = Beyond
      /\ next' = next /\ marked' = marked /\ hasDups' = hasDups
  BY <1>1, CalmlySame
<1>3. pc'[t] \in {"lookup", "lookcurr"}
  BY DEF LookPred, Goto, Here, LocalsKept
<1>4. \/ pc'[t] = "lookup" /\ loc' = loc
      \/ /\ pc'[t] = "lookcurr"
         /\ \E v : /\ loc' = [loc EXCEPT ![t].curr = v]
                   /\ v = Word(loc[t].pred, loc[t].lvl)
  BY DEF LookPred, Goto, Here, LocalsKept, Word
<1>5. /\ Keep(t, {"curr"})
      /\ pc'[t] = "lookup" => loc'[t].curr = loc[t].curr
      /\ pc'[t] = "lookcurr" => loc'[t].curr = Word(loc[t].pred, loc[t].lvl)
  BY <1>4 DEF Keep, Here, LocalsKept, NoLocals
<1>6. loc[t].pred \in Before0 /\ loc[t].lvl \in Levels
  BY <1>1 DEF Here, Locals, Walking, Values, Depths, AtLevel
<1>7. LET w == Word(loc[t].pred, loc[t].lvl)
      IN w \in Beyond /\ w # Head
  BY <1>6, LinkedWord DEF Here, Word
<1>8. Called(t)' /\ Own(t)'
  BY <1>1, <1>2, <1>3, <1>5, <1>6, <1>7, OnwardKeeps DEF Here, Locals, Called,
     Onward, Keep, Entered, Linked, Locating, Placing
<1>9. Values(t)'
  BY <1>1, <1>2, <1>3, <1>5, <1>6, <1>7 DEF Here, Locals, Values, Keep, Beyond,
     Before0
<1>10. Depths(t)'
  BY <1>1, <1>2, <1>3, <1>5, <1>6, <1>7, ConstantFacts DEF Here, Locals,
     Depths, Keep, Entered, Linked, Locating, AtLevel, Rising, Placing
<1>11. Walking(t)'
  BY <1>1, <1>2, <1>3, <1>5, <1>6, <1>7 DEF Here, Locals, Walking, Keep, Key,
     Unlinking
<1>12. Dead(t)'
  BY <1>1, <1>2, <1>3, <1>5, <1>6, <1>7 DEF Here, Locals, Dead, Keep, Unlinking
<1> HIDE DEF Before, Equal
<1>13. Path(t)'
  BY <1>1, <1>2, <1>3, <1>5, <1>6, <1>7 DEF Here, Locals, Path, Keep, Key,
     Node, Placed, Placing, Unlinking, Moving, Demoting
<1> QED BY <1>1, <1>8, <1>9, <1>10, <1>11, <1>12, <1>13, CalmlyGood

LEMMA LookCurrGood ==
  ASSUME NEW t \in Threads, Here(t), LookCurr(t)
  PROVE  Good(t)
<1>1. pc[t] = "lookcurr" /\ todo' = todo /\ Calmly
  BY DEF LookCurr, Calmly, Still, shape, heights, history, LookDown, Return
<1>2. /\ Known' = Known /\ Before0' = Before0 /\ Beyond' = Beyond
      /\ next' = next /\ marked' = marked /\ hasDups' = hasDups
  BY <1>1, CalmlySame
<1>3. CASE Return(t, "missing") BY <1>1, <1>3, ReturnGood
<1>4. CASE ~ Return(t, "missing")
  <2> DEFINE w == Word(loc[t].curr, loc[t].lvl)
  <2>0. \/ /\ pc'[t] = "lookcurr" /\ loc[t].curr # Tail
           /\ \/ Marked(loc[t].curr, loc[t].lvl) \/ Before(loc[t].curr, Key(t))
           /\ \/ \E v : loc' = [loc EXCEPT ![t].curr = v] /\ v = w
              \/ \E u, v : /\ loc' = [loc EXCEPT ![t].pred = u, ![t].curr = v]
                           /\ u = loc[t].curr /\ v = w
        \/ /\ pc'[t] = "lookdups" /\ Equal(loc[t].curr, Key(t))
           /\ \E v : loc' = [loc EXCEPT ![t].found = v] /\ v = loc[t].curr
        \/ /\ pc'[t] = "lookpred" /\ loc[t].lvl > 0
           /\ \E v : loc' = [loc EXCEPT ![t].lvl = v] /\ v = loc[t].lvl - 1
    <3>1. /\ Marked(loc[t].curr, loc[t].lvl) => loc[t].curr # Tail
          /\ Before(loc[t].curr, Key(t)) => loc[t].curr # Tail
      BY MarkedWord, ConstantFacts DEF Here, Before
    <3> QED
      BY <1>1, <1>4, <3>1 DEF LookCurr, LookDown, Goto, Here, LocalsKept, Word
  <2> HIDE DEF w
  <2>1. /\ Keep(t, {"pred", "curr", "found", "lvl"})
        /\ \/ /\ pc'[t] = "lookcurr"
              /\ \/ Marked(loc[t].curr, loc[t].lvl) \/ Before(loc[t].curr, Key(t))
              /\ loc'[t].pred \in {loc[t].pred, loc[t].curr} /\ loc'[t].curr = w
              /\ loc'[t].found = loc[t].found /\ loc'[t].lvl = loc[t].lvl
           \/ /\ pc'[t] = "lookdups" /\ Equal(loc[t].curr, Key(t))
              /\ loc'[t].pred = loc[t].pred /\ loc'[t].curr = loc[t].curr
              /\ loc'[t].found = loc[t].curr /\ loc'[t].lvl = loc[t].lvl
           \/ /\ pc'[t] = "lookpred" /\ loc[t].lvl > 0
              /\ loc'[t].pred = loc[t].pred /\ loc'[t].curr = loc[t].curr
              /\ loc'[t].found = loc[t].found /\ loc'[t].lvl = loc[t].lvl - 1
    <3>1. CASE /\ pc'[t] = "lookcurr"
               /\ \/ Marked(loc[t].curr, loc[t].lvl) \/ Before(loc[t].curr, Key(t))
               /\ \/ \E v : loc' = [loc EXCEPT ![t].curr = v] /\ v = w
                  \/ \E u, v : /\ loc' = [loc EXCEPT ![t].pred = u, ![t].curr = v]
                               /\ u = loc[t].curr /\ v = w
      <4>1. Keep(t, {"pred", "curr"}) /\ loc'[t].curr = w
            /\ loc'[t].pred \in {loc[t].pred, loc[t].curr}
        <5>1. CASE \E v : loc' = [loc EXCEPT ![t].curr = v] /\ v = w
          BY <5>1 DEF Keep, Here, LocalsKept, NoLocals
        <5>2. CASE \E u, v : /\ loc' = [loc EXCEPT ![t].pred = u, ![t].curr = v]
                             /\ u = loc[t].curr /\ v = w
          BY <5>2 DEF Keep, Here, LocalsKept, NoLocals
        <5> QED BY <3>1, <5>1, <5>2
      <4> QED BY <3>1, <4>1 DEF Keep
    <3>2. CASE /\ pc'[t] = "lookdups" /\ Equal(loc[t].curr, Key(t))
               /\ \E v : loc' = [loc EXCEPT ![t].found = v] /\ v = loc[t].curr
      BY <3>2 DEF Keep, Here, LocalsKept, NoLocals
    <3>3. CASE /\ pc'[t] = "lookpred" /\ loc[t].lvl > 0
               /\ \E v : loc' = [loc EXCEPT ![t].lvl = v] /\ v = loc[t].lvl - 1
      BY <3>3 DEF Keep, Here, LocalsKept, NoLocals
    <3> QED BY <2>0, <3>1, <3>2, <3>3
  <2>2. /\ loc[t].lvl \in Levels
        /\ loc[t].lvl > 0 => loc[t].lvl - 1 \in Levels \cap (0 .. MaxHeight)
    <3>1. loc[t].lvl \in Levels BY <1>1 DEF Here, Locals, Depths, AtLevel
    <3> QED BY <3>1, SkipListAssumption DEF Levels
  <2>3. /\ loc[t].pred \in Before0 /\ loc[t].pred # Nil /\ loc[t].curr # Head
        /\ loc[t].curr \in Before0 \cup {Tail, Nil}
        /\ Equal(loc[t].curr, Key(t)) =>
              loc[t].curr \in Known /\ KeyOf[loc[t].curr] = Key(t)
    BY <1>1, KnownNodes, ConstantFacts DEF Here, Locals, Walking, Values,
         Equal, Before0
  <2>4. pc'[t] = "lookcurr" =>
           loc[t].curr \in Before0 /\ loc[t].curr # Nil /\ w \in Beyond /\ w # Head
    <3>1. pc'[t] = "lookcurr" => loc[t].curr \in Nodes \cup {Head}
      BY <2>1, MarkedWord DEF Here, Before
    <3>2. pc'[t] = "lookcurr" => loc[t].curr \in Before0 /\ loc[t].curr # Nil
      BY <3>1, <2>3, ConstantFacts
    <3> QED BY <3>2, <2>2, LinkedWord DEF Here, Word, w
  <2>5. Called(t)' /\ Own(t)'
    BY <1>1, <1>2, <2>1, <2>2, <2>3, <2>4, OnwardKeeps DEF Here, Locals,
     Called, Onward, Keep, Entered, Linked, Locating, Placing
  <2>6. Values(t)'
    BY <1>1, <1>2, <2>1, <2>2, <2>3, <2>4 DEF Here, Locals, Values, Keep,
     Beyond, Before0
  <2>7. Depths(t)'
    BY <1>1, <1>2, <2>1, <2>2, <2>3, <2>4, ConstantFacts DEF Here, Locals,
     Depths, Keep, Entered, Linked, Locating, AtLevel, Rising, Placing
  <2>8. Walking(t)'
    BY <1>1, <1>2, <2>1, <2>2, <2>3, <2>4 DEF Here, Locals, Walking, Keep, Key,
     Unlinking
  <2>9. Dead(t)'
    BY <1>1, <1>2, <2>1, <2>2, <2>3, <2>4 DEF Here, Locals, Dead, Keep,
     Unlinking
  <2> HIDE DEF Before, Equal
  <2>10. Path(t)'
    BY <1>1, <1>2, <2>1, <2>2, <2>3, <2>4 DEF Here, Locals, Path, Keep, Key,
     Node, Placed, Placing, Unlinking, Moving, Demoting
  <2> QED BY <1>1, <2>5, <2>6, <2>7, <2>8, <2>9, <2>10, CalmlyGood
<1> QED BY <1>3, <1>4


LEMMA LookDupsGood ==
  ASSUME NEW t \in Threads, Here(t), LookDups(t)
  PROVE  Good(t)
<1>1. pc[t] = "lookdups" /\ todo' = todo /\ Calmly
  BY DEF LookDups, Calmly, Still, shape, heights, history, LookDown, Return
<1>2. /\ Known' = Known /\ Before0' = Before0 /\ Beyond' = Beyond
      /\ next' = next /\ marked' = marked /\ hasDups' = hasDups
  BY <1>1, CalmlySame
<1>3. CASE Return(t, "found") BY <1>1, <1>3, ReturnGood
<1>4. CASE ~ Return(t, "found")
  <2>1. /\ pc'[t] = "lookpred" /\ loc[t].lvl > 0
        /\ \E v : loc' = [loc EXCEPT ![t].lvl = v] /\ v = loc[t].lvl - 1
    BY <1>1, <1>4 DEF LookDups, LookDown, Goto, Here, LocalsKept
  <2>2. Keep(t, {"lvl"}) /\ loc'[t].lvl = loc[t].lvl - 1
    BY <2>1 DEF Keep, Here, LocalsKept, NoLocals
  <2>3. loc[t].lvl > 0 => loc[t].lvl - 1 \in Levels \cap (0 .. MaxHeight)
    <3>1. loc[t].lvl \in Levels BY <1>1 DEF Here, Locals, Depths, AtLevel
    <3> QED BY <3>1, SkipListAssumption DEF Levels
  <2>4. Called(t)' /\ Own(t)'
    BY <1>1, <1>2, <2>1, <2>2, <2>3, OnwardKeeps DEF Here, Locals, Called,
     Onward, Keep, Entered, Linked, Locating, Placing
  <2>5. Values(t)'
    BY <1>1, <1>2, <2>1, <2>2, <2>3 DEF Here, Locals, Values, Keep
  <2>6. Depths(t)'
    BY <1>1, <1>2, <2>1, <2>2, <2>3, ConstantFacts DEF Here, Locals, Depths,
     Keep, Entered, Linked, Locating, AtLevel, Rising, Placing
  <2>7. Walking(t)'
    BY <1>1, <1>2, <2>1, <2>2, <2>3 DEF Here, Locals, Walking, Keep, Key,
     Unlinking
  <2>8. Dead(t)'
    BY <1>1, <1>2, <2>1, <2>2, <2>3 DEF Here, Locals, Dead, Keep, Unlinking
  <2> HIDE DEF Before, Equal
  <2>9. Path(t)'
    BY <1>1, <1>2, <2>1, <2>2, <2>3 DEF Here, Locals, Path, Keep, Key, Node,
     Placed, Placing, Unlinking, Moving, Demoting
  <2> QED BY <1>1, <2>4, <2>5, <2>6, <2>7, <2>8, <2>9, CalmlyGood
<1> QED BY <1>3, <1>4

-----------------------------------------------------------------------------
(***************************************************************************)
(* The steps of the cursor operations: they read, and keep to known nodes. *)
(***************************************************************************)
LEMMA PositionLowGood ==
  ASSUME NEW t \in Threads, Here(t), PositionLow(t)
  PROVE  Good(t)
<1>1. todo' = todo /\ Calmly
  BY DEF PositionLow, Calmly, Still, shape, heights, Return, Answer
<1>2. PICK r : Return(t, r) BY DEF PositionLow, Answer
<1> QED BY <1>1, <1>2, ReturnGood

LEMMA PositionHighGood ==
  ASSUME NEW t \in Threads, Here(t), PositionHigh(t)
  PROVE  Good(t)
<1>1. pc[t] = "position" /\ todo' = todo /\ Calmly
  BY DEF PositionHigh, Calmly, Still, shape, heights, history
<1>2. /\ Known' = Known /\ Before0' = Before0 /\ Beyond' = Beyond
      /\ next' = next /\ marked' = marked /\ hasDups' = hasDups
  BY <1>1, CalmlySame
<1>3. pc'[t] \in {"scan"}
  BY DEF PositionHigh, Goto, Here, LocalsKept
<1>4. \E v : loc' = [loc EXCEPT ![t].curr = v] /\ v = loc[t].preds[0]
  BY DEF PositionHigh, Goto, Here, LocalsKept
<1>5. /\ Keep(t, {"curr"})
      /\ loc'[t].curr = loc[t].preds[0]
  BY <1>4 DEF Keep, Here, LocalsKept, NoLocals
<1>6. loc[t].preds[0] \in Before0
  BY <1>1, ConstantFacts DEF Here, Locals, Path, Placed, Values, Before,
     Before0
<1>7. Called(t)' /\ Own(t)'
  BY <1>1, <1>2, <1>3, <1>5, <1>6, OnwardKeeps DEF Here, Locals, Called,
     Onward, Keep, Entered, Linked, Locating, Placing
<1>8. Values(t)'
  BY <1>1, <1>2, <1>3, <1>5, <1>6 DEF Here, Locals, Values, Keep
<1>9. Depths(t)'
  BY <1>1, <1>2, <1>3, <1>5, <1>6, ConstantFacts DEF Here, Locals, Depths,
     Keep, Entered, Linked, Locating, AtLevel, Rising, Placing
<1>10. Walking(t)'
  BY <1>1, <1>2, <1>3, <1>5, <1>6 DEF Here, Locals, Walking, Keep, Key,
     Unlinking
<1>11. Dead(t)'
  BY <1>1, <1>2, <1>3, <1>5, <1>6 DEF Here, Locals, Dead, Keep, Unlinking
<1> HIDE DEF Before, Equal
<1>12. Path(t)'
  BY <1>1, <1>2, <1>3, <1>5, <1>6 DEF Here, Locals, Path, Keep, Key, Node,
     Placed, Placing, Unlinking, Moving, Demoting
<1> QED BY <1>1, <1>7, <1>8, <1>9, <1>10, <1>11, <1>12, CalmlyGood

LEMMA ScanGood ==
  ASSUME NEW t \in Threads, Here(t), Scan(t)
  PROVE  Good(t)
<1>1. pc[t] = "scan" /\ todo' = todo /\ Calmly
  BY DEF Scan, Calmly, Still, shape, heights, history, Return, Answer
<1>2. /\ Known' = Known /\ Before0' = Before0 /\ Beyond' = Beyond
      /\ next' = next /\ marked' = marked /\ hasDups' = hasDups
  BY <1>1, CalmlySame
<1>3. CASE \E r : Return(t, r) BY <1>1, <1>3, ReturnGood
<1>4. CASE ~ \E r : Return(t, r)
  <2>1. /\ pc'[t] = "scantest" /\ Word(loc[t].curr, 0) # Tail
        /\ \E v : loc' = [loc EXCEPT ![t].curr = v] /\ v = Word(loc[t].curr, 0)
    BY <1>1, <1>4 DEF Scan, Goto, Here, LocalsKept, Answer, Word
  <2>2. /\ Keep(t, {"curr"}) /\ loc'[t].curr = Word(loc[t].curr, 0)
        /\ pc'[t] = "scantest"
    BY <2>1 DEF Keep, Here, LocalsKept, NoLocals
  <2>3. Word(loc[t].curr, 0) \in Known
    BY <1>1, <2>1, LinkedWord, ConstantFacts DEF Here, Locals, Walking, Word,
     Beyond
  <2>4. Called(t)' /\ Own(t)'
    BY <1>1, <1>2, <2>2, <2>3, OnwardKeeps DEF Here, Locals, Called, Onward,
     Keep, Entered, Linked, Locating, Placing
  <2>5. Values(t)'
    BY <1>1, <1>2, <2>2, <2>3 DEF Here, Locals, Values, Keep, Before0
  <2>6. Depths(t)'
    BY <1>1, <1>2, <2>2, <2>3, ConstantFacts DEF Here, Locals, Depths, Keep,
     Entered, Linked, Locating, AtLevel, Rising, Placing
  <2>7. Walking(t)'
    BY <1>1, <1>2, <2>2, <2>3 DEF Here, Locals, Walking, Keep, Key, Unlinking
  <2>8. Dead(t)'
    BY <1>1, <1>2, <2>2, <2>3 DEF Here, Locals, Dead, Keep, Unlinking
  <2> HIDE DEF Before, Equal
  <2>9. Path(t)'
    BY <1>1, <1>2, <2>2, <2>3 DEF Here, Locals, Path, Keep, Key, Node, Placed,
     Placing, Unlinking, Moving, Demoting
  <2> QED BY <1>1, <2>4, <2>5, <2>6, <2>7, <2>8, <2>9, CalmlyGood
<1> QED BY <1>3, <1>4

LEMMA ScanTestGood ==
  ASSUME NEW t \in Threads, Here(t), ScanTest(t)
  PROVE  Good(t)
<1>1. pc[t] = "scantest" /\ todo' = todo /\ Calmly
  BY DEF ScanTest, Calmly, Still, shape, heights, history, Return, Answer
<1>2. /\ Known' = Known /\ Before0' = Before0 /\ Beyond' = Beyond
      /\ next' = next /\ marked' = marked /\ hasDups' = hasDups
  BY <1>1, CalmlySame
<1>3. CASE \E r : Return(t, r) BY <1>1, <1>3, ReturnGood
<1>4. CASE ~ \E r : Return(t, r)
  <2>1. pc'[t] = "scan" /\ loc' = loc
    BY <1>1, <1>4 DEF ScanTest, Goto, Here, LocalsKept, Answer
  <2>2. Keep(t, {}) /\ pc'[t] = "scan"
    BY <2>1 DEF Keep, Here, LocalsKept, NoLocals
  <2>3. loc[t].curr \in Before0
    BY <1>1 DEF Here, Locals, Walking, Before0
  <2>4. Called(t)' /\ Own(t)'
    BY <1>1, <1>2, <2>2, <2>3, OnwardKeeps DEF Here, Locals, Called, Onward,
     Keep, Entered, Linked, Locating, Placing
  <2>5. Values(t)'
    BY <1>1, <1>2, <2>2, <2>3 DEF Here, Locals, Values, Keep
  <2>6. Depths(t)'
    BY <1>1, <1>2, <2>2, <2>3, ConstantFacts DEF Here, Locals, Depths, Keep,
     Entered, Linked, Locating, AtLevel, Rising, Placing
  <2>7. Walking(t)'
    BY <1>1, <1>2, <2>2, <2>3 DEF Here, Locals, Walking, Keep, Key, Unlinking
  <2>8. Dead(t)'
    BY <1>1, <1>2, <2>2, <2>3 DEF Here, Locals, Dead, Keep, Unlinking
  <2> HIDE DEF Before, Equal
  <2>9. Path(t)'
    BY <1>1, <1>2, <2>2, <2>3 DEF Here, Locals, Path, Keep, Key, Node, Placed,
     Placing, Unlinking, Moving, Demoting
  <2> QED BY <1>1, <2>4, <2>5, <2>6, <2>7, <2>8, <2>9, CalmlyGood
<1> QED BY <1>3, <1>4

LEMMA ScanHeadGood ==
  ASSUME NEW t \in Threads, Here(t), ScanHead(t)
  PROVE  Good(t)
<1>1. pc[t] = "head" /\ todo' = todo /\ Calmly
  BY DEF ScanHead, Calmly, Still, shape, heights, history
<1>2. /\ Known' = Known /\ Before0' = Before0 /\ Beyond' = Beyond
      /\ next' = next /\ marked' = marked /\ hasDups' = hasDups
  BY <1>1, CalmlySame
<1>3. pc'[t] \in {"forward"}
  BY DEF ScanHead, Goto, Here, LocalsKept
<1>4. \E u, v : loc' = [loc EXCEPT ![t].curr = u, ![t].k = v] /\ u = Head
  BY DEF ScanHead, Goto, Here, LocalsKept
<1>5. /\ Keep(t, {"curr"})
      /\ loc'[t].curr = Head
  BY <1>4 DEF Keep, Here, LocalsKept, NoLocals
<1>6. Head \in Before0
  BY DEF Before0
<1>7. Called(t)' /\ Own(t)'
  BY <1>1, <1>2, <1>3, <1>5, <1>6, OnwardKeeps DEF Here, Locals, Called,
     Onward, Keep, Entered, Linked, Locating, Placing
<1>8. Values(t)'
  BY <1>1, <1>2, <1>3, <1>5, <1>6 DEF Here, Locals, Values, Keep
<1>9. Depths(t)'
  BY <1>1, <1>2, <1>3, <1>5, <1>6, ConstantFacts DEF Here, Locals, Depths,
     Keep, Entered, Linked, Locating, AtLevel, Rising, Placing
<1>10. Walking(t)'
  BY <1>1, <1>2, <1>3, <1>5, <1>6 DEF Here, Locals, Walking, Keep, Key,
     Unlinking
<1>11. Dead(t)'
  BY <1>1, <1>2, <1>3, <1>5, <1>6 DEF Here, Locals, Dead, Keep, Unlinking
<1> HIDE DEF Before, Equal
<1>12. Path(t)'
  BY <1>1, <1>2, <1>3, <1>5, <1>6 DEF Here, Locals, Path, Keep, Key, Node,
     Placed, Placing, Unlinking, Moving, Demoting
<1> QED BY <1>1, <1>7, <1>8, <1>9, <1>10, <1>11, <1>12, CalmlyGood

LEMMA ForwardGood ==
  ASSUME NEW t \in Threads, Here(t), Forward(t)
  PROVE  Good(t)
<1>1. pc[t] = "forward" /\ todo' = todo /\ Calmly
  BY DEF Forward, Calmly, Still, shape, heights, history, Return, Answer
<1>2. /\ Known' = Known /\ Before0' = Before0 /\ Beyond' = Beyond
      /\ next' = next /\ marked' = marked /\ hasDups' = hasDups
  BY <1>1, CalmlySame
<1>3. CASE \E r : Return(t, r) BY <1>1, <1>3, ReturnGood
<1>4. CASE ~ \E r : Return(t, r)
  <2>1. /\ pc'[t] = "forward" /\ Word(loc[t].curr, 0) # Tail
        /\ \E u, v : /\ loc' = [loc EXCEPT ![t].curr = u, ![t].met = v]
                     /\ u = Word(loc[t].curr, 0) /\ v = loc[t].met \cup {u}
    BY <1>1, <1>4 DEF Forward, Goto, Here, LocalsKept, Answer, Word
  <2>2. /\ Keep(t, {"curr", "met"}) /\ loc'[t].curr = Word(loc[t].curr, 0)
        /\ loc'[t].met = loc[t].met \cup {Word(loc[t].curr, 0)}
        /\ pc'[t] = "forward"
    BY <2>1 DEF Keep, Here, LocalsKept, NoLocals
  <2>3. Word(loc[t].curr, 0) \in Known
    BY <1>1, <2>1, LinkedWord, ConstantFacts DEF Here, Locals, Walking, Word,
     Beyond
  <2>4. Called(t)' /\ Own(t)'
    BY <1>1, <1>2, <2>2, <2>3, OnwardKeeps DEF Here, Locals, Called, Onward,
     Keep, Entered, Linked, Locating, Placing
  <2>5. Values(t)'
    BY <1>1, <1>2, <2>2, <2>3 DEF Here, Locals, Values, Keep, Before0
  <2>6. Depths(t)'
    BY <1>1, <1>2, <2>2, <2>3, ConstantFacts DEF Here, Locals, Depths, Keep,
     Entered, Linked, Locating, AtLevel, Rising, Placing
  <2>7. Walking(t)'
    BY <1>1, <1>2, <2>2, <2>3 DEF Here, Locals, Walking, Keep, Key, Unlinking,
     Before0
  <2>8. Dead(t)'
    BY <1>1, <1>2, <2>2, <2>3 DEF Here, Locals, Dead, Keep, Unlinking
  <2> HIDE DEF Before, Equal
  <2>9. Path(t)'
    BY <1>1, <1>2, <2>2, <2>3 DEF Here, Locals, Path, Keep, Key, Node, Placed,
     Placing, Unlinking, Moving, Demoting
  <2> QED BY <1>1, <2>4, <2>5, <2>6, <2>7, <2>8, <2>9, CalmlyGood
<1> QED BY <1>3, <1>4

LEMMA ScanTailGood ==
  ASSUME NEW t \in Threads, Here(t), ScanTail(t)
  PROVE  Good(t)
<1>1. pc[t] = "tail" /\ todo' = todo /\ Calmly
  BY DEF ScanTail, Calmly, Still, shape, heights, history
<1>2. /\ Known' = Known /\ Before0' = Before0 /\ Beyond' = Beyond
      /\ next' = next /\ marked' = marked /\ hasDups' = hasDups
  BY <1>1, CalmlySame
<1>3. pc'[t] \in {"backward"}
  BY DEF ScanTail, Goto, Here, LocalsKept
<1>4. \E u : loc' = [loc EXCEPT ![t].curr = u] /\ u = Tail
  BY DEF ScanTail, Goto, Here, LocalsKept
<1>5. /\ Keep(t, {"curr"})
      /\ loc'[t].curr = Tail
  BY <1>4 DEF Keep, Here, LocalsKept, NoLocals
<1>6. Called(t)' /\ Own(t)'
  BY <1>1, <1>2, <1>3, <1>5, OnwardKeeps DEF Here, Locals, Called, Onward,
     Keep, Entered, Linked, Locating, Placing
<1>7. Values(t)'
  BY <1>1, <1>2, <1>3, <1>5 DEF Here, Locals, Values, Keep
<1>8. Depths(t)'
  BY <1>1, <1>2, <1>3, <1>5, ConstantFacts DEF Here, Locals, Depths, Keep,
     Entered, Linked, Locating, AtLevel, Rising, Placing
<1>9. Walking(t)'
  BY <1>1, <1>2, <1>3, <1>5 DEF Here, Locals, Walking, Keep, Key, Unlinking
<1>10. Dead(t)'
  BY <1>1, <1>2, <1>3, <1>5 DEF Here, Locals, Dead, Keep, Unlinking
<1> HIDE DEF Before, Equal
<1>11. Path(t)'
  BY <1>1, <1>2, <1>3, <1>5 DEF Here, Locals, Path, Keep, Key, Node, Placed,
     Placing, Unlinking, Moving, Demoting
<1> QED BY <1>1, <1>6, <1>7, <1>8, <1>9, <1>10, <1>11, CalmlyGood

LEMMA FollowGood ==
  ASSUME NEW t \in Threads, Here(t), Follow(t)
  PROVE  Good(t)
<1>1. pc[t] = "backward" /\ todo' = todo /\ Calmly
  BY DEF Follow, Calmly, Still, shape, heights, history, Return, Answer
<1>2. /\ Known' = Known /\ Before0' = Before0 /\ Beyond' = Beyond
      /\ next' = next /\ marked' = marked /\ hasDups' = hasDups
  BY <1>1, CalmlySame
<1>3. CASE \E r : Return(t, r) BY <1>1, <1>3, ReturnGood
<1>4. CASE ~ \E r : Return(t, r)
  <2>1. /\ pc'[t] = "backward" /\ prev[loc[t].curr] \in Nodes
        /\ \E u, v : /\ loc' = [loc EXCEPT ![t].curr = u, ![t].met = v]
                     /\ u = prev[loc[t].curr] /\ v = loc[t].met \cup {u}
    BY <1>1, <1>4 DEF Follow, Goto, Here, LocalsKept, Answer
  <2>2. /\ Keep(t, {"curr", "met"}) /\ loc'[t].curr = prev[loc[t].curr]
        /\ loc'[t].met = loc[t].met \cup {prev[loc[t].curr]}
        /\ pc'[t] = "backward"
    BY <2>1 DEF Keep, Here, LocalsKept, NoLocals
  <2>3. prev[loc[t].curr] \in Known
    <3>1. loc[t].curr \in Cells
      BY <1>1, KnownNodes, ConstantFacts DEF Here, Locals, Walking, Before0
    <3> QED BY <2>1, <3>1, ConstantFacts DEF Here, Hints, Before0
  <2>4. Called(t)' /\ Own(t)'
    BY <1>1, <1>2, <2>2, <2>3, OnwardKeeps DEF Here, Locals, Called, Onward,
     Keep, Entered, Linked, Locating, Placing
  <2>5. Values(t)'
    BY <1>1, <1>2, <2>2, <2>3 DEF Here, Locals, Values, Keep, Before0
  <2>6. Depths(t)'
    BY <1>1, <1>2, <2>2, <2>3, ConstantFacts DEF Here, Locals, Depths, Keep,
     Entered, Linked, Locating, AtLevel, Rising, Placing
  <2>7. Walking(t)'
    BY <1>1, <1>2, <2>2, <2>3 DEF Here, Locals, Walking, Keep, Key, Unlinking,
     Before0
  <2>8. Dead(t)'
    BY <1>1, <1>2, <2>2, <2>3 DEF Here, Locals, Dead, Keep, Unlinking
  <2> HIDE DEF Before, Equal
  <2>9. Path(t)'
    BY <1>1, <1>2, <2>2, <2>3 DEF Here, Locals, Path, Keep, Key, Node, Placed,
     Placing, Unlinking, Moving, Demoting
  <2> QED BY <1>1, <2>4, <2>5, <2>6, <2>7, <2>8, <2>9, CalmlyGood
<1> QED BY <1>3, <1>4

LEMMA HintGood ==
  ASSUME NEW t \in Threads, Here(t), Hint(t)
  PROVE  Good(t)
<1>1. pc[t] = "hint" /\ todo' = todo /\ Calmly
  BY DEF Hint, Calmly, Still, shape, heights, history, Return, Answer
<1>2. /\ Known' = Known /\ Before0' = Before0 /\ Beyond' = Beyond
      /\ next' = next /\ marked' = marked /\ hasDups' = hasDups
  BY <1>1, CalmlySame
<1>3. CASE \E r : Return(t, r) BY <1>1, <1>3, ReturnGood
<1>4. CASE ~ \E r : Return(t, r)
  <2>1. /\ pc'[t] = "checkhint" /\ loc[t].found # Nil
        /\ \E u, v : /\ loc' = [loc EXCEPT ![t].node = u, ![t].hint = v]
                     /\ u = loc[t].found /\ v = prev[loc[t].found]
    BY <1>1, <1>4 DEF Hint, Goto, Here, LocalsKept, Answer
  <2>2. /\ Keep(t, {"node", "hint"}) /\ loc'[t].node = loc[t].found
        /\ loc'[t].hint = prev[loc[t].found] /\ pc'[t] = "checkhint"
    BY <2>1 DEF Keep, Here, LocalsKept, NoLocals
  <2>3. loc[t].found \in Known /\ loc[t].found # Nil
        /\ prev[loc[t].found] \in Before0 \cup {Nil}
    <3>1. loc[t].found \in Known BY <2>1 DEF Here, Locals, Values
    <3>2. loc[t].found \in Cells BY <3>1, KnownNodes, ConstantFacts DEF Here
    <3> QED BY <2>1, <3>1, <3>2 DEF Here, Hints
  <2>4. Called(t)' /\ Own(t)'
    BY <1>1, <1>2, <2>2, <2>3, OnwardKeeps DEF Here, Locals, Called, Onward,
     Keep, Entered, Linked, Locating, Placing
  <2>5. Values(t)'
    BY <1>1, <1>2, <2>2, <2>3 DEF Here, Locals, Values, Keep
  <2>6. Depths(t)'
    BY <1>1, <1>2, <2>2, <2>3, ConstantFacts DEF Here, Locals, Depths, Keep,
     Entered, Linked, Locating, AtLevel, Rising, Placing
  <2>7. Walking(t)'
    BY <1>1, <1>2, <2>2, <2>3 DEF Here, Locals, Walking, Keep, Key, Unlinking
  <2>8. Dead(t)'
    BY <1>1, <1>2, <2>2, <2>3 DEF Here, Locals, Dead, Keep, Unlinking
  <2> HIDE DEF Before, Equal
  <2>9. Path(t)'
    BY <1>1, <1>2, <2>2, <2>3 DEF Here, Locals, Path, Keep, Key, Node, Placed,
     Placing, Unlinking, Moving, Demoting
  <2> QED BY <1>1, <2>4, <2>5, <2>6, <2>7, <2>8, <2>9, CalmlyGood
<1> QED BY <1>3, <1>4

LEMMA CheckHintGood ==
  ASSUME NEW t \in Threads, Here(t), CheckHint(t)
  PROVE  Good(t)
<1>1. pc[t] = "checkhint" /\ todo' = todo /\ Calmly
  BY DEF CheckHint, Calmly, Still, shape, heights, history, Return, Answer
<1>2. /\ Known' = Known /\ Before0' = Before0 /\ Beyond' = Beyond
      /\ next' = next /\ marked' = marked /\ hasDups' = hasDups
  BY <1>1, CalmlySame
<1>3. CASE \E r : Return(t, r) BY <1>1, <1>3, ReturnGood
<1>4. CASE ~ \E r : Return(t, r)
  <2>1. /\ pc'[t] = "rescan"
        /\ \E u, v : /\ loc' = [loc EXCEPT ![t].pred = u, ![t].curr = v]
                     /\ u = Head /\ v = Head
    BY <1>1, <1>4 DEF CheckHint, Goto, Here, LocalsKept, Answer
  <2>2. /\ Keep(t, {"pred", "curr"}) /\ loc'[t].pred = Head
        /\ loc'[t].curr = Head
        /\ pc'[t] = "rescan"
    BY <2>1 DEF Keep, Here, LocalsKept, NoLocals
  <2>3. Head \in Before0 /\ Head # Nil
    BY ConstantFacts DEF Before0
  <2>4. Called(t)' /\ Own(t)'
    BY <1>1, <1>2, <2>2, <2>3, OnwardKeeps DEF Here, Locals, Called, Onward,
     Keep, Entered, Linked, Locating, Placing
  <2>5. Values(t)'
    BY <1>1, <1>2, <2>2, <2>3 DEF Here, Locals, Values, Keep
  <2>6. Depths(t)'
    BY <1>1, <1>2, <2>2, <2>3, ConstantFacts DEF Here, Locals, Depths, Keep,
     Entered, Linked, Locating, AtLevel, Rising, Placing
  <2>7. Walking(t)'
    BY <1>1, <1>2, <2>2, <2>3 DEF Here, Locals, Walking, Keep, Key, Unlinking
  <2>8. Dead(t)'
    BY <1>1, <1>2, <2>2, <2>3 DEF Here, Locals, Dead, Keep, Unlinking
  <2> HIDE DEF Before, Equal
  <2>9. Path(t)'
    BY <1>1, <1>2, <2>2, <2>3 DEF Here, Locals, Path, Keep, Key, Node, Placed,
     Placing, Unlinking, Moving, Demoting
  <2> QED BY <1>1, <2>4, <2>5, <2>6, <2>7, <2>8, <2>9, CalmlyGood
<1> QED BY <1>3, <1>4

LEMMA RescanGood ==
  ASSUME NEW t \in Threads, Here(t), Rescan(t)
  PROVE  Good(t)
<1>1. pc[t] = "rescan" /\ todo' = todo /\ Calmly
  BY DEF Rescan, Calmly, Still, shape, heights, history
<1>2. /\ Known' = Known /\ Before0' = Before0 /\ Beyond' = Beyond
      /\ next' = next /\ marked' = marked /\ hasDups' = hasDups
  BY <1>1, CalmlySame
<1>3. pc'[t] \in {"rescan", "rehint"}
  BY DEF Rescan, Goto, Here, LocalsKept
<1>4. \/ pc'[t] = "rehint" /\ loc' = loc
      \/ /\ pc'[t] = "rehint"
         /\ \E v : loc' = [loc EXCEPT ![t].pred = v] /\ v = loc[t].curr
      \/ /\ pc'[t] = "rescan" /\ Word(loc[t].curr, 0) # Tail
         /\ \E v : loc' = [loc EXCEPT ![t].curr = v] /\ v = Word(loc[t].curr, 0)
  BY DEF Rescan, Goto, Here, LocalsKept, Word
<1>5. /\ Keep(t, {"pred", "curr"})
      /\ loc'[t].pred \in {loc[t].pred, loc[t].curr}
      /\ \/ loc'[t].curr = loc[t].curr /\ pc'[t] = "rehint"
         \/ loc'[t].curr = Word(loc[t].curr, 0) /\ Word(loc[t].curr, 0) # Tail
  BY <1>4 DEF Keep, Here, LocalsKept, NoLocals
<1>6. /\ loc[t].curr \in Before0 /\ loc[t].curr # Nil /\ loc[t].pred # Nil
      /\ loc[t].node # Nil
  BY <1>1, KnownNodes, ConstantFacts DEF Here, Locals, Walking, Before0
<1>7. Word(loc[t].curr, 0) # Tail => Word(loc[t].curr, 0) \in Before0
  BY <1>6, LinkedWord, ConstantFacts DEF Here, Word, Beyond, Before0
<1>8. Called(t)' /\ Own(t)'
  BY <1>1, <1>2, <1>3, <1>5, <1>6, <1>7, OnwardKeeps DEF Here, Locals, Called,
     Onward, Keep, Entered, Linked, Locating, Placing
<1>9. Values(t)'
  BY <1>1, <1>2, <1>3, <1>5, <1>6, <1>7 DEF Here, Locals, Values, Keep
<1>10. Depths(t)'
  BY <1>1, <1>2, <1>3, <1>5, <1>6, <1>7, ConstantFacts DEF Here, Locals,
     Depths, Keep, Entered, Linked, Locating, AtLevel, Rising, Placing
<1>11. Walking(t)'
  BY <1>1, <1>2, <1>3, <1>5, <1>6, <1>7 DEF Here, Locals, Walking, Keep, Key,
     Unlinking
<1>12. Dead(t)'
  BY <1>1, <1>2, <1>3, <1>5, <1>6, <1>7 DEF Here, Locals, Dead, Keep, Unlinking
<1> HIDE DEF Before, Equal
<1>13. Path(t)'
  BY <1>1, <1>2, <1>3, <1>5, <1>6, <1>7 DEF Here, Locals, Path, Keep, Key,
     Node, Placed, Placing, Unlinking, Moving, Demoting
<1> QED BY <1>1, <1>8, <1>9, <1>10, <1>11, <1>12, <1>13, CalmlyGood

LEMMA RehintGood ==
  ASSUME NEW t \in Threads, Here(t), Rehint(t)
  PROVE  Good(t)
<1>1. PICK r : Return(t, r) BY DEF Rehint, Answer
<1>2. todo' = todo BY DEF Rehint
<1>3. Tidy(t) /\ Known' = Known
  BY <1>1, StillTidy DEF Rehint, Here, Still, shape, Return
<1>4. Sizes' BY DEF Rehint, shape, heights, Here, Sizes
<1>5. Hints'
  <2>1. loc[t].pred \in Before0 \cup {Nil} BY DEF Here, Locals, Values
  <2>2. prev' \in [Cells -> Before0 \cup {Nil}]
    BY <2>1 DEF Rehint, Here, Hints
  <2> QED BY <1>3, <2>2 DEF Hints, Before0
<1>6. Locals(t)' BY <1>1, <1>2, <1>3, ReturnLocals
<1> QED BY <1>3, <1>4, <1>5, <1>6 DEF Good

(* A splay's node, and its heights, while it moves.                        *)
LEMMA MovesNode ==
    ASSUME NEW t \in Threads, Here(t), pc[t] \in Moving \cup {"rebheight"}
    PROVE  /\ loc[t].node \in Known /\ loc[t].node \in Nodes
           /\ loc[t].node # Nil
           /\ loc[t].high \in Levels /\ loc[t].high \in Nat
           /\ height[loc[t].node] \in Levels
           /\ loc[t].high > 0 => loc[t].high - 1 \in Levels
           /\ pc[t] # "idle" /\ loc[t].ret # "relink" /\ Op(t) # "remove"
<1>1. loc[t].node \in Nodes /\ pc[t] # "idle" /\ loc[t].ret # "relink"
  BY DEF Here, PlaceInv, InCall, Moving, Demoting, NotRelinking
<1>2. loc[t].node \in Known /\ loc[t].node # Nil
  BY <1>1, ConstantFacts DEF Here, Locals, Values
<1>3. loc[t].high \in Levels /\ height[loc[t].node] \in Levels
  BY <1>1 DEF Here, Locals, Depths, Sizes
<1>4. loc[t].high \in Nat /\ (loc[t].high > 0 => loc[t].high - 1 \in Levels)
  BY <1>3, SkipListAssumption DEF Levels
<1>5. Op(t) # "remove"
  BY <1>1 DEF Here, PlaceInv, InCall, Moving, Demoting, Locating, RemoveOnly,
     Marking, Retiring, Unlinking
<1> QED BY <1>1, <1>2, <1>3, <1>4, <1>5

-----------------------------------------------------------------------------
(***************************************************************************)
(* The steps of the rebalancing of a splay: they write words of the levels *)
(* above 0 and heights, which the invariant leaves to Sizes and Hints.     *)
(***************************************************************************)
LEMMA AscendMoves ==
    ASSUME NEW t \in Threads, Here(t), pc[t] \in Moving \cup {"rebheight"},
           \/ Ascend(t, loc[t])
           \/ Ascend(t, [loc[t] EXCEPT !.high = height[loc[t].node]])
    PROVE  /\ Keep(t, {"high"}) /\ pc'[t] \in {"promote", "rebnext"}
           /\ loc'[t].high \in {loc[t].high, height[loc[t].node]}
           /\ pc'[t] = "promote" => loc'[t].high + 1 \in Levels
<1>1. ASSUME NEW me, Ascend(t, me), DOMAIN me = DOMAIN NoLocals
      PROVE  /\ loc'[t] = me /\ pc'[t] \in {"promote", "rebnext"}
             /\ pc'[t] = "promote" => me.high < MaxHeight - 1
  BY <1>1 DEF Ascend, TooLow, Goto, Here, LocalsKept
<1> DEFINE now == loc[t]  read == [loc[t] EXCEPT !.high = height[loc[t].node]]
<1>2. DOMAIN now = DOMAIN NoLocals /\ DOMAIN read = DOMAIN NoLocals
  BY DEF Here, LocalsKept
<1>3. PICK me \in {now, read} : Ascend(t, me) OBVIOUS
<1>4. /\ loc'[t] = me /\ pc'[t] \in {"promote", "rebnext"}
      /\ pc'[t] = "promote" => me.high < MaxHeight - 1
  BY <1>1, <1>2, <1>3
<1>5. me.high \in {loc[t].high, height[loc[t].node]} BY <1>2, <1>3 DEF NoLocals
<1>6. Keep(t, {"high"}) BY <1>2, <1>3, <1>4 DEF Keep, NoLocals
<1>7. me.high \in Levels BY <1>5, MovesNode
<1>8. me.high < MaxHeight - 1 => me.high + 1 \in Levels
  BY <1>7, SkipListAssumption DEF Levels
<1> QED BY <1>4, <1>5, <1>6, <1>8

LEMMA RebalanceGood ==
  ASSUME NEW t \in Threads, Here(t), Rebalance(t)
  PROVE  Good(t)
<1>1. pc[t] \in {"insert", "position", "found"} /\ todo' = todo /\ Calmly
  BY DEF Rebalance, Calmly, Still, shape, heights, history
<1>2. /\ Known' = Known /\ Before0' = Before0 /\ Beyond' = Beyond
      /\ next' = next /\ marked' = marked /\ hasDups' = hasDups
  BY <1>1, CalmlySame
<1>3. pc'[t] \in {"rebnode"}
  BY DEF Rebalance, Goto, Here, LocalsKept
<1>4. \E a, b, c, d : /\ loc' = [loc EXCEPT ![t].splayed = a, ![t].k = b,
                                           ![t].node = c, ![t].idx = d]
                      /\ c = Nil /\ d = 0
  BY DEF Rebalance, Goto, Here, LocalsKept
<1>5. /\ Keep(t, {"node", "idx", "k", "splayed"})
      /\ loc'[t].node = Nil /\ loc'[t].idx = 0
  BY <1>4 DEF Keep, Here, LocalsKept, NoLocals
<1>6. Called(t)' /\ Own(t)'
  BY <1>1, <1>2, <1>3, <1>5, OnwardKeeps DEF Here, Locals, Called, Onward,
     Keep, Entered, Linked, Locating, Placing, PlaceInv, InCall, NotRelinking
<1>7. Values(t)'
  BY <1>1, <1>2, <1>3, <1>5 DEF Here, Locals, Values, Keep
<1>8. Depths(t)'
  BY <1>1, <1>2, <1>3, <1>5, ConstantFacts DEF Here, Locals, Depths, Keep,
     Entered, Linked, Locating, AtLevel, Rising, Placing
<1>9. Walking(t)'
  BY <1>1, <1>2, <1>3, <1>5 DEF Here, Locals, Walking, Keep, Key, Unlinking
<1>10. Dead(t)'
  BY <1>1, <1>2, <1>3, <1>5 DEF Here, Locals, Dead, Keep, Unlinking
<1> HIDE DEF Before, Equal
<1>11. Path(t)'
  BY <1>1, <1>2, <1>3, <1>5 DEF Here, Locals, Path, Keep, Key, Node, Placed,
     Placing, Unlinking, Moving, Demoting
<1> QED BY <1>1, <1>6, <1>7, <1>8, <1>9, <1>10, <1>11, CalmlyGood

LEMMA RebNodeGood ==
  ASSUME NEW t \in Threads, Here(t), RebNode(t)
  PROVE  Good(t)
<1>1. pc[t] = "rebnode" /\ todo' = todo /\ Calmly
  BY DEF RebNode, Calmly, Still, shape, heights, history
<1>2. /\ Known' = Known /\ Before0' = Before0 /\ Beyond' = Beyond
      /\ next' = next /\ marked' = marked /\ hasDups' = hasDups
  BY <1>1, CalmlySame
<1>3. pc'[t] \in {"rebnode", "rebheight", loc[t].ret}
  BY DEF RebNode, Goto, Here, LocalsKept
<1>4. /\ Keep(t, {"node", "share", "idx"})
      /\ \/ pc'[t] = loc[t].ret /\ loc'[t].node = loc[t].node /\ loc'[t].idx = loc[t].idx
         \/ /\ pc'[t] = "rebnode" /\ loc'[t].node = loc[t].node
            /\ loc'[t].idx = loc[t].idx + 1
         \/ /\ pc'[t] = "rebheight" /\ loc'[t].idx = loc[t].idx
            /\ loc[t].idx <= loc[t].top /\ OnPath(loc[t], loc[t].idx) \in Nodes
            /\ loc'[t].node = OnPath(loc[t], loc[t].idx)
  <2>1. \/ pc'[t] = loc[t].ret /\ loc' = loc
        \/ /\ pc'[t] = "rebnode"
           /\ \E v : loc' = [loc EXCEPT ![t].idx = v] /\ v = loc[t].idx + 1
        \/ /\ pc'[t] = "rebheight"
           /\ loc[t].idx <= loc[t].top /\ OnPath(loc[t], loc[t].idx) \in Nodes
           /\ \E u, v : /\ loc' = [loc EXCEPT ![t].node = u, ![t].share = v]
                        /\ u = OnPath(loc[t], loc[t].idx)
    BY DEF RebNode, Goto, Here, LocalsKept
  <2>2. CASE pc'[t] = loc[t].ret /\ loc' = loc BY <2>2 DEF Keep
  <2>3. CASE /\ pc'[t] = "rebnode"
             /\ \E v : loc' = [loc EXCEPT ![t].idx = v] /\ v = loc[t].idx + 1
    BY <2>3 DEF Keep, Here, LocalsKept, NoLocals
  <2>4. CASE /\ pc'[t] = "rebheight"
             /\ loc[t].idx <= loc[t].top /\ OnPath(loc[t], loc[t].idx) \in Nodes
             /\ \E u, v : /\ loc' = [loc EXCEPT ![t].node = u, ![t].share = v]
                          /\ u = OnPath(loc[t], loc[t].idx)
    <3> DEFINE n == OnPath(loc[t], loc[t].idx)
    <3>1. \E u, v : loc' = [loc EXCEPT ![t].node = u, ![t].share = v] /\ u = n
      BY <2>4
    <3> HIDE DEF n
    <3>2. Keep(t, {"node", "share", "idx"}) /\ loc'[t].node = n
          /\ loc'[t].idx = loc[t].idx
      BY <3>1 DEF Keep, Here, LocalsKept, NoLocals
    <3> QED BY <2>4, <3>2 DEF n
  <2> QED BY <2>1, <2>2, <2>3, <2>4
<1>5. loc[t].ret \in Entries /\ loc[t].ret # "relink"
  BY <1>1 DEF Here, PlaceInv, InCall, NotRelinking
<1>6. /\ loc[t].idx <= loc[t].top /\ OnPath(loc[t], loc[t].idx) \in Nodes =>
            OnPath(loc[t], loc[t].idx) \in Known
      /\ loc[t].idx + 1 \in Nat
  <2>1. /\ loc[t].idx \in Nat /\ loc[t].top \in Levels
        /\ loc[t].found \in Known \cup {Nil}
    BY DEF Here, Locals, Depths, Values
  <2>2. loc[t].idx <= loc[t].top => loc[t].idx = 0 \/ loc[t].idx - 1 \in Levels
    BY <2>1, SkipListAssumption DEF Levels
  <2>3. \A l \in Levels : loc[t].preds[l] \in Before0 \cup {Nil}
    BY DEF Here, Locals, Values
  <2> QED BY <2>1, <2>2, <2>3, ConstantFacts DEF OnPath, Before0
<1>7. Called(t)' /\ Own(t)'
  BY <1>1, <1>2, <1>3, <1>4, <1>5, <1>6, OnwardKeeps DEF Here, Locals, Called,
     Onward, Keep, Entered, Linked, Locating, Placing, Entries
<1>8. Values(t)'
  BY <1>1, <1>2, <1>3, <1>4, <1>5, <1>6 DEF Here, Locals, Values, Keep
<1>9. Depths(t)'
  BY <1>1, <1>2, <1>3, <1>4, <1>5, <1>6, ConstantFacts DEF Here, Locals,
     Depths, Keep, Entered, Linked, Locating, AtLevel, Rising, Placing, Entries
<1>10. Walking(t)'
  BY <1>1, <1>2, <1>3, <1>4, <1>5, <1>6 DEF Here, Locals, Walking, Keep, Key,
     Unlinking, Entries
<1>11. Dead(t)'
  BY <1>1, <1>2, <1>3, <1>4, <1>5, <1>6 DEF Here, Locals, Dead, Keep,
     Unlinking, Entries
<1> HIDE DEF Before, Equal
<1>12. Path(t)'
  BY <1>1, <1>2, <1>3, <1>4, <1>5, <1>6 DEF Here, Locals, Path, Keep, Key,
     Node, Placed, Placing, Unlinking, Moving, Demoting, Entries
<1> QED BY <1>1, <1>7, <1>8, <1>9, <1>10, <1>11, <1>12, CalmlyGood

LEMMA RebNextGood ==
  ASSUME NEW t \in Threads, Here(t), RebNext(t)
  PROVE  Good(t)
<1>1. pc[t] = "rebnext" /\ todo' = todo /\ Calmly
  BY DEF RebNext, Calmly, Still, shape, heights, history
<1>2. /\ Known' = Known /\ Before0' = Before0 /\ Beyond' = Beyond
      /\ next' = next /\ marked' = marked /\ hasDups' = hasDups
  BY <1>1, CalmlySame
<1>3. pc'[t] \in {"rebnode"}
  BY DEF RebNext, Goto, Here, LocalsKept
<1>4. \E v : loc' = [loc EXCEPT ![t].idx = v] /\ v = loc[t].idx + 1
  BY DEF RebNext, Goto, Here, LocalsKept
<1>5. /\ Keep(t, {"idx"})
      /\ loc'[t].idx = loc[t].idx + 1
  BY <1>4 DEF Keep, Here, LocalsKept, NoLocals
<1>6. loc[t].idx + 1 \in Nat
  BY DEF Here, Locals, Depths
<1>7. Called(t)' /\ Own(t)'
  BY <1>1, <1>2, <1>3, <1>5, <1>6, OnwardKeeps DEF Here, Locals, Called,
     Onward, Keep, Entered, Linked, Locating, Placing, PlaceInv, InCall,
     NotRelinking
<1>8. Values(t)'
  BY <1>1, <1>2, <1>3, <1>5, <1>6 DEF Here, Locals, Values, Keep
<1>9. Depths(t)'
  BY <1>1, <1>2, <1>3, <1>5, <1>6, ConstantFacts DEF Here, Locals, Depths,
     Keep, Entered, Linked, Locating, AtLevel, Rising, Placing
<1>10. Walking(t)'
  BY <1>1, <1>2, <1>3, <1>5, <1>6 DEF Here, Locals, Walking, Keep, Key,
     Unlinking
<1>11. Dead(t)'
  BY <1>1, <1>2, <1>3, <1>5, <1>6 DEF Here, Locals, Dead, Keep, Unlinking
<1> HIDE DEF Before, Equal
<1>12. Path(t)'
  BY <1>1, <1>2, <1>3, <1>5, <1>6 DEF Here, Locals, Path, Keep, Key, Node,
     Placed, Placing, Unlinking, Moving, Demoting
<1> QED BY <1>1, <1>7, <1>8, <1>9, <1>10, <1>11, <1>12, CalmlyGood

LEMMA RebHeightGood ==
  ASSUME NEW t \in Threads, Here(t), RebHeight(t)
  PROVE  Good(t)
<1>1. pc[t] = "rebheight" /\ todo' = todo /\ Calmly
  BY DEF RebHeight, Calmly, Still, shape, heights, history
<1>2. /\ Known' = Known /\ Before0' = Before0 /\ Beyond' = Beyond
      /\ next' = next /\ marked' = marked /\ hasDups' = hasDups
  BY <1>1, CalmlySame
<1>3. pc'[t] \in {"demotepred", "promote", "rebnext"}
  BY DEF RebHeight, Goto, Here, LocalsKept, Ascend
<1>4. /\ Keep(t, {"high"})
      /\ loc'[t].high \in {loc[t].high, height[loc[t].node]}
      /\ pc'[t] = "promote" => loc'[t].high + 1 \in Levels
  <2> DEFINE me == [loc[t] EXCEPT !.high = height[loc[t].node]]
  <2>1. CASE Ascend(t, me) BY <1>1, <2>1, AscendMoves
  <2>2. CASE /\ pc'[t] = "demotepred"
             /\ \E v : /\ loc' = [loc EXCEPT ![t].high = v]
                       /\ v = height[loc[t].node]
    BY <2>2 DEF Keep, Here, LocalsKept, NoLocals
  <2>3. me = [loc[t] EXCEPT !.high = height[loc[t].node]]
        /\ [loc EXCEPT ![t] = me] = [loc EXCEPT ![t].high = height[loc[t].node]]
    OBVIOUS
  <2>4. \/ Ascend(t, me)
        \/ Goto(t, "demotepred") /\ loc' = [loc EXCEPT ![t] = me]
    BY DEF RebHeight
  <2> QED BY <2>1, <2>2, <2>3, <2>4 DEF Goto, Here, LocalsKept
<1>5. /\ loc[t].node \in Known /\ loc[t].high \in Levels
      /\ height[loc[t].node] \in Levels
      /\ loc[t].ret # "relink"
  BY <1>1, MovesNode DEF Moving, Demoting
<1>6. Called(t)' /\ Own(t)'
  BY <1>1, <1>2, <1>3, <1>4, <1>5, OnwardKeeps DEF Here, Locals, Called,
     Onward, Keep, Entered, Linked, Locating, Placing
<1>7. Values(t)'
  BY <1>1, <1>2, <1>3, <1>4, <1>5 DEF Here, Locals, Values, Keep
<1>8. Depths(t)'
  BY <1>1, <1>2, <1>3, <1>4, <1>5, ConstantFacts DEF Here, Locals, Depths,
     Keep, Entered, Linked, Locating, AtLevel, Rising, Placing
<1>9. Walking(t)'
  BY <1>1, <1>2, <1>3, <1>4, <1>5 DEF Here, Locals, Walking, Keep, Key,
     Unlinking
<1>10. Dead(t)'
  BY <1>1, <1>2, <1>3, <1>4, <1>5 DEF Here, Locals, Dead, Keep, Unlinking
<1> HIDE DEF Before, Equal
<1>11. Path(t)'
  BY <1>1, <1>2, <1>3, <1>4, <1>5 DEF Here, Locals, Path, Keep, Key, Node,
     Placed, Placing, Unlinking, Moving, Demoting
<1> QED BY <1>1, <1>6, <1>7, <1>8, <1>9, <1>10, <1>11, CalmlyGood

LEMMA DemotePredGood ==
  ASSUME NEW t \in Threads, Here(t), DemotePred(t)
  PROVE  Good(t)
<1>1. pc[t] = "demotepred" /\ todo' = todo /\ Calmly
  BY DEF DemotePred, Calmly, Still, shape, heights, history
<1>2. /\ Known' = Known /\ Before0' = Before0 /\ Beyond' = Beyond
      /\ next' = next /\ marked' = marked /\ hasDups' = hasDups
  BY <1>1, CalmlySame
<1>3. pc'[t] \in {"demotesucc", "promote", "rebnext"}
  BY DEF DemotePred, Goto, Here, LocalsKept, Ascend
<1>4. /\ Keep(t, {"pred", "high"})
      /\ \/ /\ pc'[t] = "demotesucc" /\ loc'[t].high = loc[t].high
            /\ loc'[t].pred = loc[t].preds[loc[t].high]
         \/ /\ loc'[t].pred = loc[t].pred
            /\ loc'[t].high \in {loc[t].high, height[loc[t].node]}
            /\ pc'[t] = "promote" => loc'[t].high + 1 \in Levels
            /\ pc'[t] # "demotesucc"
  <2>1. CASE Ascend(t, loc[t])
    BY <1>1, <2>1, AscendMoves DEF Keep, Moving, Demoting
  <2>2. CASE /\ pc'[t] = "demotesucc"
             /\ \E v : /\ loc' = [loc EXCEPT ![t].pred = v]
                       /\ v = loc[t].preds[loc[t].high]
    BY <2>2 DEF Keep, Here, LocalsKept, NoLocals
  <2> QED BY <2>1, <2>2 DEF DemotePred, Goto, Here, LocalsKept
<1>5. /\ loc[t].node \in Known /\ loc[t].high \in Levels
      /\ height[loc[t].node] \in Levels
      /\ loc[t].ret # "relink"
  BY <1>1, MovesNode DEF Moving, Demoting
<1>6. loc[t].preds[loc[t].high] \in Before0 \cup {Nil}
  BY <1>5 DEF Here, Locals, Values
<1>7. Called(t)' /\ Own(t)'
  BY <1>1, <1>2, <1>3, <1>4, <1>5, <1>6, OnwardKeeps DEF Here, Locals, Called,
     Onward, Keep, Entered, Linked, Locating, Placing
<1>8. Values(t)'
  BY <1>1, <1>2, <1>3, <1>4, <1>5, <1>6 DEF Here, Locals, Values, Keep
<1>9. Depths(t)'
  BY <1>1, <1>2, <1>3, <1>4, <1>5, <1>6, ConstantFacts DEF Here, Locals,
     Depths, Keep, Entered, Linked, Locating, AtLevel, Rising, Placing
<1>10. Walking(t)'
  BY <1>1, <1>2, <1>3, <1>4, <1>5, <1>6 DEF Here, Locals, Walking, Keep, Key,
     Unlinking
<1>11. Dead(t)'
  BY <1>1, <1>2, <1>3, <1>4, <1>5, <1>6 DEF Here, Locals, Dead, Keep, Unlinking
<1> HIDE DEF Before, Equal
<1>12. Path(t)'
  BY <1>1, <1>2, <1>3, <1>4, <1>5, <1>6 DEF Here, Locals, Path, Keep, Key,
     Node, Placed, Placing, Unlinking, Moving, Demoting
<1> QED BY <1>1, <1>7, <1>8, <1>9, <1>10, <1>11, <1>12, CalmlyGood

LEMMA DemoteSuccGood ==
  ASSUME NEW t \in Threads, Here(t), DemoteSucc(t)
  PROVE  Good(t)
<1>1. pc[t] = "demotesucc" /\ todo' = todo /\ Calmly
  BY DEF DemoteSucc, Calmly, Still, shape, heights, history
<1>2. /\ Known' = Known /\ Before0' = Before0 /\ Beyond' = Beyond
      /\ next' = next /\ marked' = marked /\ hasDups' = hasDups
  BY <1>1, CalmlySame
<1>3. pc'[t] \in {"demotecas", "promote", "rebnext"}
  BY DEF DemoteSucc, Goto, Here, LocalsKept, Ascend
<1>4. /\ Keep(t, {"succ", "high"})
      /\ \/ /\ pc'[t] = "demotecas" /\ loc'[t].high = loc[t].high
            /\ loc'[t].succ = Word(loc[t].node, loc[t].high)
         \/ /\ loc'[t].succ = loc[t].succ
            /\ loc'[t].high \in {loc[t].high, height[loc[t].node]}
            /\ pc'[t] = "promote" => loc'[t].high + 1 \in Levels
            /\ pc'[t] # "demotecas"
  <2>1. CASE Ascend(t, loc[t])
    BY <1>1, <2>1, AscendMoves DEF Keep, Moving, Demoting
  <2>2. CASE /\ pc'[t] = "demotecas"
             /\ \E v : /\ loc' = [loc EXCEPT ![t].succ = v]
                       /\ v = Word(loc[t].node, loc[t].high)
    BY <2>2 DEF Keep, Here, LocalsKept, NoLocals
  <2> QED BY <2>1, <2>2 DEF DemoteSucc, Goto, Here, LocalsKept, Word
<1>5. /\ loc[t].node \in Known /\ loc[t].high \in Levels
      /\ height[loc[t].node] \in Levels
      /\ loc[t].ret # "relink"
  BY <1>1, MovesNode DEF Moving, Demoting
<1>6. Word(loc[t].node, loc[t].high) \in Beyond
  BY <1>5, LinkedWord DEF Here, Word, Before0
<1>7. Called(t)' /\ Own(t)'
  BY <1>1, <1>2, <1>3, <1>4, <1>5, <1>6, OnwardKeeps DEF Here, Locals, Called,
     Onward, Keep, Entered, Linked, Locating, Placing
<1>8. Values(t)'
  BY <1>1, <1>2, <1>3, <1>4, <1>5, <1>6 DEF Here, Locals, Values, Keep
<1>9. Depths(t)'
  BY <1>1, <1>2, <1>3, <1>4, <1>5, <1>6, ConstantFacts DEF Here, Locals,
     Depths, Keep, Entered, Linked, Locating, AtLevel, Rising, Placing
<1>10. Walking(t)'
  BY <1>1, <1>2, <1>3, <1>4, <1>5, <1>6 DEF Here, Locals, Walking, Keep, Key,
     Unlinking
<1>11. Dead(t)'
  BY <1>1, <1>2, <1>3, <1>4, <1>5, <1>6 DEF Here, Locals, Dead, Keep, Unlinking
<1> HIDE DEF Before, Equal
<1>12. Path(t)'
  BY <1>1, <1>2, <1>3, <1>4, <1>5, <1>6 DEF Here, Locals, Path, Keep, Key,
     Node, Placed, Placing, Unlinking, Moving, Demoting
<1> QED BY <1>1, <1>7, <1>8, <1>9, <1>10, <1>11, <1>12, CalmlyGood

LEMMA ReReadGood ==
  ASSUME NEW t \in Threads, Here(t), ReRead(t)
  PROVE  Good(t)
<1>1. pc[t] = "reread" /\ todo' = todo /\ Calmly
  BY DEF ReRead, Calmly, Still, shape, heights, history
<1>2. /\ Known' = Known /\ Before0' = Before0 /\ Beyond' = Beyond
      /\ next' = next /\ marked' = marked /\ hasDups' = hasDups
  BY <1>1, CalmlySame
<1>3. pc'[t] \in {"promote", "rebnext"}
  BY DEF ReRead, Goto, Here, LocalsKept, Ascend
<1>4. /\ Keep(t, {"high"})
      /\ loc'[t].high \in {loc[t].high, height[loc[t].node]}
      /\ pc'[t] = "promote" => loc'[t].high + 1 \in Levels
  BY <1>1, AscendMoves DEF ReRead, Moving
<1>5. /\ loc[t].node \in Known /\ loc[t].high \in Levels
      /\ height[loc[t].node] \in Levels
      /\ loc[t].ret # "relink"
  BY <1>1, MovesNode DEF Moving, Demoting
<1>6. Called(t)' /\ Own(t)'
  BY <1>1, <1>2, <1>3, <1>4, <1>5, OnwardKeeps DEF Here, Locals, Called,
     Onward, Keep, Entered, Linked, Locating, Placing
<1>7. Values(t)'
  BY <1>1, <1>2, <1>3, <1>4, <1>5 DEF Here, Locals, Values, Keep
<1>8. Depths(t)'
  BY <1>1, <1>2, <1>3, <1>4, <1>5, ConstantFacts DEF Here, Locals, Depths,
     Keep, Entered, Linked, Locating, AtLevel, Rising, Placing
<1>9. Walking(t)'
  BY <1>1, <1>2, <1>3, <1>4, <1>5 DEF Here, Locals, Walking, Keep, Key,
     Unlinking
<1>10. Dead(t)'
  BY <1>1, <1>2, <1>3, <1>4, <1>5 DEF Here, Locals, Dead, Keep, Unlinking
<1> HIDE DEF Before, Equal
<1>11. Path(t)'
  BY <1>1, <1>2, <1>3, <1>4, <1>5 DEF Here, Locals, Path, Keep, Key, Node,
     Placed, Placing, Unlinking, Moving, Demoting
<1> QED BY <1>1, <1>6, <1>7, <1>8, <1>9, <1>10, <1>11, CalmlyGood

LEMMA DemoteCasGood ==
  ASSUME NEW t \in Threads, Here(t), DemoteCas(t)
  PROVE  Good(t)
<1>1. pc[t] = "demotecas" /\ todo' = todo
  BY DEF DemoteCas
<1>2. Tidy(t) /\ Known' = Known
  <2>1. UNCHANGED <<marked, live, hasDups>> BY DEF DemoteCas, history
  <2>2. CASE next' = next BY <2>1, <2>2, StillTidy DEF Here, Still
  <2>3. CASE Swing(loc[t].pred, loc[t].high, loc[t].succ)
    <3>1. loc[t].high \in Levels /\ loc[t].high # 0
      BY <1>1 DEF Here, Locals, Depths, PlaceInv, InCall, Demoting
    <3>2. loc[t].pred \in Before0 \cup {Nil} /\ loc[t].succ \in Beyond
      BY DEF Here, Locals, Values
    <3>3. SwingTo(loc[t].pred, loc[t].high, loc[t].succ)
      BY <2>3, <3>1, <3>2 DEF SwingTo, Swing
    <3> QED BY <2>1, <3>3, SwingTidy DEF Here, Words, Marked
  <2> QED BY <2>2, <2>3 DEF DemoteCas
<1>3. Sizes' /\ Hints'
  BY <1>2 DEF DemoteCas, shape, heights, history, Here, Sizes, Hints, Before0
<1>4. pc'[t] \in {"demotelow", "reread"}
  BY DEF DemoteCas, Goto, Here, LocalsKept
<1>5. loc' = loc
  BY DEF DemoteCas
<1>6. Keep(t, {})
  BY <1>5 DEF Keep
<1>7. Before0' = Before0 /\ Beyond' = Beyond
  BY <1>2 DEF Before0, Beyond
<1>8. hasDups' = hasDups /\ marked' = marked
  BY DEF DemoteCas, shape, history
<1>9. /\ loc[t].node \in Known /\ loc[t].high \in Levels
      /\ height[loc[t].node] \in Levels
      /\ loc[t].ret # "relink"
  BY <1>1, MovesNode DEF Moving, Demoting
<1>10. Called(t)' /\ Own(t)'
  BY <1>1, <1>2, <1>3, <1>4, <1>5, <1>6, <1>7, <1>8, <1>9, OnwardKeeps DEF
     Here, Locals, Called, Onward, Keep, Entered, Linked, Locating, Placing
<1>11. Values(t)'
  BY <1>1, <1>2, <1>3, <1>4, <1>5, <1>6, <1>7, <1>8, <1>9 DEF Here, Locals,
     Values, Keep
<1>12. Depths(t)'
  BY <1>1, <1>2, <1>3, <1>4, <1>5, <1>6, <1>7, <1>8, <1>9, ConstantFacts DEF
     Here, Locals, Depths, Keep, Entered, Linked, Locating, AtLevel, Rising,
     Placing
<1>13. Walking(t)'
  BY <1>1, <1>2, <1>3, <1>4, <1>5, <1>6, <1>7, <1>8, <1>9 DEF Here, Locals,
     Walking, Keep, Key, Unlinking
<1>14. Dead(t)'
  BY <1>1, <1>2, <1>3, <1>4, <1>5, <1>6, <1>7, <1>8, <1>9 DEF Here, Locals,
     Dead, Keep, Unlinking
<1> HIDE DEF Before, Equal
<1>15. Path(t)'
  BY <1>1, <1>2, <1>3, <1>4, <1>5, <1>6, <1>7, <1>8, <1>9 DEF Here, Locals,
     Path, Keep, Key, Node, Placed, Placing, Unlinking, Moving, Demoting
<1> QED BY <1>2, <1>3, <1>10, <1>11, <1>12, <1>13, <1>14, <1>15 DEF Good,
     Locals

LEMMA DemoteLowGood ==
  ASSUME NEW t \in Threads, Here(t), DemoteLow(t)
  PROVE  Good(t)
<1>1. pc[t] = "demotelow" /\ todo' = todo
  BY DEF DemoteLow
<1>2. Tidy(t) /\ Known' = Known
  BY StillTidy DEF DemoteLow, Here, Still, shape, history, ReHeight
<1>3. Sizes' /\ Hints'
  <2>1. loc[t].high - 1 \in Levels
    BY <1>1, MovesNode DEF Here, Locals, Depths, Rising, Moving, Demoting,
         PlaceInv,
       InCall
  <2>2. height' \in [Nodes -> Levels]
    BY <2>1 DEF DemoteLow, ReHeight, Here, Sizes
  <2> QED BY <1>2, <2>2 DEF DemoteLow, heights, Here, Sizes, Hints, Before0
<1>4. pc'[t] \in {"reread"}
  BY DEF DemoteLow, Goto, Here, LocalsKept
<1>5. loc' = loc
  BY DEF DemoteLow
<1>6. Keep(t, {})
  BY <1>5 DEF Keep
<1>7. Before0' = Before0 /\ Beyond' = Beyond
  BY <1>2 DEF Before0, Beyond
<1>8. hasDups' = hasDups /\ marked' = marked
  BY DEF DemoteLow, shape, history
<1>9. /\ loc[t].node \in Known /\ loc[t].high \in Levels
      /\ height[loc[t].node] \in Levels
      /\ loc[t].ret # "relink"
  BY <1>1, MovesNode DEF Moving, Demoting
<1>10. Called(t)' /\ Own(t)'
  BY <1>1, <1>2, <1>3, <1>4, <1>5, <1>6, <1>7, <1>8, <1>9, OnwardKeeps DEF
     Here, Locals, Called, Onward, Keep, Entered, Linked, Locating, Placing
<1>11. Values(t)'
  BY <1>1, <1>2, <1>3, <1>4, <1>5, <1>6, <1>7, <1>8, <1>9 DEF Here, Locals,
     Values, Keep
<1>12. Depths(t)'
  BY <1>1, <1>2, <1>3, <1>4, <1>5, <1>6, <1>7, <1>8, <1>9, ConstantFacts DEF
     Here, Locals, Depths, Keep, Entered, Linked, Locating, AtLevel, Rising,
     Placing
<1>13. Walking(t)'
  BY <1>1, <1>2, <1>3, <1>4, <1>5, <1>6, <1>7, <1>8, <1>9 DEF Here, Locals,
     Walking, Keep, Key, Unlinking
<1>14. Dead(t)'
  BY <1>1, <1>2, <1>3, <1>4, <1>5, <1>6, <1>7, <1>8, <1>9 DEF Here, Locals,
     Dead, Keep, Unlinking
<1> HIDE DEF Before, Equal
<1>15. Path(t)'
  BY <1>1, <1>2, <1>3, <1>4, <1>5, <1>6, <1>7, <1>8, <1>9 DEF Here, Locals,
     Path, Keep, Key, Node, Placed, Placing, Unlinking, Moving, Demoting
<1> QED BY <1>2, <1>3, <1>10, <1>11, <1>12, <1>13, <1>14, <1>15 DEF Good,
     Locals

LEMMA PromoteGood ==
  ASSUME NEW t \in Threads, Here(t), Promote(t)
  PROVE  Good(t)
<1>1. pc[t] = "promote" /\ todo' = todo /\ Calmly
  BY DEF Promote, Calmly, Still, shape, heights, history
<1>2. /\ Known' = Known /\ Before0' = Before0 /\ Beyond' = Beyond
      /\ next' = next /\ marked' = marked /\ hasDups' = hasDups
  BY <1>1, CalmlySame
<1>3. pc'[t] \in {"bump", "rebnext", "growhead"}
  BY DEF Promote, Goto, Here, LocalsKept
<1>4. /\ Keep(t, {"i", "bound"})
      /\ \/ loc'[t].i = loc[t].i /\ loc'[t].bound = loc[t].bound
            /\ pc'[t] # "growhead"
         \/ loc'[t].i \in Levels /\ loc'[t].bound \in Levels /\ loc'[t].bound > 0
  <2>1. CASE loc' = loc /\ pc'[t] # "growhead" BY <2>1 DEF Keep
  <2>2. CASE \E h \in headHeight + 1 .. MaxHeight - 1 :
                loc' = [loc EXCEPT ![t].i = headHeight, ![t].bound = h]
    <3>1. PICK h \in headHeight + 1 .. MaxHeight - 1 :
             loc' = [loc EXCEPT ![t].i = headHeight, ![t].bound = h]
      BY <2>2
    <3>2. headHeight \in Levels /\ h \in Levels /\ h > 0
      BY SkipListAssumption DEF Here, Sizes, Levels
    <3>3. loc'[t].i = headHeight /\ loc'[t].bound = h
      BY <3>1 DEF Here, LocalsKept, NoLocals
    <3>4. Keep(t, {"i", "bound"}) BY <3>1 DEF Keep, Here, LocalsKept, NoLocals
    <3> QED BY <3>2, <3>3, <3>4
  <2> QED BY <1>3, <2>1, <2>2 DEF Promote, Goto, Here, LocalsKept
<1>5. /\ loc[t].node \in Known /\ loc[t].high \in Levels
      /\ height[loc[t].node] \in Levels
      /\ loc[t].ret # "relink"
  BY <1>1, MovesNode DEF Moving, Demoting
<1>6. loc[t].high + 1 \in Levels /\ loc[t].high + 1 # 0
  BY <1>1, MovesNode DEF Here, Locals, Depths, Rising, Moving
<1>7. Called(t)' /\ Own(t)'
  BY <1>1, <1>2, <1>3, <1>4, <1>5, <1>6, OnwardKeeps DEF Here, Locals, Called,
     Onward, Keep, Entered, Linked, Locating, Placing
<1>8. Values(t)'
  BY <1>1, <1>2, <1>3, <1>4, <1>5, <1>6 DEF Here, Locals, Values, Keep
<1>9. Depths(t)'
  BY <1>1, <1>2, <1>3, <1>4, <1>5, <1>6, ConstantFacts DEF Here, Locals,
     Depths, Keep, Entered, Linked, Locating, AtLevel, Rising, Placing
<1>10. Walking(t)'
  BY <1>1, <1>2, <1>3, <1>4, <1>5, <1>6 DEF Here, Locals, Walking, Keep, Key,
     Unlinking
<1>11. Dead(t)'
  BY <1>1, <1>2, <1>3, <1>4, <1>5, <1>6 DEF Here, Locals, Dead, Keep, Unlinking
<1> HIDE DEF Before, Equal
<1>12. Path(t)'
  BY <1>1, <1>2, <1>3, <1>4, <1>5, <1>6 DEF Here, Locals, Path, Keep, Key,
     Node, Placed, Placing, Unlinking, Moving, Demoting
<1> QED BY <1>1, <1>7, <1>8, <1>9, <1>10, <1>11, <1>12, CalmlyGood

LEMMA GrowHeadGood ==
  ASSUME NEW t \in Threads, Here(t), GrowHead(t)
  PROVE  Good(t)
<1>1. pc[t] = "growhead" /\ todo' = todo
  BY DEF GrowHead
<1>2. Tidy(t) /\ Known' = Known
  BY StillTidy DEF GrowHead, Here, Still, shape, history
<1>3. Sizes' /\ Hints'
  <2>1. loc[t].bound \in Levels \ {0}
    BY <1>1, ConstantFacts DEF Here, Locals, Depths
  <2>2. headHeight' \in Levels \ {0} BY <2>1 DEF GrowHead, Here, Sizes
  <2> QED BY <1>2, <2>2 DEF GrowHead, shape, Here, Sizes, Hints, Before0
<1>4. pc'[t] \in {"inithead", "bump"}
  BY DEF GrowHead, Goto, Here, LocalsKept
<1>5. \/ loc' = loc /\ pc'[t] = "bump"
      \/ \E v : loc' = [loc EXCEPT ![t].lvl = v] /\ v = loc[t].i + 1
  BY DEF GrowHead, Goto, Here, LocalsKept
<1>6. /\ Keep(t, {"lvl"})
      /\ \/ loc'[t].lvl = loc[t].lvl /\ pc'[t] = "bump"
         \/ loc'[t].lvl = loc[t].i + 1
  BY <1>5 DEF Keep, Here, LocalsKept, NoLocals
<1>7. Before0' = Before0 /\ Beyond' = Beyond
  BY <1>2 DEF Before0, Beyond
<1>8. hasDups' = hasDups /\ marked' = marked
  BY DEF GrowHead, shape, history
<1>9. /\ loc[t].node \in Known /\ loc[t].high \in Levels
      /\ height[loc[t].node] \in Levels
      /\ loc[t].ret # "relink"
  BY <1>1, MovesNode DEF Moving, Demoting
<1>10. loc[t].high + 1 \in Levels /\ loc[t].high + 1 # 0
  BY <1>1, MovesNode DEF Here, Locals, Depths, Rising, Moving
<1>11. loc[t].i + 1 \in 0 .. MaxHeight /\ loc[t].i + 1 > 0 /\ loc[t].bound > 0
  BY <1>1, SkipListAssumption DEF Here, Locals, Depths, Levels
<1>12. Called(t)' /\ Own(t)'
  BY <1>1, <1>2, <1>3, <1>4, <1>6, <1>7, <1>8, <1>9, <1>10, <1>11, OnwardKeeps
     DEF Here, Locals, Called, Onward, Keep, Entered, Linked, Locating, Placing
<1>13. Values(t)'
  BY <1>1, <1>2, <1>3, <1>4, <1>6, <1>7, <1>8, <1>9, <1>10, <1>11 DEF Here,
     Locals, Values, Keep
<1>14. Depths(t)'
  BY <1>1, <1>2, <1>3, <1>4, <1>6, <1>7, <1>8, <1>9, <1>10, <1>11,
     ConstantFacts DEF Here, Locals, Depths, Keep, Entered, Linked, Locating,
     AtLevel, Rising, Placing
<1>15. Walking(t)'
  BY <1>1, <1>2, <1>3, <1>4, <1>6, <1>7, <1>8, <1>9, <1>10, <1>11 DEF Here,
     Locals, Walking, Keep, Key, Unlinking
<1>16. Dead(t)'
  BY <1>1, <1>2, <1>3, <1>4, <1>6, <1>7, <1>8, <1>9, <1>10, <1>11 DEF Here,
     Locals, Dead, Keep, Unlinking
<1> HIDE DEF Before, Equal
<1>17. Path(t)'
  BY <1>1, <1>2, <1>3, <1>4, <1>6, <1>7, <1>8, <1>9, <1>10, <1>11 DEF Here,
     Locals, Path, Keep, Key, Node, Placed, Placing, Unlinking, Moving,
     Demoting
<1> QED BY <1>2, <1>3, <1>12, <1>13, <1>14, <1>15, <1>16, <1>17 DEF Good,
     Locals

LEMMA InitHeadGood ==
  ASSUME NEW t \in Threads, Here(t), InitHead(t)
  PROVE  Good(t)
<1>1. pc[t] = "inithead" /\ todo' = todo
  BY DEF InitHead
<1>2. Tidy(t) /\ Known' = Known
  <2>1. UNCHANGED <<marked, live, hasDups>> BY DEF InitHead, history
  <2>2. CASE next' = next BY <2>1, <2>2, StillTidy DEF Here, Still
  <2>3. CASE loc[t].lvl <= loc[t].bound /\ Swing(Head, loc[t].lvl, Tail)
    <3>1. loc[t].lvl \in Levels /\ loc[t].lvl # 0
      BY <1>1, <2>3, SkipListAssumption DEF Here, Locals, Depths, Levels
    <3>2. SwingTo(Head, loc[t].lvl, Tail)
      BY <2>3, <3>1 DEF SwingTo, Swing, Before0, Beyond
    <3> QED BY <2>1, <3>2, SwingTidy DEF Here, Words, Marked
  <2> QED BY <2>2, <2>3 DEF InitHead
<1>3. Sizes' /\ Hints'
  <2>1. loc[t].bound \in Levels \ {0}
    BY <1>1, ConstantFacts DEF Here, Locals, Depths
  <2>2. tailHeight' \in Levels \ {0} BY <2>1 DEF InitHead, Here, Sizes
  <2> QED BY <1>2, <2>2 DEF InitHead, Here, Sizes, Hints, Before0
<1>4. pc'[t] \in {"inithead", "bump"}
  BY DEF InitHead, Goto, Here, LocalsKept
<1>5. \/ /\ loc[t].lvl <= loc[t].bound
         /\ \E v : loc' = [loc EXCEPT ![t].lvl = v] /\ v = loc[t].lvl + 1
      \/ pc'[t] = "bump" /\ \E v : loc' = [loc EXCEPT ![t].k = v]
  BY DEF InitHead, Goto, Here, LocalsKept
<1>6. /\ Keep(t, {"lvl", "k"})
      /\ \/ loc'[t].lvl = loc[t].lvl /\ pc'[t] = "bump"
         \/ loc'[t].lvl = loc[t].lvl + 1 /\ loc[t].lvl <= loc[t].bound
  BY <1>5 DEF Keep, Here, LocalsKept, NoLocals
<1>7. Before0' = Before0 /\ Beyond' = Beyond
  BY <1>2 DEF Before0, Beyond
<1>8. hasDups' = hasDups /\ marked' = marked
  BY DEF InitHead, shape, history
<1>9. /\ loc[t].node \in Known /\ loc[t].high \in Levels
      /\ height[loc[t].node] \in Levels
      /\ loc[t].ret # "relink"
  BY <1>1, MovesNode DEF Moving, Demoting
<1>10. loc[t].high + 1 \in Levels /\ loc[t].high + 1 # 0
  BY <1>1, MovesNode DEF Here, Locals, Depths, Rising, Moving
<1>11. /\ loc[t].lvl <= loc[t].bound => loc[t].lvl + 1 \in 0 .. MaxHeight
      /\ loc[t].lvl + 1 > 0 /\ loc[t].bound > 0
  BY <1>1, SkipListAssumption DEF Here, Locals, Depths, Levels
<1>12. Called(t)' /\ Own(t)'
  BY <1>1, <1>2, <1>3, <1>4, <1>6, <1>7, <1>8, <1>9, <1>10, <1>11, OnwardKeeps
     DEF Here, Locals, Called, Onward, Keep, Entered, Linked, Locating, Placing
<1>13. Values(t)'
  BY <1>1, <1>2, <1>3, <1>4, <1>6, <1>7, <1>8, <1>9, <1>10, <1>11 DEF Here,
     Locals, Values, Keep
<1>14. Depths(t)'
  BY <1>1, <1>2, <1>3, <1>4, <1>6, <1>7, <1>8, <1>9, <1>10, <1>11,
     ConstantFacts DEF Here, Locals, Depths, Keep, Entered, Linked, Locating,
     AtLevel, Rising, Placing
<1>15. Walking(t)'
  BY <1>1, <1>2, <1>3, <1>4, <1>6, <1>7, <1>8, <1>9, <1>10, <1>11 DEF Here,
     Locals, Walking, Keep, Key, Unlinking
<1>16. Dead(t)'
  BY <1>1, <1>2, <1>3, <1>4, <1>6, <1>7, <1>8, <1>9, <1>10, <1>11 DEF Here,
     Locals, Dead, Keep, Unlinking
<1> HIDE DEF Before, Equal
<1>17. Path(t)'
  BY <1>1, <1>2, <1>3, <1>4, <1>6, <1>7, <1>8, <1>9, <1>10, <1>11 DEF Here,
     Locals, Path, Keep, Key, Node, Placed, Placing, Unlinking, Moving,
     Demoting
<1> QED BY <1>2, <1>3, <1>12, <1>13, <1>14, <1>15, <1>16, <1>17 DEF Good,
     Locals

LEMMA BumpGood ==
  ASSUME NEW t \in Threads, Here(t), Bump(t)
  PROVE  Good(t)
<1>1. pc[t] = "bump" /\ todo' = todo
  BY DEF Bump
<1>2. Tidy(t) /\ Known' = Known
  BY StillTidy DEF Bump, Here, Still, shape, history, ReHeight
<1>3. Sizes' /\ Hints'
  <2>1. loc[t].high + 1 \in Levels
    BY <1>1, MovesNode DEF Here, Locals, Depths, Rising, Moving, Demoting,
         PlaceInv,
       InCall
  <2>2. height' \in [Nodes -> Levels]
    BY <2>1 DEF Bump, ReHeight, Here, Sizes
  <2> QED BY <1>2, <2>2 DEF Bump, heights, Here, Sizes, Hints, Before0
<1>4. pc'[t] \in {"promotepred", "rebnext"}
  BY DEF Bump, Goto, Here, LocalsKept
<1>5. loc' = loc
  BY DEF Bump
<1>6. Keep(t, {})
  BY <1>5 DEF Keep
<1>7. Before0' = Before0 /\ Beyond' = Beyond
  BY <1>2 DEF Before0, Beyond
<1>8. hasDups' = hasDups /\ marked' = marked
  BY DEF Bump, shape, history
<1>9. /\ loc[t].node \in Known /\ loc[t].high \in Levels
      /\ height[loc[t].node] \in Levels
      /\ loc[t].ret # "relink"
  BY <1>1, MovesNode DEF Moving, Demoting
<1>10. loc[t].high + 1 \in Levels /\ loc[t].high + 1 # 0
  BY <1>1, MovesNode DEF Here, Locals, Depths, Rising, Moving
<1>11. Called(t)' /\ Own(t)'
  BY <1>1, <1>2, <1>3, <1>4, <1>5, <1>6, <1>7, <1>8, <1>9, <1>10, OnwardKeeps
     DEF Here, Locals, Called, Onward, Keep, Entered, Linked, Locating, Placing
<1>12. Values(t)'
  BY <1>1, <1>2, <1>3, <1>4, <1>5, <1>6, <1>7, <1>8, <1>9, <1>10 DEF Here,
     Locals, Values, Keep
<1>13. Depths(t)'
  BY <1>1, <1>2, <1>3, <1>4, <1>5, <1>6, <1>7, <1>8, <1>9, <1>10, ConstantFacts
     DEF Here, Locals, Depths, Keep, Entered, Linked, Locating, AtLevel,
     Rising, Placing
<1>14. Walking(t)'
  BY <1>1, <1>2, <1>3, <1>4, <1>5, <1>6, <1>7, <1>8, <1>9, <1>10 DEF Here,
     Locals, Walking, Keep, Key, Unlinking
<1>15. Dead(t)'
  BY <1>1, <1>2, <1>3, <1>4, <1>5, <1>6, <1>7, <1>8, <1>9, <1>10 DEF Here,
     Locals, Dead, Keep, Unlinking
<1> HIDE DEF Before, Equal
<1>16. Path(t)'
  BY <1>1, <1>2, <1>3, <1>4, <1>5, <1>6, <1>7, <1>8, <1>9, <1>10 DEF Here,
     Locals, Path, Keep, Key, Node, Placed, Placing, Unlinking, Moving,
     Demoting
<1> QED BY <1>2, <1>3, <1>11, <1>12, <1>13, <1>14, <1>15, <1>16 DEF Good,
     Locals

LEMMA PromotePredGood ==
  ASSUME NEW t \in Threads, Here(t), PromotePred(t)
  PROVE  Good(t)
<1>1. pc[t] = "promotepred" /\ todo' = todo /\ Calmly
  BY DEF PromotePred, Calmly, Still, shape, heights, history
<1>2. /\ Known' = Known /\ Before0' = Before0 /\ Beyond' = Beyond
      /\ next' = next /\ marked' = marked /\ hasDups' = hasDups
  BY <1>1, CalmlySame
<1>3. pc'[t] \in {"promotesucc", "revert"}
  BY DEF PromotePred, Goto, Here, LocalsKept
<1>4. \/ pc'[t] = "revert" /\ loc' = loc
      \/ /\ pc'[t] = "promotesucc" /\ loc[t].preds[loc[t].high + 1] # Nil
         /\ \E v : /\ loc' = [loc EXCEPT ![t].pred = v]
                   /\ v = loc[t].preds[loc[t].high + 1]
  BY DEF PromotePred, Goto, Here, LocalsKept, HasPred
<1>5. /\ Keep(t, {"pred"})
      /\ \/ pc'[t] = "revert" /\ loc'[t].pred = loc[t].pred
         \/ /\ pc'[t] = "promotesucc" /\ loc[t].preds[loc[t].high + 1] # Nil
            /\ loc'[t].pred = loc[t].preds[loc[t].high + 1]
  BY <1>4 DEF Keep, Here, LocalsKept, NoLocals
<1>6. /\ loc[t].node \in Known /\ loc[t].high \in Levels
      /\ height[loc[t].node] \in Levels
      /\ loc[t].ret # "relink"
  BY <1>1, MovesNode DEF Moving, Demoting
<1>7. loc[t].high + 1 \in Levels /\ loc[t].high + 1 # 0
  BY <1>1, MovesNode DEF Here, Locals, Depths, Rising, Moving
<1>8. loc[t].preds[loc[t].high + 1] \in Before0 \cup {Nil}
  BY <1>7 DEF Here, Locals, Values
<1>9. Called(t)' /\ Own(t)'
  BY <1>1, <1>2, <1>3, <1>5, <1>6, <1>7, <1>8, OnwardKeeps DEF Here, Locals,
     Called, Onward, Keep, Entered, Linked, Locating, Placing
<1>10. Values(t)'
  BY <1>1, <1>2, <1>3, <1>5, <1>6, <1>7, <1>8 DEF Here, Locals, Values, Keep
<1>11. Depths(t)'
  BY <1>1, <1>2, <1>3, <1>5, <1>6, <1>7, <1>8, ConstantFacts DEF Here, Locals,
     Depths, Keep, Entered, Linked, Locating, AtLevel, Rising, Placing
<1>12. Walking(t)'
  BY <1>1, <1>2, <1>3, <1>5, <1>6, <1>7, <1>8 DEF Here, Locals, Walking, Keep,
     Key, Unlinking
<1>13. Dead(t)'
  BY <1>1, <1>2, <1>3, <1>5, <1>6, <1>7, <1>8 DEF Here, Locals, Dead, Keep,
     Unlinking
<1> HIDE DEF Before, Equal
<1>14. Path(t)'
  BY <1>1, <1>2, <1>3, <1>5, <1>6, <1>7, <1>8 DEF Here, Locals, Path, Keep,
     Key, Node, Placed, Placing, Unlinking, Moving, Demoting
<1> QED BY <1>1, <1>9, <1>10, <1>11, <1>12, <1>13, <1>14, CalmlyGood

LEMMA PromoteSuccGood ==
  ASSUME NEW t \in Threads, Here(t), PromoteSucc(t)
  PROVE  Good(t)
<1>1. pc[t] = "promotesucc" /\ todo' = todo /\ Calmly
  BY DEF PromoteSucc, Calmly, Still, shape, heights, history
<1>2. /\ Known' = Known /\ Before0' = Before0 /\ Beyond' = Beyond
      /\ next' = next /\ marked' = marked /\ hasDups' = hasDups
  BY <1>1, CalmlySame
<1>3. pc'[t] \in {"promoteset", "revert"}
  BY DEF PromoteSucc, Goto, Here, LocalsKept
<1>4. \/ pc'[t] = "revert" /\ loc' = loc
      \/ \E v : /\ loc' = [loc EXCEPT ![t].succ = v]
                /\ v = Word(loc[t].pred, loc[t].high + 1)
  BY DEF PromoteSucc, Goto, Here, LocalsKept, Word
<1>5. /\ Keep(t, {"succ"})
      /\ loc'[t].succ \in {loc[t].succ, Word(loc[t].pred, loc[t].high + 1)}
  BY <1>4 DEF Keep, Here, LocalsKept, NoLocals
<1>6. /\ loc[t].node \in Known /\ loc[t].high \in Levels
      /\ height[loc[t].node] \in Levels
      /\ loc[t].ret # "relink"
  BY <1>1, MovesNode DEF Moving, Demoting
<1>7. loc[t].high + 1 \in Levels /\ loc[t].high + 1 # 0
  BY <1>1, MovesNode DEF Here, Locals, Depths, Rising, Moving
<1>8. Word(loc[t].pred, loc[t].high + 1) \in Beyond
  BY <1>1, <1>7, LinkedWord DEF Here, Locals, Values, Walking, Word
<1>9. Called(t)' /\ Own(t)'
  BY <1>1, <1>2, <1>3, <1>5, <1>6, <1>7, <1>8, OnwardKeeps DEF Here, Locals,
     Called, Onward, Keep, Entered, Linked, Locating, Placing
<1>10. Values(t)'
  BY <1>1, <1>2, <1>3, <1>5, <1>6, <1>7, <1>8 DEF Here, Locals, Values, Keep
<1>11. Depths(t)'
  BY <1>1, <1>2, <1>3, <1>5, <1>6, <1>7, <1>8, ConstantFacts DEF Here, Locals,
     Depths, Keep, Entered, Linked, Locating, AtLevel, Rising, Placing
<1>12. Walking(t)'
  BY <1>1, <1>2, <1>3, <1>5, <1>6, <1>7, <1>8 DEF Here, Locals, Walking, Keep,
     Key, Unlinking
<1>13. Dead(t)'
  BY <1>1, <1>2, <1>3, <1>5, <1>6, <1>7, <1>8 DEF Here, Locals, Dead, Keep,
     Unlinking
<1> HIDE DEF Before, Equal
<1>14. Path(t)'
  BY <1>1, <1>2, <1>3, <1>5, <1>6, <1>7, <1>8 DEF Here, Locals, Path, Keep,
     Key, Node, Placed, Placing, Unlinking, Moving, Demoting
<1> QED BY <1>1, <1>9, <1>10, <1>11, <1>12, <1>13, <1>14, CalmlyGood

LEMMA PromoteSetGood ==
  ASSUME NEW t \in Threads, Here(t), PromoteSet(t)
  PROVE  Good(t)
<1>1. pc[t] = "promoteset" /\ todo' = todo
  BY DEF PromoteSet
<1>2. Tidy(t) /\ Known' = Known
  <2>1. UNCHANGED <<live, hasDups>> BY DEF PromoteSet, history
  <2>3. CASE Swing(loc[t].node, loc[t].high + 1, loc[t].succ)
    <3>1. loc[t].high + 1 \in Levels /\ loc[t].high + 1 # 0
      BY <1>1, MovesNode DEF Here, Locals, Depths, Rising, Moving
    <3>2. loc[t].node \in Before0 /\ loc[t].succ \in Beyond
      BY <1>1, MovesNode DEF Here, Locals, Values, Moving, Before0
    <3>3. SwingTo(loc[t].node, loc[t].high + 1, loc[t].succ)
      BY <2>3, <3>1, <3>2 DEF SwingTo, Swing
    <3>4. /\ marked' \subseteq Nodes \X Levels
          /\ \A n \in Nodes : Marked(n, 0)' <=> Marked(n, 0)
      BY <3>1, <3>2 DEF PromoteSet, Marked, Here, Words
    <3> QED BY <2>1, <3>3, <3>4, SwingTidy DEF Here
  <2> QED BY <2>3 DEF PromoteSet
<1>3. Sizes' /\ Hints'
  BY <1>2 DEF PromoteSet, shape, heights, history, Here, Sizes, Hints, Before0
<1>4. pc'[t] \in {"promotecas"}
  BY DEF PromoteSet, Goto, Here, LocalsKept
<1>5. loc' = loc
  BY DEF PromoteSet
<1>6. Keep(t, {})
  BY <1>5 DEF Keep
<1>7. Before0' = Before0 /\ Beyond' = Beyond
  BY <1>2 DEF Before0, Beyond
<1>8. hasDups' = hasDups
  BY DEF PromoteSet
<1>9. /\ loc[t].node \in Known /\ loc[t].high \in Levels
      /\ height[loc[t].node] \in Levels
      /\ loc[t].ret # "relink"
  BY <1>1, MovesNode DEF Moving, Demoting
<1>10. loc[t].high + 1 \in Levels /\ loc[t].high + 1 # 0
  BY <1>1, MovesNode DEF Here, Locals, Depths, Rising, Moving
<1>11. Called(t)' /\ Own(t)'
  BY <1>1, <1>2, <1>3, <1>4, <1>5, <1>6, <1>7, <1>8, <1>9, <1>10, OnwardKeeps
     DEF Here, Locals, Called, Onward, Keep, Entered, Linked, Locating, Placing
<1>12. Values(t)'
  BY <1>1, <1>2, <1>3, <1>4, <1>5, <1>6, <1>7, <1>8, <1>9, <1>10 DEF Here,
     Locals, Values, Keep
<1>13. Depths(t)'
  BY <1>1, <1>2, <1>3, <1>4, <1>5, <1>6, <1>7, <1>8, <1>9, <1>10, ConstantFacts
     DEF Here, Locals, Depths, Keep, Entered, Linked, Locating, AtLevel,
     Rising, Placing
<1>14. Walking(t)'
  BY <1>1, <1>2, <1>3, <1>4, <1>5, <1>6, <1>7, <1>8, <1>9, <1>10 DEF Here,
     Locals, Walking, Keep, Key, Unlinking
<1>15. Dead(t)'
  BY <1>1, <1>2, <1>3, <1>4, <1>5, <1>6, <1>7, <1>8, <1>9, <1>10 DEF Here,
     Locals, Dead, Keep, Unlinking
<1> HIDE DEF Before, Equal
<1>16. Path(t)'
  BY <1>1, <1>2, <1>3, <1>4, <1>5, <1>6, <1>7, <1>8, <1>9, <1>10 DEF Here,
     Locals, Path, Keep, Key, Node, Placed, Placing, Unlinking, Moving,
     Demoting
<1> QED BY <1>2, <1>3, <1>11, <1>12, <1>13, <1>14, <1>15, <1>16 DEF Good,
     Locals

LEMMA PromoteCasGood ==
  ASSUME NEW t \in Threads, Here(t), PromoteCas(t)
  PROVE  Good(t)
<1>1. pc[t] = "promotecas" /\ todo' = todo
  BY DEF PromoteCas
<1>2. Tidy(t) /\ Known' = Known
  <2>1. UNCHANGED <<marked, live, hasDups>> BY DEF PromoteCas, history
  <2>2. CASE next' = next BY <2>1, <2>2, StillTidy DEF Here, Still
  <2>3. CASE Swing(loc[t].pred, loc[t].high + 1, loc[t].node)
    <3>1. loc[t].high + 1 \in Levels /\ loc[t].high + 1 # 0
      BY <1>1, MovesNode DEF Here, Locals, Depths, Rising, Moving
    <3>2. loc[t].pred \in Before0 \cup {Nil} /\ loc[t].node \in Beyond
      BY <1>1, MovesNode DEF Here, Locals, Values, Moving, Beyond
    <3>3. SwingTo(loc[t].pred, loc[t].high + 1, loc[t].node)
      BY <2>3, <3>1, <3>2 DEF SwingTo, Swing
    <3> QED BY <2>1, <3>3, SwingTidy DEF Here, Words, Marked
  <2> QED BY <2>2, <2>3 DEF PromoteCas
<1>3. Sizes' /\ Hints'
  BY <1>2 DEF PromoteCas, shape, heights, history, Here, Sizes, Hints, Before0
<1>4. pc'[t] \in {"recheck", "revert"}
  BY DEF PromoteCas, Goto, Here, LocalsKept
<1>5. loc' = loc
  BY DEF PromoteCas
<1>6. Keep(t, {})
  BY <1>5 DEF Keep
<1>7. Before0' = Before0 /\ Beyond' = Beyond
  BY <1>2 DEF Before0, Beyond
<1>8. hasDups' = hasDups /\ marked' = marked
  BY DEF PromoteCas, shape, history
<1>9. /\ loc[t].node \in Known /\ loc[t].high \in Levels
      /\ height[loc[t].node] \in Levels
      /\ loc[t].ret # "relink"
  BY <1>1, MovesNode DEF Moving, Demoting
<1>10. loc[t].high + 1 \in Levels /\ loc[t].high + 1 # 0
  BY <1>1, MovesNode DEF Here, Locals, Depths, Rising, Moving
<1>11. Called(t)' /\ Own(t)'
  BY <1>1, <1>2, <1>3, <1>4, <1>5, <1>6, <1>7, <1>8, <1>9, <1>10, OnwardKeeps
     DEF Here, Locals, Called, Onward, Keep, Entered, Linked, Locating, Placing
<1>12. Values(t)'
  BY <1>1, <1>2, <1>3, <1>4, <1>5, <1>6, <1>7, <1>8, <1>9, <1>10 DEF Here,
     Locals, Values, Keep
<1>13. Depths(t)'
  BY <1>1, <1>2, <1>3, <1>4, <1>5, <1>6, <1>7, <1>8, <1>9, <1>10, ConstantFacts
     DEF Here, Locals, Depths, Keep, Entered, Linked, Locating, AtLevel,
     Rising, Placing
<1>14. Walking(t)'
  BY <1>1, <1>2, <1>3, <1>4, <1>5, <1>6, <1>7, <1>8, <1>9, <1>10 DEF Here,
     Locals, Walking, Keep, Key, Unlinking
<1>15. Dead(t)'
  BY <1>1, <1>2, <1>3, <1>4, <1>5, <1>6, <1>7, <1>8, <1>9, <1>10 DEF Here,
     Locals, Dead, Keep, Unlinking
<1> HIDE DEF Before, Equal
<1>16. Path(t)'
  BY <1>1, <1>2, <1>3, <1>4, <1>5, <1>6, <1>7, <1>8, <1>9, <1>10 DEF Here,
     Locals, Path, Keep, Key, Node, Placed, Placing, Unlinking, Moving,
     Demoting
<1> QED BY <1>2, <1>3, <1>11, <1>12, <1>13, <1>14, <1>15, <1>16 DEF Good,
     Locals

LEMMA RevertGood ==
  ASSUME NEW t \in Threads, Here(t), Revert(t)
  PROVE  Good(t)
<1>1. pc[t] = "revert" /\ todo' = todo
  BY DEF Revert
<1>2. Tidy(t) /\ Known' = Known
  BY StillTidy DEF Revert, Here, Still, shape, history, ReHeight
<1>3. Sizes' /\ Hints'
  <2>1. loc[t].high \in Levels
    BY <1>1, MovesNode DEF Here, Locals, Depths, Rising, Moving, Demoting,
         PlaceInv,
       InCall
  <2>2. height' \in [Nodes -> Levels]
    BY <2>1 DEF Revert, ReHeight, Here, Sizes
  <2> QED BY <1>2, <2>2 DEF Revert, heights, Here, Sizes, Hints, Before0
<1>4. pc'[t] \in {"rebnext"}
  BY DEF Revert, Goto, Here, LocalsKept
<1>5. loc' = loc
  BY DEF Revert
<1>6. Keep(t, {})
  BY <1>5 DEF Keep
<1>7. Before0' = Before0 /\ Beyond' = Beyond
  BY <1>2 DEF Before0, Beyond
<1>8. hasDups' = hasDups /\ marked' = marked
  BY DEF Revert, shape, history
<1>9. /\ loc[t].node \in Known /\ loc[t].high \in Levels
      /\ height[loc[t].node] \in Levels
      /\ loc[t].ret # "relink"
  BY <1>1, MovesNode DEF Moving, Demoting
<1>10. Called(t)' /\ Own(t)'
  BY <1>1, <1>2, <1>3, <1>4, <1>5, <1>6, <1>7, <1>8, <1>9, OnwardKeeps DEF
     Here, Locals, Called, Onward, Keep, Entered, Linked, Locating, Placing
<1>11. Values(t)'
  BY <1>1, <1>2, <1>3, <1>4, <1>5, <1>6, <1>7, <1>8, <1>9 DEF Here, Locals,
     Values, Keep
<1>12. Depths(t)'
  BY <1>1, <1>2, <1>3, <1>4, <1>5, <1>6, <1>7, <1>8, <1>9, ConstantFacts DEF
     Here, Locals, Depths, Keep, Entered, Linked, Locating, AtLevel, Rising,
     Placing
<1>13. Walking(t)'
  BY <1>1, <1>2, <1>3, <1>4, <1>5, <1>6, <1>7, <1>8, <1>9 DEF Here, Locals,
     Walking, Keep, Key, Unlinking
<1>14. Dead(t)'
  BY <1>1, <1>2, <1>3, <1>4, <1>5, <1>6, <1>7, <1>8, <1>9 DEF Here, Locals,
     Dead, Keep, Unlinking
<1> HIDE DEF Before, Equal
<1>15. Path(t)'
  BY <1>1, <1>2, <1>3, <1>4, <1>5, <1>6, <1>7, <1>8, <1>9 DEF Here, Locals,
     Path, Keep, Key, Node, Placed, Placing, Unlinking, Moving, Demoting
<1> QED BY <1>2, <1>3, <1>10, <1>11, <1>12, <1>13, <1>14, <1>15 DEF Good,
     Locals

LEMMA RecheckGood ==
  ASSUME NEW t \in Threads, Here(t), Recheck(t)
  PROVE  Good(t)
<1>1. pc[t] = "recheck" /\ todo' = todo /\ Calmly
  BY DEF Recheck, Calmly, Still, shape, heights, history
<1>2. /\ Known' = Known /\ Before0' = Before0 /\ Beyond' = Beyond
      /\ next' = next /\ marked' = marked /\ hasDups' = hasDups
  BY <1>1, CalmlySame
<1>3. pc'[t] \in {"rebnext", "undo"}
  BY DEF Recheck, Goto, Here, LocalsKept
<1>4. loc' = loc
  BY DEF Recheck
<1>5. Keep(t, {})
  BY <1>4 DEF Keep
<1>6. /\ loc[t].node \in Known /\ loc[t].high \in Levels
      /\ height[loc[t].node] \in Levels
      /\ loc[t].ret # "relink"
  BY <1>1, MovesNode DEF Moving, Demoting
<1>7. loc[t].high + 1 \in Levels /\ loc[t].high + 1 # 0
  BY <1>1, MovesNode DEF Here, Locals, Depths, Rising, Moving
<1>8. pc'[t] = "undo" => Marked(loc[t].node, 0)
  BY DEF Recheck, Goto, Here, LocalsKept
<1>9. Called(t)' /\ Own(t)'
  BY <1>1, <1>2, <1>3, <1>4, <1>5, <1>6, <1>7, <1>8, OnwardKeeps DEF Here,
     Locals, Called, Onward, Keep, Entered, Linked, Locating, Placing
<1>10. Values(t)'
  BY <1>1, <1>2, <1>3, <1>4, <1>5, <1>6, <1>7, <1>8 DEF Here, Locals, Values,
     Keep
<1>11. Depths(t)'
  BY <1>1, <1>2, <1>3, <1>4, <1>5, <1>6, <1>7, <1>8, ConstantFacts DEF Here,
     Locals, Depths, Keep, Entered, Linked, Locating, AtLevel, Rising, Placing
<1>12. Walking(t)'
  BY <1>1, <1>2, <1>3, <1>4, <1>5, <1>6, <1>7, <1>8 DEF Here, Locals, Walking,
     Keep, Key, Unlinking
<1>13. Dead(t)'
  BY <1>1, <1>2, <1>3, <1>4, <1>5, <1>6, <1>7, <1>8 DEF Here, Locals, Dead,
     Keep, Unlinking, Marked
<1> HIDE DEF Before, Equal
<1>14. Path(t)'
  BY <1>1, <1>2, <1>3, <1>4, <1>5, <1>6, <1>7, <1>8 DEF Here, Locals, Path,
     Keep, Key, Node, Placed, Placing, Unlinking, Moving, Demoting
<1> QED BY <1>1, <1>9, <1>10, <1>11, <1>12, <1>13, <1>14, CalmlyGood

LEMMA UndoGood ==
  ASSUME NEW t \in Threads, Here(t), Undo(t)
  PROVE  Good(t)
<1>1. pc[t] = "undo" /\ todo' = todo /\ Calmly
  BY DEF Undo, Calmly, Still, shape, heights, history
<1>2. /\ Known' = Known /\ Before0' = Before0 /\ Beyond' = Beyond
      /\ next' = next /\ marked' = marked /\ hasDups' = hasDups
  BY <1>1, CalmlySame
<1>3. pc'[t] \in {"undocas"}
  BY DEF Undo, Goto, Here, LocalsKept
<1>4. \E v : /\ loc' = [loc EXCEPT ![t].succ = v]
             /\ v = Word(loc[t].node, loc[t].high + 1)
  BY DEF Undo, Goto, Here, LocalsKept, Word
<1>5. /\ Keep(t, {"succ"})
      /\ loc'[t].succ = Word(loc[t].node, loc[t].high + 1)
  BY <1>4 DEF Keep, Here, LocalsKept, NoLocals
<1>6. /\ loc[t].node \in Known /\ loc[t].high \in Levels
      /\ height[loc[t].node] \in Levels
      /\ loc[t].ret # "relink"
  BY <1>1, MovesNode DEF Moving, Demoting
<1>7. loc[t].high + 1 \in Levels /\ loc[t].high + 1 # 0
  BY <1>1, MovesNode DEF Here, Locals, Depths, Rising, Moving
<1>8. Word(loc[t].node, loc[t].high + 1) \in Beyond
  BY <1>6, <1>7, LinkedWord DEF Here, Before0, Word
<1>9. Called(t)' /\ Own(t)'
  BY <1>1, <1>2, <1>3, <1>5, <1>6, <1>7, <1>8, OnwardKeeps DEF Here, Locals,
     Called, Onward, Keep, Entered, Linked, Locating, Placing
<1>10. Values(t)'
  BY <1>1, <1>2, <1>3, <1>5, <1>6, <1>7, <1>8 DEF Here, Locals, Values, Keep
<1>11. Depths(t)'
  BY <1>1, <1>2, <1>3, <1>5, <1>6, <1>7, <1>8, ConstantFacts DEF Here, Locals,
     Depths, Keep, Entered, Linked, Locating, AtLevel, Rising, Placing
<1>12. Walking(t)'
  BY <1>1, <1>2, <1>3, <1>5, <1>6, <1>7, <1>8 DEF Here, Locals, Walking, Keep,
     Key, Unlinking
<1>13. Dead(t)'
  BY <1>1, <1>2, <1>3, <1>5, <1>6, <1>7, <1>8 DEF Here, Locals, Dead, Keep,
     Unlinking, Marked
<1> HIDE DEF Before, Equal
<1>14. Path(t)'
  BY <1>1, <1>2, <1>3, <1>5, <1>6, <1>7, <1>8 DEF Here, Locals, Path, Keep,
     Key, Node, Placed, Placing, Unlinking, Moving, Demoting
<1> QED BY <1>1, <1>9, <1>10, <1>11, <1>12, <1>13, <1>14, CalmlyGood

LEMMA UndoCasGood ==
  ASSUME NEW t \in Threads, Here(t), UndoCas(t)
  PROVE  Good(t)
<1>1. pc[t] = "undocas" /\ todo' = todo
  BY DEF UndoCas
<1>2. Tidy(t) /\ Known' = Known
  <2>1. UNCHANGED <<marked, live, hasDups>> BY DEF UndoCas, history
  <2>2. CASE next' = next BY <2>1, <2>2, StillTidy DEF Here, Still
  <2>3. CASE Swing(loc[t].pred, loc[t].high + 1, loc[t].succ)
    <3>1. loc[t].high + 1 \in Levels /\ loc[t].high + 1 # 0
      BY <1>1, MovesNode DEF Here, Locals, Depths, Rising, Moving
    <3>2. loc[t].pred \in Before0 \cup {Nil} /\ loc[t].succ \in Beyond
      BY DEF Here, Locals, Values
    <3>3. SwingTo(loc[t].pred, loc[t].high + 1, loc[t].succ)
      BY <2>3, <3>1, <3>2 DEF SwingTo, Swing
    <3> QED BY <2>1, <3>3, SwingTidy DEF Here, Words, Marked
  <2> QED BY <2>2, <2>3 DEF UndoCas
<1>3. Sizes' /\ Hints'
  BY <1>2 DEF UndoCas, shape, heights, history, Here, Sizes, Hints, Before0
<1>4. pc'[t] \in {"rebnext", "unlink"}
  BY DEF UndoCas, Goto, Here, LocalsKept
<1>5. loc' = loc
  BY DEF UndoCas
<1>6. Keep(t, {})
  BY <1>5 DEF Keep
<1>7. Before0' = Before0 /\ Beyond' = Beyond
  BY <1>2 DEF Before0, Beyond
<1>8. hasDups' = hasDups /\ marked' = marked
  BY DEF UndoCas, shape, history
<1>9. /\ loc[t].node \in Known /\ loc[t].high \in Levels
      /\ height[loc[t].node] \in Levels
      /\ loc[t].ret # "relink"
  BY <1>1, MovesNode DEF Moving, Demoting
<1>10. loc[t].high + 1 \in Levels /\ loc[t].high + 1 # 0
  BY <1>1, MovesNode DEF Here, Locals, Depths, Rising, Moving
<1>11. Called(t)' /\ Own(t)'
  BY <1>1, <1>2, <1>3, <1>4, <1>5, <1>6, <1>7, <1>8, <1>9, <1>10, OnwardKeeps
     DEF Here, Locals, Called, Onward, Keep, Entered, Linked, Locating, Placing
<1>12. Values(t)'
  BY <1>1, <1>2, <1>3, <1>4, <1>5, <1>6, <1>7, <1>8, <1>9, <1>10 DEF Here,
     Locals, Values, Keep
<1>13. Depths(t)'
  BY <1>1, <1>2, <1>3, <1>4, <1>5, <1>6, <1>7, <1>8, <1>9, <1>10, ConstantFacts
     DEF Here, Locals, Depths, Keep, Entered, Linked, Locating, AtLevel,
     Rising, Placing
<1>14. Walking(t)'
  BY <1>1, <1>2, <1>3, <1>4, <1>5, <1>6, <1>7, <1>8, <1>9, <1>10 DEF Here,
     Locals, Walking, Keep, Key, Unlinking
<1>15. Dead(t)'
  BY <1>1, <1>2, <1>3, <1>4, <1>5, <1>6, <1>7, <1>8, <1>9, <1>10 DEF Here,
     Locals, Dead, Keep, Unlinking, Marked
<1> HIDE DEF Before, Equal
<1>16. Path(t)'
  BY <1>1, <1>2, <1>3, <1>4, <1>5, <1>6, <1>7, <1>8, <1>9, <1>10 DEF Here,
     Locals, Path, Keep, Key, Node, Placed, Placing, Unlinking, Moving,
     Demoting
<1> QED BY <1>2, <1>3, <1>11, <1>12, <1>13, <1>14, <1>15, <1>16 DEF Good,
     Locals
=============================================================================
