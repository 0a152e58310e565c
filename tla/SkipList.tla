------------------------------ MODULE SkipList ------------------------------
(***************************************************************************)
(* The lock-free skip list of SKIPLIST_DECL: locate, insert, remove and    *)
(* lookup by any number of threads, with splay rebalancing and snapshots   *)
(* off (the defaults).                                                     *)
(*                                                                         *)
(* Every access to memory other threads may change is a step of its own.   *)
(* An atomic word of a level is a pointer and the deletion mark in its low *)
(* bit: next holds the pointer, marked the words that carry the mark.      *)
(* Memory is never reused: a retired node keeps its contents, as deferred  *)
(* reclamation guarantees while a thread may hold it (modules Ebr and      *)
(* GracePeriod).  Hit counters are left out: nothing reads them here.      *)
(***************************************************************************)
EXTENDS Integers, FiniteSets

CONSTANTS
    Threads, Nodes,
    KeyOf,          \* the key each node carries
    MaxHeight,      \* SKIPLIST_MAX_HEIGHT
    Built,          \* the nodes an earlier phase inserted, with their heights
    Calls,          \* the calls each thread makes, in any order, each one of
                    \* a set of alternatives
    Head, Tail, Nil

ASSUME SkipListAssumption ==
    /\ KeyOf \in [Nodes -> Nat]
    /\ MaxHeight \in Nat /\ MaxHeight >= 2
    /\ DOMAIN Built \subseteq Nodes
    /\ \A n \in DOMAIN Built : Built[n] \in 0 .. MaxHeight - 2
    /\ Head \notin Nodes /\ Tail \notin Nodes /\ Nil \notin Nodes
    /\ Head # Tail /\ Head # Nil /\ Tail # Nil
    /\ IsFiniteSet(Nodes) /\ IsFiniteSet(Threads)

(* The nodes of an earlier phase have keys of their own.  Every insert     *)
(* brings the node its caller allocated and filled in (skip_insert_ takes  *)
(* a new node each time): none brings a node of another call, or a built   *)
(* one.                                                                    *)
Inserts == {"insert", "insert_dup"}
ASSUME CallsAssumption ==
    /\ \A m, n \in DOMAIN Built : KeyOf[m] = KeyOf[n] => m = n
    /\ DOMAIN Calls = Threads
    /\ \A t \in Threads : \A C \in Calls[t] : \A c \in C :
          /\ c # Nil /\ c.key \in Nat
          /\ c.op \in Inserts =>
                c.node \in Nodes \ DOMAIN Built /\ KeyOf[c.node] = c.key
    /\ \A t, u \in Threads : \A C \in Calls[t], D \in Calls[u] : \A c \in C, d \in D :
          {c.op, d.op} \subseteq Inserts /\ c.node = d.node => t = u /\ C = D

Cells  == Nodes \cup {Head, Tail}
Levels == 0 .. MaxHeight - 1

VARIABLES
    \* the nodes, the head and the tail
    next, marked, height, prev,
    \* the list; a node's height is its top level, the head's the number of
    \* levels in use
    headHeight, tailHeight, length, hasDups,
    \* nodes handed to deferred reclamation
    retired,
    \* the threads: calls still to make, position and locals of the one running
    todo, pc, loc,
    \* history: the set the list stands for; for each call in progress, what
    \* it has seen of its key, the nodes that stayed in the list all along
    \* and those that were in it at some moment; per retired node, the
    \* threads that were in a call and still are; what each last call returned
    live, seen, stay, was, waiting, result

shape   == <<next, marked, height>>
heights == <<headHeight, tailHeight>>
history == <<live, seen, stay, was, waiting, result>>
vars == <<shape, prev, heights, length, hasDups, retired, todo, pc, loc, history>>

NoLocals ==
    [call |-> Nil, ret |-> "idle", pred |-> Nil, curr |-> Nil, succ |-> Nil,
     lvl |-> 0, top |-> 0, i |-> 0, again |-> FALSE, found |-> Nil,
     node |-> Nil, high |-> 0, bound |-> 0, hint |-> Nil, met |-> {},
     splayed |-> FALSE, idx |-> 0, k |-> 0, share |-> 0,
     preds |-> [l \in Levels |-> Nil], succs |-> [l \in Levels |-> Nil]]

Key(t)  == loc[t].call.key
Node(t) == loc[t].call.node

(* The calls of module Cursors.                                            *)
CursorOps == {"gte", "gt", "lte", "lt", "forward", "backward", "array", "previous"}
Cursor(t) == loc[t].call # Nil /\ loc[t].call.op \in CursorOps

Goto(t, l) == pc' = [pc EXCEPT ![t] = l]

(* _skip_compare_nodes_ against a key: the head is before, the tail after. *)
BeforeUnlessEqual(c, k) == c = Head \/ (c \in Nodes /\ KeyOf[c] # k)    \* mutant
Before(c, k) == c = Head \/ (c \in Nodes /\ KeyOf[c] < k)
EqualOrAfter(c, k) == c \in Nodes /\ KeyOf[c] >= k                      \* mutant
Equal(c, k)  == c \in Nodes /\ KeyOf[c] = k
After(c, k)  == c = Tail \/ (c \in Nodes /\ KeyOf[c] > k)

Marked(c, l) == <<c, l>> \in marked

(* A compare-and-swap of an unmarked word: it fails if the word is marked. *)
HoldsUnread(c, l, old) == ~ Marked(c, l)                               \* mutant
HoldsMarked(c, l, old) == next[c, l] = old                             \* mutant
Holds(c, l, old) == next[c, l] = old /\ ~ Marked(c, l)
Swing(c, l, new) == next' = [next EXCEPT ![<<c, l>>] = new]
-----------------------------------------------------------------------------
(* skip_init_, and the list a sequence of inserts of Built leaves behind.  *)
Larger(h) == CHOOSE x \in h : \A y \in h : x >= y
First(S) ==
    IF S = {} THEN Tail ELSE CHOOSE n \in S : \A m \in S : KeyOf[n] <= KeyOf[m]
Last(S) ==
    IF S = {} THEN Head ELSE CHOOSE n \in S : \A m \in S : KeyOf[n] >= KeyOf[m]
InUse(l) == {n \in DOMAIN Built : Built[n] >= l}
InitHeight == Larger({1} \cup {Built[n] + 1 : n \in DOMAIN Built})

Init ==
    /\ next = [w \in Cells \X Levels |->
          IF w[1] = Head THEN First(InUse(w[2]))
          ELSE IF w[1] \in InUse(w[2])
               THEN First({m \in InUse(w[2]) : KeyOf[m] > KeyOf[w[1]]})
               ELSE Nil]
    /\ marked = {}
    /\ height = [n \in Nodes |-> IF n \in DOMAIN Built THEN Built[n] ELSE 0]
    /\ prev = [c \in Cells |->
          IF c = Tail THEN Last(DOMAIN Built)
          ELSE IF c \in DOMAIN Built
               THEN Last({m \in DOMAIN Built : KeyOf[m] < KeyOf[c]})
               ELSE Nil]
    /\ headHeight = InitHeight /\ tailHeight = InitHeight
    /\ length = Cardinality(DOMAIN Built)
    /\ hasDups = FALSE
    /\ retired = {}
    /\ todo = Calls
    /\ pc = [t \in Threads |-> "idle"]
    /\ loc = [t \in Threads |-> NoLocals]
    /\ live = DOMAIN Built
    /\ seen = [t \in Threads |-> {}]
    /\ stay = [t \in Threads |-> {}]
    /\ was = [t \in Threads |-> {}]
    /\ waiting = [n \in Nodes |-> {}]
    /\ result = [t \in Threads |-> "none"]

Has(S, k) == \E n \in S : KeyOf[n] = k

(* The set the list stands for changes to S.                               *)
Becomes(S) ==
    /\ live' = S
    /\ seen' = [t \in Threads |->
          IF pc[t] = "idle" THEN {} ELSE seen[t] \cup {Has(S, Key(t))}]
    /\ stay' = [t \in Threads |-> stay[t] \cap S]
    /\ was' = [t \in Threads |-> IF Cursor(t) THEN was[t] \cup S ELSE {}]
    /\ UNCHANGED <<waiting, result>>

(* A call starts at one place and, when it locates first, goes on at       *)
(* another.  Its thread is pinned until it returns.                        *)
Begin(t, c, start, located) ==
    /\ pc[t] = "idle"
    /\ \E C \in todo[t] : c \in C /\ todo' = [todo EXCEPT ![t] = @ \ {C}]
    /\ Goto(t, start)
    /\ loc' = [loc EXCEPT ![t].call = c, ![t].ret = located]
    /\ seen' = [seen EXCEPT ![t] = {Has(live, c.key)}]
    /\ LET S == IF c.op \in CursorOps THEN live ELSE {}
       IN stay' = [stay EXCEPT ![t] = S] /\ was' = [was EXCEPT ![t] = S]
    /\ result' = [result EXCEPT ![t] = "none"]
    /\ UNCHANGED <<shape, prev, heights, length, hasDups, retired, live, waiting>>

Start == [insert |-> "locate", insert_dup |-> "locate", remove |-> "locate",
          contains |-> "lookup"]
Located == [insert |-> "insert", insert_dup |-> "insert", remove |-> "remove",
            contains |-> "lookup"]

Call(t) ==
    \E c \in UNION todo[t] :
        /\ c.op \in DOMAIN Start
        /\ Begin(t, c, Start[c.op], Located[c.op])

Return(t, r) ==
    /\ Goto(t, "idle")
    /\ loc' = [loc EXCEPT ![t] = NoLocals]
    /\ seen' = [seen EXCEPT ![t] = {}]
    /\ stay' = [stay EXCEPT ![t] = {}]
    /\ was' = [was EXCEPT ![t] = {}]
    /\ waiting' = [n \in Nodes |-> waiting[n] \ {t}]
    /\ result' = [result EXCEPT ![t] = r]
    /\ UNCHANGED live
-----------------------------------------------------------------------------
(* _skip_locate_: walk down from the head's top level, splicing out the    *)
(* marked nodes on the way; any surprise restarts the walk.                *)
LocStart(t) ==
    /\ pc[t] = "locate"
    /\ loc' = [loc EXCEPT ![t].pred = Head, ![t].top = headHeight,
                          ![t].lvl = headHeight - 1, ![t].splayed = FALSE]
    /\ Goto(t, "locpred")
    /\ UNCHANGED <<shape, prev, heights, length, hasDups, retired, todo, history>>

LocPred(t) ==
    /\ pc[t] = "locpred"
    /\ \/ /\ Marked(loc[t].pred, loc[t].lvl)
          /\ Goto(t, "locate")
          /\ UNCHANGED loc
       \/ /\ ~ Marked(loc[t].pred, loc[t].lvl)
          /\ loc' = [loc EXCEPT ![t].curr = next[loc[t].pred, loc[t].lvl]]
          /\ Goto(t, "loccurr")
    /\ UNCHANGED <<shape, prev, heights, length, hasDups, retired, todo, history>>

LocMarked(t) ==
    /\ pc[t] = "loccurr"
    /\ Marked(loc[t].curr, loc[t].lvl)
    /\ loc' = [loc EXCEPT ![t].succ = next[loc[t].curr, loc[t].lvl]]
    /\ Goto(t, "lochelp")
    /\ UNCHANGED <<shape, prev, heights, length, hasDups, retired, todo, history>>

LocHelpRetry(t) ==                                                     \* mutant
    /\ pc[t] = "lochelp"
    /\ Holds(loc[t].pred, loc[t].lvl, loc[t].curr)
    /\ Swing(loc[t].pred, loc[t].lvl, loc[t].succ)
    /\ loc' = [loc EXCEPT ![t].curr = loc[t].succ]
    /\ Goto(t, "loccurr")
    /\ UNCHANGED <<marked, height, prev, heights, length, hasDups, retired, todo,
                   history>>
LocHelp(t) ==
    /\ pc[t] = "lochelp"
    /\ \/ /\ Holds(loc[t].pred, loc[t].lvl, loc[t].curr)
          /\ Swing(loc[t].pred, loc[t].lvl, loc[t].succ)
          /\ loc' = [loc EXCEPT ![t].curr = loc[t].succ]
          /\ Goto(t, "loccurr")
       \/ /\ ~ Holds(loc[t].pred, loc[t].lvl, loc[t].curr)
          /\ Goto(t, "locate")
          /\ UNCHANGED <<next, loc>>
    /\ UNCHANGED <<marked, height, prev, heights, length, hasDups, retired, todo,
                   history>>

LocAdvance(t) ==
    /\ pc[t] = "loccurr"
    /\ ~ Marked(loc[t].curr, loc[t].lvl) /\ Before(loc[t].curr, Key(t))
    /\ loc' = [loc EXCEPT ![t].pred = loc[t].curr,
                          ![t].curr = next[loc[t].curr, loc[t].lvl]]
    /\ UNCHANGED <<shape, prev, heights, length, hasDups, retired, todo, pc,
                   history>>

LocRecord(t) ==
    /\ pc[t] = "loccurr"
    /\ ~ Marked(loc[t].curr, loc[t].lvl) /\ ~ Before(loc[t].curr, Key(t))
    /\ LET l == loc[t].lvl
           here == [loc EXCEPT ![t].preds[l] = loc[t].pred,
                               ![t].succs[l] = loc[t].curr]
       IN \/ /\ l > 0
             /\ loc' = [here EXCEPT ![t].lvl = l - 1]
             /\ Goto(t, "locpred")
          \/ /\ l = 0
             /\ loc' = [here EXCEPT ![t].found =
                           IF Equal(loc[t].curr, Key(t)) THEN loc[t].curr ELSE Nil]
             /\ Goto(t, loc[t].ret)
    /\ UNCHANGED <<shape, prev, heights, length, hasDups, retired, todo, history>>
-----------------------------------------------------------------------------
(* _skip_insert_ *)
Exists(t) ==
    /\ pc[t] = "insert"
    /\ loc[t].found # Nil /\ loc[t].call.op = "insert"
    /\ Return(t, "exists")
    /\ UNCHANGED <<shape, prev, heights, length, hasDups, retired, todo>>

\* Phases 2 and 4; the node is still private, except for the has_dups flag.
\* Levels the walk did not cover go between the head and the tail.
Toss(t) ==
    /\ pc[t] = "insert"
    /\ loc[t].found # Nil => loc[t].call.op = "insert_dup"
    /\ hasDups' = (hasDups \/ loc[t].found # Nil)
    /\ \E h \in 0 .. MaxHeight - 2 :
          /\ h <= loc[t].top
          /\ height' = [height EXCEPT ![Node(t)] = h]
          /\ LET new == loc[t].top .. h
                 preds == [l \in Levels |-> IF l \in new THEN Head ELSE loc[t].preds[l]]
                 succs == [l \in Levels |-> IF l \in new THEN Tail ELSE loc[t].succs[l]]
             IN /\ loc' = [loc EXCEPT ![t].preds = preds, ![t].succs = succs,
                                     ![t].high = h]
                /\ next' = [w \in Cells \X Levels |->
                      IF w[1] = Node(t) /\ w[2] <= h THEN succs[w[2]] ELSE next[w]]
          /\ \/ h >= loc[t].top /\ Goto(t, "grow")
             \/ h < loc[t].top /\ Goto(t, "link")
    /\ UNCHANGED <<marked, prev, heights, length, retired, todo, history>>

\* Phase 3: the CAS loop amounts to an atomic maximum.
Grow(t) ==
    /\ pc[t] = "grow"
    /\ \/ /\ headHeight < loc[t].high + 1
          /\ headHeight' = loc[t].high + 1
          /\ Goto(t, "growtail")
       \/ /\ headHeight >= loc[t].high + 1
          /\ Goto(t, "link")
          /\ UNCHANGED headHeight
    /\ UNCHANGED <<shape, prev, tailHeight, length, hasDups, retired, todo, loc,
                   history>>

GrowTail(t) ==
    /\ pc[t] = "growtail"
    /\ tailHeight' = loc[t].high + 1
    /\ Goto(t, "link")
    /\ UNCHANGED <<shape, prev, headHeight, length, hasDups, retired, todo, loc,
                   history>>

\* Phase 5, the linearization point.
Link(t) ==
    /\ pc[t] = "link"
    /\ \/ /\ Holds(loc[t].preds[0], 0, loc[t].succs[0])
          /\ Swing(loc[t].preds[0], 0, Node(t))
          /\ Becomes(live \cup {Node(t)})
          /\ loc' = [loc EXCEPT ![t].i = 0]
          /\ Goto(t, "help")
       \/ /\ ~ Holds(loc[t].preds[0], 0, loc[t].succs[0])
          /\ Goto(t, "locate")
          /\ UNCHANGED <<next, loc, history>>
    /\ UNCHANGED <<marked, height, prev, heights, length, hasDups, retired, todo>>

(* Phases 5b (level 0) and 6b (the levels above): splice out the marked    *)
(* successors of the new node, then go on to what follows.                 *)
Helped(t) ==
    LET i == loc[t].i  h == loc[t].high
    IN \/ i = 0 /\ h = 0 /\ Goto(t, "prev") /\ UNCHANGED loc
       \/ i = 0 /\ h > 0 /\ Goto(t, "raise") /\ loc' = [loc EXCEPT ![t].i = 1]
       \/ 0 < i /\ i < h /\ Goto(t, "help") /\ loc' = [loc EXCEPT ![t].i = i + 1]
       \/ 0 < i /\ i = h /\ Goto(t, "count") /\ UNCHANGED loc

Help(t) ==
    /\ pc[t] = "help"
    /\ LET s == next[Node(t), loc[t].i]
           done == s = Tail \/ Marked(Node(t), loc[t].i)
       IN \/ done /\ Helped(t)
          \/ /\ ~ done
             /\ loc' = [loc EXCEPT ![t].succ = s]
             /\ Goto(t, "helpnext")
    /\ UNCHANGED <<shape, prev, heights, length, hasDups, retired, todo, history>>

HelpNext(t) ==
    /\ pc[t] = "helpnext"
    /\ \/ ~ Marked(loc[t].succ, loc[t].i) /\ Helped(t)
       \/ /\ Marked(loc[t].succ, loc[t].i)
          /\ loc' = [loc EXCEPT ![t].curr = next[loc[t].succ, loc[t].i]]
          /\ Goto(t, "helpcas")
    /\ UNCHANGED <<shape, prev, heights, length, hasDups, retired, todo, history>>

HelpCas(t) ==
    /\ pc[t] = "helpcas"
    /\ \/ /\ Holds(Node(t), loc[t].i, loc[t].succ)
          /\ Swing(Node(t), loc[t].i, loc[t].curr)
          /\ Goto(t, "help")
          /\ UNCHANGED loc
       \/ /\ ~ Holds(Node(t), loc[t].i, loc[t].succ)
          /\ \/ Marked(Node(t), loc[t].i) /\ Helped(t)
             \/ ~ Marked(Node(t), loc[t].i) /\ Goto(t, "help") /\ UNCHANGED loc
          /\ UNCHANGED next
    /\ UNCHANGED <<marked, height, prev, heights, length, hasDups, retired, todo,
                   history>>

(* Phase 6: link level i, from 1 to the node's height.                     *)
RaiseStale(t) ==                                                       \* mutant
    /\ pc[t] = "raise"
    /\ \/ Marked(Node(t), loc[t].i) /\ Goto(t, "prev")
       \/ ~ Marked(Node(t), loc[t].i) /\ Goto(t, "raisecas")
    /\ UNCHANGED <<shape, prev, heights, length, hasDups, retired, todo, loc,
                   history>>
Raise(t) ==
    /\ pc[t] = "raise"
    /\ \/ Marked(Node(t), loc[t].i) /\ Goto(t, "prev")
       \/ Holds(Node(t), loc[t].i, loc[t].succs[loc[t].i]) /\ Goto(t, "raisecas")
       \/ /\ ~ Marked(Node(t), loc[t].i)
          /\ next[Node(t), loc[t].i] # loc[t].succs[loc[t].i]
          /\ Goto(t, "raiseset")
    /\ UNCHANGED <<shape, prev, heights, length, hasDups, retired, todo, loc,
                   history>>

\* A plain store: it overwrites a mark set since the word was read.
RaiseSet(t) ==
    /\ pc[t] = "raiseset"
    /\ Swing(Node(t), loc[t].i, loc[t].succs[loc[t].i])
    /\ marked' = marked \ {<<Node(t), loc[t].i>>}
    /\ Goto(t, "raisecas")
    /\ UNCHANGED <<height, prev, heights, length, hasDups, retired, todo, loc,
                   history>>

RaiseCas(t) ==
    /\ pc[t] = "raisecas"
    /\ LET i == loc[t].i  p == loc[t].preds[i]
       IN /\ Holds(p, i, loc[t].succs[i])
          /\ Swing(p, i, Node(t))
          /\ \/ /\ i < loc[t].high
                /\ loc' = [loc EXCEPT ![t].i = i + 1]
                /\ Goto(t, "raise")
             \/ i = loc[t].high /\ Goto(t, "prev") /\ UNCHANGED loc
    /\ UNCHANGED <<marked, height, prev, heights, length, hasDups, retired, todo,
                   history>>

\* The CAS failed: locate again, which refreshes the levels the head has now.
RaiseAgain(t) ==
    /\ pc[t] = "raisecas"
    /\ ~ Holds(loc[t].preds[loc[t].i], loc[t].i, loc[t].succs[loc[t].i])
    /\ Goto(t, "locate")
    /\ loc' = [loc EXCEPT ![t].ret = "relink"]
    /\ UNCHANGED <<shape, prev, heights, length, hasDups, retired, todo, history>>

Relink(t) ==
    /\ pc[t] = "relink"
    /\ \/ Marked(Node(t), 0) /\ Goto(t, "prev")
       \/ ~ Marked(Node(t), 0) /\ Goto(t, "raise")
    /\ UNCHANGED <<shape, prev, heights, length, hasDups, retired, todo, loc,
                   history>>

(* Phase 7: the backward hints.                                            *)
Prev(t) ==
    /\ pc[t] = "prev"
    /\ prev' = [prev EXCEPT ![Node(t)] = loc[t].preds[0]]
    /\ Goto(t, "prevsucc")
    /\ UNCHANGED <<shape, heights, length, hasDups, retired, todo, loc, history>>

Above(t) ==
    \/ loc[t].high > 0 /\ Goto(t, "help") /\ loc' = [loc EXCEPT ![t].i = 1]
    \/ loc[t].high = 0 /\ Goto(t, "count") /\ UNCHANGED loc

PrevSucc(t) ==
    /\ pc[t] = "prevsucc"
    /\ \/ Marked(Node(t), 0) /\ Above(t)
       \/ /\ ~ Marked(Node(t), 0)
          /\ loc' = [loc EXCEPT ![t].succ = next[Node(t), 0]]
          /\ Goto(t, "prevcas")
    /\ UNCHANGED <<shape, prev, heights, length, hasDups, retired, todo, history>>

PrevCas(t) ==
    /\ pc[t] = "prevcas"
    /\ \/ /\ prev[loc[t].succ] = loc[t].preds[0]
          /\ prev' = [prev EXCEPT ![loc[t].succ] = Node(t)]
       \/ prev[loc[t].succ] # loc[t].preds[0] /\ UNCHANGED prev
    /\ Above(t)
    /\ UNCHANGED <<shape, heights, length, hasDups, retired, todo, history>>

Count(t) ==
    /\ pc[t] = "count"
    /\ length' = length + 1
    /\ Return(t, "ok")
    /\ UNCHANGED <<shape, prev, heights, hasDups, retired, todo>>
-----------------------------------------------------------------------------
(* skip_remove_node_; node is the one being removed.                     *)
NoEntry(t) ==
    /\ pc[t] = "remove"
    /\ loc[t].found = Nil
    /\ Return(t, "noent")
    /\ UNCHANGED <<shape, prev, heights, length, hasDups, retired, todo>>

Found(t) ==
    /\ pc[t] = "remove"
    /\ loc[t].found # Nil
    /\ loc' = [loc EXCEPT ![t].i = height[loc[t].found],
                          ![t].node = loc[t].found]
    /\ Goto(t, "mark")
    /\ UNCHANGED <<shape, prev, heights, length, hasDups, retired, todo, history>>

\* Phase 1: the read-and-CAS loop amounts to setting the bit atomically.
Mark(t) ==
    /\ pc[t] = "mark" /\ loc[t].i > 0
    /\ marked' = marked \cup {<<loc[t].node, loc[t].i>>}
    /\ loc' = [loc EXCEPT ![t].i = @ - 1]
    /\ UNCHANGED <<next, height, prev, heights, length, hasDups, retired, todo,
                   pc, history>>

\* Phase 2, the linearization point; a thread that comes second returns 0.
Mark0Again(t) ==                                                       \* mutant
    /\ pc[t] = "mark" /\ loc[t].i = 0
    /\ marked' = marked \cup {<<loc[t].node, 0>>}
    /\ Becomes(live \ {loc[t].node})
    /\ Goto(t, "unlink")
    /\ UNCHANGED <<next, height, prev, heights, length, hasDups, retired, todo, loc>>
Mark0(t) ==
    /\ pc[t] = "mark" /\ loc[t].i = 0
    /\ \/ /\ ~ Marked(loc[t].node, 0)
          /\ marked' = marked \cup {<<loc[t].node, 0>>}
          /\ Becomes(live \ {loc[t].node})
          /\ Goto(t, "unlink")
          /\ UNCHANGED loc
       \/ /\ Marked(loc[t].node, 0)
          /\ Return(t, "ok")
          /\ UNCHANGED marked
    /\ UNCHANGED <<next, height, prev, heights, length, hasDups, retired, todo>>

(* _skip_unlink_fully_: from the larger of the two heights down, walk each *)
(* level from the head and CAS the node, and every marked node before it,  *)
(* out of the list; start again if a CAS failed.                           *)
Unlink(t) ==
    /\ pc[t] = "unlink"
    /\ loc' = [loc EXCEPT ![t].high = height[loc[t].node]]
    /\ Goto(t, "sweep")
    /\ UNCHANGED <<shape, prev, heights, length, hasDups, retired, todo, history>>

SweepInUse(t) == headHeight - 1                                        \* mutant
SweepTop(t) == Larger({loc[t].high, headHeight})

\* Past the key of the node that is being unlinked, or at a null.
Past(me) == me.curr = Nil \/ After(me.curr, KeyOf[me.node])

Sweep(t) ==
    /\ pc[t] = "sweep"
    /\ loc' = [loc EXCEPT ![t].bound = SweepTop(t), ![t].lvl = SweepTop(t),
                          ![t].again = FALSE]
    /\ Goto(t, "sweephead")
    /\ UNCHANGED <<shape, prev, heights, length, hasDups, retired, todo, history>>

SweepHead(t) ==
    /\ pc[t] = "sweephead"
    /\ loc' = [loc EXCEPT ![t].pred = Head, ![t].curr = next[Head, loc[t].lvl]]
    /\ Goto(t, "sweepcurr")
    /\ UNCHANGED <<shape, prev, heights, length, hasDups, retired, todo, history>>

\* The walk of a level ends; me is the thread's locals at that point.
LevelSwept(t, me) ==
    \/ /\ me.lvl > 0
       /\ loc' = [loc EXCEPT ![t] = [me EXCEPT !.lvl = @ - 1]]
       /\ Goto(t, "sweephead")
    \/ /\ me.lvl = 0 /\ me.again
       /\ loc' = [loc EXCEPT ![t] = me]
       /\ Goto(t, "sweep")
    \/ /\ me.lvl = 0 /\ ~ me.again
       /\ loc' = [loc EXCEPT ![t] = [me EXCEPT !.lvl = me.bound]]
       /\ Goto(t, "verify")

SweepCurr(t) ==
    /\ pc[t] = "sweepcurr"
    /\ LET me == loc[t]  out == me.curr = me.node \/ Marked(me.curr, me.lvl)
       IN \/ /\ out
             /\ loc' = [loc EXCEPT ![t].succ = next[me.curr, me.lvl]]
             /\ Goto(t, "sweepcas")
          \/ /\ ~ out /\ ~ Past(me)
             /\ loc' = [loc EXCEPT ![t].pred = me.curr,
                                   ![t].curr = next[me.curr, me.lvl]]
             /\ UNCHANGED pc
          \/ ~ out /\ Past(me) /\ LevelSwept(t, me)
    /\ UNCHANGED <<shape, prev, heights, length, hasDups, retired, todo, history>>

SweepCas(t) ==
    /\ pc[t] = "sweepcas"
    /\ LET me == loc[t]
       IN \/ /\ Holds(me.pred, me.lvl, me.curr)
             /\ Swing(me.pred, me.lvl, me.succ)
             /\ \/ me.curr = me.node /\ LevelSwept(t, me)
                \/ /\ me.curr # me.node
                   /\ loc' = [loc EXCEPT ![t].curr = me.succ]
                   /\ Goto(t, "sweepcurr")
          \/ /\ ~ Holds(me.pred, me.lvl, me.curr)
             /\ LevelSwept(t, [me EXCEPT !.again = TRUE])
             /\ UNCHANGED next
    /\ UNCHANGED <<marked, height, prev, heights, length, hasDups, retired, todo,
                   history>>

\* Then look for the node at every level again, and sweep again if it is there.
VerifyHead(t) ==
    /\ pc[t] = "verify"
    /\ loc' = [loc EXCEPT ![t].curr = next[Head, loc[t].lvl]]
    /\ Goto(t, "verifycurr")
    /\ UNCHANGED <<shape, prev, heights, length, hasDups, retired, todo, history>>

\* A splay that takes back its link goes on with the next node of its path.
Unlinked(t) == IF loc[t].call.op = "remove" THEN "unprev" ELSE "rebnext"

VerifyCurr(t) ==
    /\ pc[t] = "verifycurr"
    /\ LET me == loc[t]
       IN \/ me.curr = me.node /\ Goto(t, "sweep") /\ UNCHANGED loc
          \/ /\ me.curr # me.node /\ ~ Past(me)
             /\ loc' = [loc EXCEPT ![t].curr = next[me.curr, me.lvl]]
             /\ UNCHANGED pc
          \/ /\ me.curr # me.node /\ Past(me)
             /\ \/ /\ me.lvl > 0
                   /\ loc' = [loc EXCEPT ![t].lvl = @ - 1]
                   /\ Goto(t, "verify")
                \/ me.lvl = 0 /\ Goto(t, Unlinked(t)) /\ UNCHANGED loc
    /\ UNCHANGED <<shape, prev, heights, length, hasDups, retired, todo, history>>

(* The successor's backward hint, the length, and the head's height.       *)
UnPrev(t) ==
    /\ pc[t] = "unprev"
    /\ loc' = [loc EXCEPT ![t].hint = prev[loc[t].node]]
    /\ Goto(t, "unprevcas")
    /\ UNCHANGED <<shape, prev, heights, length, hasDups, retired, todo, history>>

UnPrevNone(t) ==                                                       \* mutant
    /\ pc[t] = "unprevcas" /\ Goto(t, "uncount")
    /\ UNCHANGED <<shape, prev, heights, length, hasDups, retired, todo, loc, history>>
UnPrevCas(t) ==
    /\ pc[t] = "unprevcas"
    /\ LET s == next[loc[t].node, 0]
       IN \/ prev[s] = loc[t].node /\ prev' = [prev EXCEPT ![s] = loc[t].hint]
          \/ prev[s] # loc[t].node /\ UNCHANGED prev
    /\ Goto(t, "uncount")
    /\ UNCHANGED <<shape, heights, length, hasDups, retired, todo, loc, history>>

\* No step reads the length, so the load that follows is folded in.
UnCount(t) ==
    /\ pc[t] = "uncount"
    /\ length' = length - 1
    /\ loc' = [loc EXCEPT ![t].i = headHeight]
    /\ Goto(t, "shrink")
    /\ UNCHANGED <<shape, prev, heights, hasDups, retired, todo, history>>

EmptyAny(t) == next[Head, loc[t].i - 1] = Tail                         \* mutant
Empty(t) == loc[t].i > 1 /\ next[Head, loc[t].i - 1] = Tail

Shrink(t) ==
    /\ pc[t] = "shrink"
    /\ \/ Empty(t) /\ Goto(t, "shrinkcas")
       \/ ~ Empty(t) /\ Goto(t, "retire")
    /\ UNCHANGED <<shape, prev, heights, length, hasDups, retired, todo, loc,
                   history>>

ShrinkCas(t) ==
    /\ pc[t] = "shrinkcas"
    /\ \/ /\ headHeight = loc[t].i
          /\ headHeight' = loc[t].i - 1
          /\ Goto(t, "shrinktail")
          /\ UNCHANGED loc
       \/ /\ headHeight # loc[t].i
          /\ loc' = [loc EXCEPT ![t].i = headHeight]
          /\ Goto(t, "shrink")
          /\ UNCHANGED headHeight
    /\ UNCHANGED <<shape, prev, tailHeight, length, hasDups, retired, todo,
                   history>>

ShrinkHead(t) ==                                                       \* mutant
    /\ pc[t] = "shrinktail"
    /\ loc' = [loc EXCEPT ![t].i = @ - 1]
    /\ Goto(t, "shrink")
    /\ UNCHANGED <<shape, prev, heights, length, hasDups, retired, todo, history>>
ShrinkTail(t) ==
    /\ pc[t] = "shrinktail"
    /\ tailHeight' = loc[t].i - 1
    /\ loc' = [loc EXCEPT ![t].i = @ - 1]
    /\ Goto(t, "shrink")
    /\ UNCHANGED <<shape, prev, headHeight, length, hasDups, retired, todo,
                   history>>

\* The node goes to reclamation, which waits for the threads now in a call.
Retire(t) ==
    /\ pc[t] = "retire"
    /\ retired' = retired \cup {loc[t].node}
    /\ waiting' = [waiting EXCEPT ![loc[t].node] =
                      {u \in Threads : pc[u] # "idle"}]
    /\ Goto(t, "adjust")
    /\ UNCHANGED <<shape, prev, heights, length, hasDups, todo, loc, live, seen,
                   stay, was, result>>

\* _skip_adjust_hit_counts_ finds fewer than SIZE_MAX / 2 hits.
Adjust(t) ==
    /\ pc[t] = "adjust"
    /\ Return(t, "ok")
    /\ UNCHANGED <<shape, prev, heights, length, hasDups, retired, todo>>
-----------------------------------------------------------------------------
(* _skip_lookup_: a walk that skips marked nodes and returns as soon as it *)
(* meets the key, unless the list has ever held duplicates; found is the   *)
(* last match.                                                             *)
LookStart(t) ==
    /\ pc[t] = "lookup"
    /\ loc' = [loc EXCEPT ![t].pred = Head, ![t].lvl = headHeight - 1,
                          ![t].found = Nil]
    /\ Goto(t, "lookpred")
    /\ UNCHANGED <<shape, prev, heights, length, hasDups, retired, todo, history>>

LookPred(t) ==
    /\ pc[t] = "lookpred"
    /\ \/ /\ Marked(loc[t].pred, loc[t].lvl)
          /\ Goto(t, "lookup")
          /\ UNCHANGED loc
       \/ /\ ~ Marked(loc[t].pred, loc[t].lvl)
          /\ loc' = [loc EXCEPT ![t].curr = next[loc[t].pred, loc[t].lvl]]
          /\ Goto(t, "lookcurr")
    /\ UNCHANGED <<shape, prev, heights, length, hasDups, retired, todo, history>>

\* The walk of a level ends, on an equal node or past the key.
LookDown(t, r) ==
    \/ /\ loc[t].lvl > 0
       /\ loc' = [loc EXCEPT ![t].lvl = @ - 1]
       /\ Goto(t, "lookpred")
       /\ UNCHANGED history
    \/ loc[t].lvl = 0 /\ Return(t, r)

LookCurr(t) ==
    /\ pc[t] = "lookcurr"
    /\ LET c == loc[t].curr  l == loc[t].lvl
       IN \/ /\ Marked(c, l)
             /\ loc' = [loc EXCEPT ![t].curr = next[c, l]]
             /\ UNCHANGED <<pc, history>>
          \/ /\ ~ Marked(c, l) /\ Before(c, Key(t))
             /\ loc' = [loc EXCEPT ![t].pred = c, ![t].curr = next[c, l]]
             /\ UNCHANGED <<pc, history>>
          \/ /\ ~ Marked(c, l) /\ Equal(c, Key(t))
             /\ loc' = [loc EXCEPT ![t].found = c]
             /\ Goto(t, "lookdups")
             /\ UNCHANGED history
          \/ ~ Marked(c, l) /\ After(c, Key(t)) /\ LookDown(t, "missing")
    /\ UNCHANGED <<shape, prev, heights, length, hasDups, retired, todo>>

LookFirst(t) ==                                                        \* mutant
    /\ pc[t] = "lookdups" /\ Return(t, "found")
    /\ UNCHANGED <<shape, prev, heights, length, hasDups, retired, todo>>
LookDups(t) ==
    /\ pc[t] = "lookdups"
    /\ \/ ~ hasDups /\ Return(t, "found")
       \/ hasDups /\ LookDown(t, "found")
    /\ UNCHANGED <<shape, prev, heights, length, hasDups, retired, todo>>
-----------------------------------------------------------------------------
Locate(t) ==
    LocStart(t) \/ LocPred(t) \/ LocMarked(t) \/ LocHelp(t) \/ LocAdvance(t)
    \/ LocRecord(t)

Insert(t) ==
    Exists(t) \/ Toss(t) \/ Grow(t) \/ GrowTail(t) \/ Link(t) \/ Help(t)
    \/ HelpNext(t) \/ HelpCas(t) \/ Raise(t) \/ RaiseSet(t) \/ RaiseCas(t)
    \/ RaiseAgain(t) \/ Relink(t) \/ Prev(t) \/ PrevSucc(t) \/ PrevCas(t) \/ Count(t)

Remove(t) ==
    NoEntry(t) \/ Found(t) \/ Mark(t) \/ Mark0(t) \/ Unlink(t) \/ Sweep(t) \/ SweepHead(t)
    \/ SweepCurr(t) \/ SweepCas(t) \/ VerifyHead(t) \/ VerifyCurr(t)
    \/ UnPrev(t) \/ UnPrevCas(t) \/ UnCount(t) \/ Shrink(t) \/ ShrinkCas(t)
    \/ ShrinkTail(t) \/ Retire(t) \/ Adjust(t)

Lookup(t) == LookStart(t) \/ LookPred(t) \/ LookCurr(t) \/ LookDups(t)

Step(t) == Locate(t) \/ Insert(t) \/ Remove(t) \/ Lookup(t)

(* Every call has been made and has returned.                              *)
Finished ==
    /\ \A t \in Threads : pc[t] = "idle" /\ todo[t] = {}
    /\ UNCHANGED vars

Next == Finished \/ \E t \in Threads : Call(t) \/ Step(t)

Spec == Init /\ [][Next]_vars

(* A call in progress keeps running, whatever the other threads do.        *)
FairSpec == Spec /\ \A t \in Threads : WF_vars(Step(t))
-----------------------------------------------------------------------------
PCs == {"idle", "locate", "locpred", "loccurr", "lochelp", "insert", "grow",
        "growtail", "link", "help", "helpnext", "helpcas", "raise", "raiseset",
        "raisecas", "relink", "prev", "prevsucc", "prevcas", "count", "remove",
        "mark", "unlink", "sweep", "sweephead", "sweepcurr", "sweepcas", "verify",
        "verifycurr", "unprev", "unprevcas", "uncount", "shrink", "shrinkcas",
        "shrinktail", "retire", "adjust", "lookup", "lookpred", "lookcurr", "lookdups"}

TypeOKAt(places) ==
    /\ next \in [Cells \X Levels -> Cells \cup {Nil}]
    /\ marked \subseteq Nodes \X Levels
    /\ height \in [Nodes -> Levels]
    /\ prev \in [Cells -> Cells \cup {Nil}]
    /\ headHeight \in Levels \ {0} /\ tailHeight \in Levels \ {0}
    /\ length \in Int /\ hasDups \in BOOLEAN
    /\ retired \subseteq Nodes /\ live \subseteq Nodes
    /\ waiting \in [Nodes -> SUBSET Threads]
    /\ pc \in [Threads -> places]
    /\ \A t \in Threads :
          /\ {loc[t].pred, loc[t].curr, loc[t].succ, loc[t].found, loc[t].node}
                \subseteq Cells \cup {Nil}
          /\ {loc[t].lvl, loc[t].top, loc[t].i, loc[t].high, loc[t].bound}
                \subseteq 0 .. MaxHeight
          /\ pc[t] \in {"locpred", "lochelp"} => loc[t].pred \in Cells \ {Tail}
          /\ pc[t] \in {"loccurr", "lookcurr", "sweepcurr", "verifycurr"} =>
                loc[t].curr \in Nodes \cup {Tail}
TypeOK == TypeOKAt(PCs)

(* The cells met walking level l from c: those in every set that holds the *)
(* successor of c and, with a cell, its successor.                         *)
Closed(c, l, S) ==
    /\ c # Tail => next[c, l] \in S \cup {Nil}
    /\ \A d \in S \ {Tail} : next[d, l] \in S \cup {Nil}
From(c, l) ==
    LET closed == {S \in SUBSET (Nodes \cup {Tail}) : Closed(c, l, S)}
    IN {d \in Nodes \cup {Tail} : \A S \in closed : d \in S}
Walk(l) == From(Head, l)
Chain(l) == Walk(l) \cap Nodes

(* The list at level 0 holds exactly the nodes whose insert has taken      *)
(* effect and whose remove has not, however the splices interleave.        *)
LiveReachable == live = {n \in Chain(0) : ~ Marked(n, 0)}

(* Every level ends in the tail and is sorted; the lowest strictly so in a *)
(* list that has never held a duplicate.  Higher up a node may be linked   *)
(* before one of its key that is on its way out.                           *)
Ordered(m, n) == KeyOf[m] < KeyOf[n] \/ (hasDups /\ KeyOf[m] = KeyOf[n])
SortedAt(l) ==
    LET met == Walk(l)
    IN /\ Tail \in met
       /\ \A n \in met \ {Tail} :
             next[n, l] \in Nodes =>
                \/ Ordered(n, next[n, l])
                \/ l > 0 /\ KeyOf[n] = KeyOf[next[n, l]]
Sorted == \A l \in Levels : SortedAt(l)

(* A node handed to deferred reclamation is linked at no level, then and   *)
(* ever after ("retired => unlinked").                                     *)
RetiredUnreachable == \A n \in retired, l \in Levels : n \notin Chain(l)

(* The nodes a thread may still go to.  A hint it only copies is not one.   *)
Held(t) ==
    {loc[t].pred, loc[t].curr, loc[t].succ, loc[t].found, loc[t].node}
    \cup {loc[t].preds[l] : l \in Levels} \cup {loc[t].succs[l] : l \in Levels}
    \cup {next[n, 0] : n \in {loc[t].node : x \in {pc[t]} \cap {"unprevcas"}}}
    \cup {loc[t].hint : x \in {pc[t]} \cap {"checkhint"}}

(* A thread never holds a node that was retired before its call began, so  *)
(* it may be freed once the calls of that moment have returned ("safe      *)
(* under EBR pinning").                                                    *)
Protected == \A t \in Threads, n \in retired : n \in Held(t) => t \in waiting[n]

(* The calls use reclamation as it demands: retire once, inside a call.    *)
Reclaimer == INSTANCE GracePeriod WITH
                 pinned <- {t \in Threads : pc[t] # "idle"},
                 status <- [n \in Nodes |->
                               IF n \in retired THEN "retired" ELSE "linked"]
Reclaimed == Reclaimer!Spec

(* Until a duplicate is asked for, no two live nodes have one key, however *)
(* many threads insert it at once.                                         *)
UniqueKeys ==
    hasDups \/ \A m, n \in live : KeyOf[m] = KeyOf[n] => m = n

AtRest == \A t \in Threads : pc[t] = "idle"

(* With no call in progress each level links exactly the live nodes that   *)
(* reach it.                                                               *)
Towers == AtRest => \A l \in Levels : Chain(l) = {n \in live : height[n] >= l}

(* Where a call that changed the set is until it returns.                  *)
Linked == {"help", "helpnext", "helpcas", "raise", "raiseset", "raisecas",
           "relink", "prev", "prevsucc", "prevcas", "count"}
Removed == {"unlink", "sweep", "sweephead", "sweepcurr", "sweepcas", "verify", "verifycurr",
            "unprev", "unprevcas", "uncount", "shrink", "shrinkcas", "shrinktail",
            "retire", "adjust"}
TookEffect ==
    {t \in Threads : \/ pc[t] \in Linked
                     \/ pc[t] \in Removed /\ loc[t].call.op = "remove"
                     \/ pc[t] \in {"locate", "locpred", "loccurr", "lochelp"}
                        /\ loc[t].ret = "relink"}

(* The length lags the list by the inserts and removes still to count.     *)
InsertsToCount == {t \in TookEffect : loc[t].call.op # "remove"}
RemovesToCount ==
    {t \in TookEffect : /\ loc[t].call.op = "remove"
                        /\ pc[t] \notin {"shrink", "shrinkcas", "shrinktail",
                                         "retire", "adjust"}}
Accounted ==
    length = Cardinality(live) - Cardinality(InsertsToCount)
             + Cardinality(RemovesToCount)

(* A lookup and a remove settle on the first of several equal nodes.       *)
Settles(t) ==
    /\ loc[t].found # Nil
    /\ \/ pc[t] = "lookdups" /\ pc'[t] = "idle"
       \/ pc[t] = "remove" /\ pc'[t] = "mark"
FirstEqual(n) == \A m \in live : KeyOf[m] = KeyOf[n] => next[m, 0] # n
FirstDuplicate ==
    [][\A t \in Threads : Settles(t) => FirstEqual(loc[t].found)]_vars

(* The lowest word of a removed node is frozen: its mark stays and so does *)
(* the pointer under it.  (Higher up a plain store may clear a mark.)      *)
Frozen ==
    [][\A n \in Nodes :
          Marked(n, 0) => Marked(n, 0)' /\ next'[n, 0] = next[n, 0]]_vars

(* Every call returns.                                                     *)
CallsReturn == \A t \in Threads : pc[t] # "idle" ~> pc[t] = "idle"

(* The list is linearizable to a set with a node per key.                  *)
Invocations == UNION {UNION Calls[t] : t \in Threads}
Set == INSTANCE OrderedSet WITH
           present <- live, call <- [t \in Threads |-> loc[t].call],
           effect <- TookEffect, NoCall <- Nil, Loose <- {}
Linearizable == Set!Spec

(* Inserts and removes are, and a lookup that finds nothing, while what a  *)
(* lookup finds may be on its way out and cursors promise something else.  *)
Updates == INSTANCE OrderedSet WITH
               present <- live, call <- [t \in Threads |-> loc[t].call],
               effect <- TookEffect, NoCall <- Nil,
               Loose <- CursorOps \cup {"found"}
UpdatesLinear == Updates!Spec
=============================================================================
