------------------------------- MODULE Splay -------------------------------
(***************************************************************************)
(* The skip list with SKIPLIST_SPLAY_REBALANCE: an access that finds its   *)
(* key may, after locating it, lower or raise by one level the towers of   *)
(* the nodes on its path (_fix_skip_rebalance_).                           *)
(*                                                                         *)
(* The hit counters decide which towers move and by their nature are only  *)
(* approximate, so the model lets them say anything: the share of a node   *)
(* is the largest d with hits <= total / 2^d, or -1 if there is none, and  *)
(* any share may come up.  The same node met twice in one rebalance has    *)
(* the same share.                                                         *)
(***************************************************************************)
EXTENDS Cursors

(* One access in SKIPLIST_SPLAY_INTERVAL of search, contains and update    *)
(* locates the whole path instead of leaving the walk at the key.          *)
SplayCall(t) ==
    \E c \in UNION todo[t] :
        c.op = "contains" /\ Begin(t, c, "locate", "found")

FoundAt(t) ==
    /\ pc[t] = "found"
    /\ Return(t, IF loc[t].found = Nil THEN "missing" ELSE "found")
    /\ UNCHANGED <<shape, prev, heights, length, hasDups, retired, todo>>

(* _skip_rebalance_ after locate found a node, for every call but remove.  *)
Rebalance(t) ==
    /\ pc[t] \in {"insert", "position", "found"}
    /\ loc[t].found # Nil /\ ~ loc[t].splayed
    /\ loc[t].top >= 2
    /\ loc' = [loc EXCEPT ![t].splayed = TRUE, ![t].k = headHeight,
                          ![t].node = Nil, ![t].idx = 0]
    /\ Goto(t, "rebnode")
    /\ UNCHANGED <<shape, prev, heights, length, hasDups, retired, todo, history>>
-----------------------------------------------------------------------------
(* path[0] is the match, path[i + 1] the predecessor at level i; len is    *)
(* the number of levels the walk covered.                                  *)
OnPath(me, i) == IF i = 0 THEN me.found ELSE me.preds[i - 1]

RebNode(t) ==
    /\ pc[t] = "rebnode"
    /\ LET me == loc[t]  n == OnPath(me, me.idx)
       IN \/ me.idx > me.top /\ Goto(t, me.ret) /\ UNCHANGED loc
          \/ /\ me.idx <= me.top /\ (n \notin Nodes \/ Marked(n, 0))
             /\ loc' = [loc EXCEPT ![t].idx = @ + 1]
             /\ UNCHANGED pc
          \/ /\ me.idx <= me.top /\ n \in Nodes /\ ~ Marked(n, 0)
             /\ \E s \in -1 .. me.k :
                   /\ n = me.node => s = me.share
                   /\ loc' = [loc EXCEPT ![t].node = n, ![t].share = s]
             /\ Goto(t, "rebheight")
    /\ UNCHANGED <<shape, prev, heights, length, hasDups, retired, todo, history>>

RebNext(t) ==
    /\ pc[t] = "rebnext"
    /\ loc' = [loc EXCEPT ![t].idx = @ + 1]
    /\ Goto(t, "rebnode")
    /\ UNCHANGED <<shape, prev, heights, length, hasDups, retired, todo, history>>

\* How far the node's top level is below the list's.
Delta(me, h) == IF h >= me.k THEN 0 ELSE me.k - h
TooHigh(me, h) == Delta(me, h) <= me.share /\ h > 0
TooLow(me, h) ==
    /\ Delta(me, h) - 1 > me.share /\ Delta(me, h) >= 1
    /\ h < MaxHeight - 1 /\ h < me.k

\* Raise the node or go on; the hits of its neighbour may refuse.
Ascend(t, me) ==
    \/ TooLow(me, me.high) /\ Goto(t, "promote") /\ loc' = [loc EXCEPT ![t] = me]
    \/ Goto(t, "rebnext") /\ loc' = [loc EXCEPT ![t] = me]

\* The locate path's predecessor at level l, if it has one.
HasPred(me, l) == l + 1 <= me.top /\ me.preds[l] # Nil
Reaches(c, l) == (IF c = Head THEN headHeight ELSE height[c]) >= l
-----------------------------------------------------------------------------
(* Demotion: splice the node out of its top level, then lower its height.  *)
RebHeight(t) ==
    /\ pc[t] = "rebheight"
    /\ LET me == [loc[t] EXCEPT !.high = height[loc[t].node]]
       IN \/ TooHigh(me, me.high) /\ HasPred(me, me.high)
             /\ Goto(t, "demotepred") /\ loc' = [loc EXCEPT ![t] = me]
          \/ ~ (TooHigh(me, me.high) /\ HasPred(me, me.high)) /\ Ascend(t, me)
    /\ UNCHANGED <<shape, prev, heights, length, hasDups, retired, todo, history>>

DemotePred(t) ==
    /\ pc[t] = "demotepred"
    /\ LET me == loc[t]  c == me.preds[me.high]
       IN \/ /\ Reaches(c, me.high)
             /\ loc' = [loc EXCEPT ![t].pred = c]
             /\ Goto(t, "demotesucc")
          \/ ~ Reaches(c, me.high) /\ Ascend(t, me)
    /\ UNCHANGED <<shape, prev, heights, length, hasDups, retired, todo, history>>

DemoteSucc(t) ==
    /\ pc[t] = "demotesucc"
    /\ LET me == loc[t]
       IN \/ /\ ~ Marked(me.node, me.high)
             /\ loc' = [loc EXCEPT ![t].succ = next[me.node, me.high]]
             /\ Goto(t, "demotecas")
          \/ Marked(me.node, me.high) /\ Ascend(t, me)
    /\ UNCHANGED <<shape, prev, heights, length, hasDups, retired, todo, history>>

DemoteCasBelow(t) ==                                                   \* mutant
    /\ pc[t] = "demotecas"
    /\ LET me == loc[t]  l == me.high - 1
       IN \/ Holds(me.pred, l, me.node) /\ Swing(me.pred, l, next[me.node, l])
             /\ Goto(t, "demotelow")
          \/ ~ Holds(me.pred, l, me.node) /\ Goto(t, "reread") /\ UNCHANGED next
    /\ UNCHANGED <<marked, height, prev, heights, length, hasDups, retired, todo, loc,
                   history>>
DemoteCas(t) ==
    /\ pc[t] = "demotecas"
    /\ LET me == loc[t]
       IN \/ /\ Holds(me.pred, me.high, me.node)
             /\ Swing(me.pred, me.high, me.succ)
             /\ Goto(t, "demotelow")
          \/ /\ ~ Holds(me.pred, me.high, me.node)
             /\ Goto(t, "reread")
             /\ UNCHANGED next
    /\ UNCHANGED <<marked, height, prev, heights, length, hasDups, retired, todo, loc,
                   history>>

\* A compare-and-swap of the height.
ReHeight(n, from, to) ==
    IF height[n] = from THEN height' = [height EXCEPT ![n] = to]
    ELSE UNCHANGED height

DemoteKeep(t) ==                                                       \* mutant
    /\ pc[t] = "demotelow" /\ Goto(t, "reread")
    /\ UNCHANGED <<shape, prev, heights, length, hasDups, retired, todo, loc, history>>
DemoteLow(t) ==
    /\ pc[t] = "demotelow"
    /\ ReHeight(loc[t].node, loc[t].high, loc[t].high - 1)
    /\ Goto(t, "reread")
    /\ UNCHANGED <<next, marked, prev, heights, length, hasDups, retired, todo, loc,
                   history>>

ReRead(t) ==
    /\ pc[t] = "reread"
    /\ Ascend(t, [loc[t] EXCEPT !.high = height[loc[t].node]])
    /\ UNCHANGED <<shape, prev, heights, length, hasDups, retired, todo, history>>
-----------------------------------------------------------------------------
(* Promotion: a node that would outgrow the list needs the list to grow    *)
(* first, by as many levels as its hits are worth, or stays as it is.      *)
Promote(t) ==
    /\ pc[t] = "promote"
    /\ LET outgrows == loc[t].high + 1 >= headHeight
       IN \/ ~ outgrows /\ Goto(t, "bump") /\ UNCHANGED loc
          \/ outgrows /\ Goto(t, "rebnext") /\ UNCHANGED loc
          \/ /\ outgrows
             /\ \E h \in headHeight + 1 .. MaxHeight - 1 :
                   loc' = [loc EXCEPT ![t].i = headHeight, ![t].bound = h]
             /\ Goto(t, "growhead")
    /\ UNCHANGED <<shape, prev, heights, length, hasDups, retired, todo, history>>

GrowHead(t) ==
    /\ pc[t] = "growhead"
    /\ \/ /\ headHeight = loc[t].i
          /\ headHeight' = loc[t].bound
          /\ loc' = [loc EXCEPT ![t].lvl = loc[t].i + 1]
          /\ Goto(t, "inithead")
       \/ headHeight # loc[t].i /\ Goto(t, "bump") /\ UNCHANGED <<headHeight, loc>>
    /\ UNCHANGED <<shape, prev, tailHeight, length, hasDups, retired, todo, history>>

\* Plain stores, one level after the other, and the tail's height last.
InitHead(t) ==
    /\ pc[t] = "inithead"
    /\ LET l == loc[t].lvl
       IN \/ /\ l <= loc[t].bound
             /\ Swing(Head, l, Tail)
             /\ loc' = [loc EXCEPT ![t].lvl = @ + 1]
             /\ UNCHANGED <<pc, tailHeight>>
          \/ /\ l > loc[t].bound
             /\ tailHeight' = loc[t].bound
             /\ loc' = [loc EXCEPT ![t].k = loc[t].bound]
             /\ Goto(t, "bump")
             /\ UNCHANGED next
    /\ UNCHANGED <<marked, height, prev, headHeight, length, hasDups, retired, todo,
                   history>>

\* The new height is published before the link.
Bump(t) ==
    /\ pc[t] = "bump"
    /\ \/ height[loc[t].node] = loc[t].high /\ Goto(t, "promotepred")
       \/ height[loc[t].node] # loc[t].high /\ Goto(t, "rebnext")
    /\ ReHeight(loc[t].node, loc[t].high, loc[t].high + 1)
    /\ UNCHANGED <<next, marked, prev, heights, length, hasDups, retired, todo, loc,
                   history>>

PromotePred(t) ==
    /\ pc[t] = "promotepred"
    /\ LET me == loc[t]  l == me.high + 1
           ok == HasPred(me, l) /\ Reaches(me.preds[l], l)
       IN \/ ok /\ Goto(t, "promotesucc") /\ loc' = [loc EXCEPT ![t].pred = me.preds[l]]
          \/ ~ ok /\ Goto(t, "revert") /\ UNCHANGED loc
    /\ UNCHANGED <<shape, prev, heights, length, hasDups, retired, todo, history>>

PromoteSucc(t) ==
    /\ pc[t] = "promotesucc"
    /\ LET w == <<loc[t].pred, loc[t].high + 1>>
       IN \/ w \notin marked /\ Goto(t, "promoteset")
             /\ loc' = [loc EXCEPT ![t].succ = next[w]]
          \/ w \in marked /\ Goto(t, "revert") /\ UNCHANGED loc
    /\ UNCHANGED <<shape, prev, heights, length, hasDups, retired, todo, history>>

\* A plain store, over a mark too.
PromoteSet(t) ==
    /\ pc[t] = "promoteset"
    /\ Swing(loc[t].node, loc[t].high + 1, loc[t].succ)
    /\ marked' = marked \ {<<loc[t].node, loc[t].high + 1>>}
    /\ Goto(t, "promotecas")
    /\ UNCHANGED <<height, prev, heights, length, hasDups, retired, todo, loc, history>>

PromoteCas(t) ==
    /\ pc[t] = "promotecas"
    /\ LET me == loc[t]  l == me.high + 1
       IN \/ /\ Holds(me.pred, l, me.succ)
             /\ Swing(me.pred, l, me.node)
             /\ Goto(t, "recheck")
          \/ ~ Holds(me.pred, l, me.succ) /\ Goto(t, "revert") /\ UNCHANGED next
    /\ UNCHANGED <<marked, height, prev, heights, length, hasDups, retired, todo, loc,
                   history>>

Revert(t) ==
    /\ pc[t] = "revert"
    /\ ReHeight(loc[t].node, loc[t].high + 1, loc[t].high)
    /\ Goto(t, "rebnext")
    /\ UNCHANGED <<next, marked, prev, heights, length, hasDups, retired, todo, loc,
                   history>>
-----------------------------------------------------------------------------
(* _skip_splay_recheck_published_: if the node was removed meanwhile, take *)
(* the link back, by one CAS or else by unlinking the node everywhere.     *)
Recheck(t) ==
    /\ pc[t] = "recheck"
    /\ \/ ~ Marked(loc[t].node, 0) /\ Goto(t, "rebnext")
       \/ Marked(loc[t].node, 0) /\ Goto(t, "undo")
    /\ UNCHANGED <<shape, prev, heights, length, hasDups, retired, todo, loc, history>>

Undo(t) ==
    /\ pc[t] = "undo"
    /\ loc' = [loc EXCEPT ![t].succ = next[loc[t].node, loc[t].high + 1]]
    /\ Goto(t, "undocas")
    /\ UNCHANGED <<shape, prev, heights, length, hasDups, retired, todo, history>>

UndoCas(t) ==
    /\ pc[t] = "undocas"
    /\ LET me == loc[t]  l == me.high + 1
       IN \/ /\ Holds(me.pred, l, me.node)
             /\ Swing(me.pred, l, me.succ)
             /\ Goto(t, "rebnext")
          \/ ~ Holds(me.pred, l, me.node) /\ Goto(t, "unlink") /\ UNCHANGED next
    /\ UNCHANGED <<marked, height, prev, heights, length, hasDups, retired, todo, loc,
                   history>>
-----------------------------------------------------------------------------
SplayStep(t) ==
    FoundAt(t) \/ Rebalance(t) \/ RebNode(t) \/ RebNext(t) \/ RebHeight(t)
    \/ DemotePred(t) \/ DemoteSucc(t) \/ DemoteCas(t) \/ DemoteLow(t) \/ ReRead(t)
    \/ Promote(t) \/ GrowHead(t) \/ InitHead(t) \/ Bump(t) \/ PromotePred(t)
    \/ PromoteSucc(t) \/ PromoteSet(t) \/ PromoteCas(t) \/ Revert(t)
    \/ Recheck(t) \/ Undo(t) \/ UndoCas(t)

SplayNext == CursorNext \/ \E t \in Threads : SplayCall(t) \/ SplayStep(t)
SplaySpec == Init /\ [][SplayNext]_vars

SplayPCs == CursorPCs \cup
    {"found", "rebnode", "rebnext", "rebheight", "demotepred", "demotesucc",
     "demotecas", "demotelow", "reread", "promote", "growhead", "inithead", "bump",
     "promotepred", "promotesucc", "promoteset", "promotecas", "revert", "recheck",
     "undo", "undocas"}
SplayTypeOK == TypeOKAt(SplayPCs)
=============================================================================
