------------------------------ MODULE Cursors -------------------------------
(***************************************************************************)
(* Reading the list in order: skip_position_{gte,gt,lte,lt}_, the loops    *)
(* SKIPLIST_FOREACH_H2T and _T2H, skip_to_array_ and skip_prev_validated_, *)
(* beside the calls of SkipList.                                           *)
(*                                                                         *)
(* A cursor call is pinned like any other.  What it may answer is stated   *)
(* with stay, the nodes in the list during the whole call, and was, those  *)
(* in it at some moment of the call.                                       *)
(***************************************************************************)
EXTENDS SkipList

CursorStart == [gte |-> "locate", gt |-> "locate", lte |-> "locate", lt |-> "locate",
                forward |-> "head", array |-> "head", backward |-> "tail",
                previous |-> "locate"]
CursorLocated == [gte |-> "position", gt |-> "position", lte |-> "position",
                  lt |-> "position", forward |-> "head", array |-> "head",
                  backward |-> "tail", previous |-> "hint"]

CursorCall(t) ==
    \E c \in UNION todo[t] :
        /\ c.op \in CursorOps
        /\ Begin(t, c, CursorStart[c.op], CursorLocated[c.op])

(* The cursor functions return NULL for the head and the tail.             *)
Answer(t, c) == Return(t, IF c \in Nodes THEN c ELSE Nil)

Op(t) == loc[t].call.op
-----------------------------------------------------------------------------
(* lt and lte answer from the path; gte and gt scan level 0 from the       *)
(* predecessor for the first unmarked node on the wanted side of the key.  *)
PositionLow(t) ==
    /\ pc[t] = "position" /\ Op(t) \in {"lte", "lt"}
    /\ \/ Op(t) = "lte" /\ loc[t].found # Nil /\ Answer(t, loc[t].found)
       \/ (Op(t) = "lt" \/ loc[t].found = Nil) /\ Answer(t, loc[t].preds[0])
    /\ UNCHANGED <<shape, prev, heights, length, hasDups, retired, todo>>

PositionHigh(t) ==
    /\ pc[t] = "position" /\ Op(t) \in {"gte", "gt"}
    /\ loc' = [loc EXCEPT ![t].curr = loc[t].preds[0]]
    /\ Goto(t, "scan")
    /\ UNCHANGED <<shape, prev, heights, length, hasDups, retired, todo, history>>

Scan(t) ==
    /\ pc[t] = "scan"
    /\ LET c == next[loc[t].curr, 0]
       IN \/ c = Tail /\ Answer(t, Tail)
          \/ /\ c # Tail
             /\ loc' = [loc EXCEPT ![t].curr = c]
             /\ Goto(t, "scantest")
             /\ UNCHANGED history
    /\ UNCHANGED <<shape, prev, heights, length, hasDups, retired, todo>>

WantedEqual(t, c) == ~ Before(c, Key(t))                               \* mutant
Wanted(t, c) == \/ Op(t) = "gte" /\ ~ Before(c, Key(t))
                \/ Op(t) = "gt" /\ After(c, Key(t))

ScanTest(t) ==
    /\ pc[t] = "scantest"
    /\ LET passed == Marked(loc[t].curr, 0) \/ ~ Wanted(t, loc[t].curr)
       IN \/ ~ passed /\ Answer(t, loc[t].curr)
          \/ passed /\ Goto(t, "scan") /\ UNCHANGED <<loc, history>>
    /\ UNCHANGED <<shape, prev, heights, length, hasDups, retired, todo>>
-----------------------------------------------------------------------------
(* SKIPLIST_FOREACH_H2T follows level 0 whatever the words' marks.         *)
(* skip_to_array_ stops at the length it read first.                       *)
ScanHead(t) ==
    /\ pc[t] = "head"
    /\ loc' = [loc EXCEPT ![t].curr = Head, ![t].k = length]
    /\ Goto(t, "forward")
    /\ UNCHANGED <<shape, prev, heights, length, hasDups, retired, todo, history>>

Full(t) == Op(t) = "array" /\ Cardinality(loc[t].met) >= loc[t].k

ForwardMarked(t) ==                                                    \* mutant
    /\ pc[t] = "forward"
    /\ LET c == next[loc[t].curr, 0]  end == c = Tail \/ Marked(loc[t].curr, 0)
       IN \/ end /\ Return(t, loc[t].met)
          \/ /\ ~ end
             /\ loc' = [loc EXCEPT ![t].curr = c, ![t].met = @ \cup {c}]
             /\ UNCHANGED <<pc, history>>
    /\ UNCHANGED <<shape, prev, heights, length, hasDups, retired, todo>>
Forward(t) ==
    /\ pc[t] = "forward"
    /\ LET c == next[loc[t].curr, 0]
       IN \/ (c = Tail \/ Full(t)) /\ Return(t, loc[t].met)
          \/ /\ c # Tail /\ ~ Full(t)
             /\ loc' = [loc EXCEPT ![t].curr = c, ![t].met = @ \cup {c}]
             /\ UNCHANGED <<pc, history>>
    /\ UNCHANGED <<shape, prev, heights, length, hasDups, retired, todo>>

(* SKIPLIST_FOREACH_T2H follows the backward hints; a null one would leave  *)
(* it stuck here.                                                          *)
ScanTail(t) ==
    /\ pc[t] = "tail"
    /\ loc' = [loc EXCEPT ![t].curr = Tail]
    /\ Goto(t, "backward")
    /\ UNCHANGED <<shape, prev, heights, length, hasDups, retired, todo, history>>

Follow(t) ==
    /\ pc[t] = "backward"
    /\ LET c == prev[loc[t].curr]
       IN \/ c = Head /\ Return(t, loc[t].met)
          \/ /\ c \in Nodes
             /\ loc' = [loc EXCEPT ![t].curr = c, ![t].met = @ \cup {c}]
             /\ UNCHANGED <<pc, history>>
    /\ UNCHANGED <<shape, prev, heights, length, hasDups, retired, todo>>
-----------------------------------------------------------------------------
(* skip_prev_validated_ of the node a lookup found: believe the hint if it *)
(* links to the node, or else look for the node from the head and repair   *)
(* the hint.                                                               *)
Hint(t) ==
    /\ pc[t] = "hint"
    /\ \/ loc[t].found = Nil /\ Answer(t, Nil)
       \/ /\ loc[t].found # Nil
          /\ loc' = [loc EXCEPT ![t].node = loc[t].found,
                                ![t].hint = prev[loc[t].found]]
          /\ Goto(t, "checkhint")
          /\ UNCHANGED history
    /\ UNCHANGED <<shape, prev, heights, length, hasDups, retired, todo>>

TrustHint(t) ==                                                        \* mutant
    /\ pc[t] = "checkhint" /\ Answer(t, loc[t].hint)
    /\ UNCHANGED <<shape, prev, heights, length, hasDups, retired, todo>>
CheckHint(t) ==
    /\ pc[t] = "checkhint"
    /\ LET p == loc[t].hint
           valid == p \notin {Nil, Tail} /\ Holds(p, 0, loc[t].node)
       IN \/ valid /\ Answer(t, p)
          \/ /\ ~ valid
             /\ loc' = [loc EXCEPT ![t].pred = Head, ![t].curr = Head]
             /\ Goto(t, "rescan")
             /\ UNCHANGED history
    /\ UNCHANGED <<shape, prev, heights, length, hasDups, retired, todo>>

Rescan(t) ==
    /\ pc[t] = "rescan"
    /\ LET c == next[loc[t].curr, 0]
       IN \/ c = Tail /\ Goto(t, "rehint") /\ UNCHANGED loc
          \/ /\ c = loc[t].node
             /\ loc' = [loc EXCEPT ![t].pred = loc[t].curr]
             /\ Goto(t, "rehint")
          \/ /\ c \notin {Tail, loc[t].node}
             /\ loc' = [loc EXCEPT ![t].curr = c]
             /\ UNCHANGED pc
    /\ UNCHANGED <<shape, prev, heights, length, hasDups, retired, todo, history>>

Rehint(t) ==
    /\ pc[t] = "rehint"
    /\ LET n == loc[t].node
       IN \/ prev[n] = loc[t].hint /\ prev' = [prev EXCEPT ![n] = loc[t].pred]
          \/ prev[n] # loc[t].hint /\ UNCHANGED prev
    /\ Answer(t, loc[t].pred)
    /\ UNCHANGED <<shape, heights, length, hasDups, retired, todo>>
-----------------------------------------------------------------------------
CursorStep(t) ==
    PositionLow(t) \/ PositionHigh(t) \/ Scan(t) \/ ScanTest(t) \/ ScanHead(t)
    \/ Forward(t) \/ ScanTail(t) \/ Follow(t) \/ Hint(t) \/ CheckHint(t)
    \/ Rescan(t) \/ Rehint(t)

CursorNext == Next \/ \E t \in Threads : CursorCall(t) \/ CursorStep(t)
CursorSpec == Init /\ [][CursorNext]_vars
-----------------------------------------------------------------------------
CursorPCs == PCs \cup {"position", "scan", "scantest", "head", "forward", "tail",
                       "backward", "hint", "checkhint", "rescan", "rehint"}
CursorTypeOK == TypeOKAt(CursorPCs)

(* The nodes a positioning call asks for, and those nearer than r.         *)
Asked(t, n) == CASE Op(t) = "gte" -> KeyOf[n] >= Key(t)
                 [] Op(t) = "gt"  -> KeyOf[n] > Key(t)
                 [] Op(t) = "lte" -> KeyOf[n] <= Key(t)
                 [] Op(t) = "lt"  -> KeyOf[n] < Key(t)
Nearer(t, n, r) ==
    \/ r = Nil
    \/ Op(t) \in {"gte", "gt"} /\ KeyOf[n] < KeyOf[r]
    \/ Op(t) \in {"lte", "lt"} /\ KeyOf[n] > KeyOf[r]

Returns(t, ops) == pc[t] # "idle" /\ pc'[t] = "idle" /\ Op(t) \in ops

(* A position answers with a node that was in the list while it ran, on    *)
(* the side asked for, and with no node between them that stayed.          *)
Positions ==
    [][\A t \in Threads :
          Returns(t, {"gte", "gt", "lte", "lt"}) =>
              LET r == result'[t]
              IN /\ r # Nil => r \in was[t] /\ Asked(t, r)
                 /\ \A n \in stay[t] : ~ (Asked(t, n) /\ Nearer(t, n, r))]_vars

(* A loop from head to tail goes up and meets every node that stayed.      *)
Traverses ==
    [][\A t \in Threads :
          /\ Returns(t, {"forward"}) => stay[t] \subseteq result'[t]
          /\ pc[t] = "forward" /\ loc'[t].curr \in Nodes \ {loc[t].curr} =>
                \A n \in loc[t].met : Ordered(n, loc'[t].curr)]_vars

(* A validated step back skips no node that stayed.                        *)
StepsBack ==
    [][\A t \in Threads :
          Returns(t, {"previous"}) /\ loc[t].node \in stay[t] =>
              \A n \in stay[t] :
                  ~ (KeyOf[n] < KeyOf[loc[t].node]
                     /\ (result'[t] = Nil \/ KeyOf[n] > KeyOf[result'[t]]))]_vars

(* When only one thread uses the list every traversal meets exactly the    *)
(* nodes in it.                                                            *)
MeetsAll ==
    [][\A t \in Threads :
          Threads = {t} /\ Returns(t, {"forward", "backward", "array"}) =>
              result'[t] = live]_vars
=============================================================================
