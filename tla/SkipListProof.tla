--------------------------- MODULE SkipListProof ---------------------------
(***************************************************************************)
(* Proofs about SkipList, Cursors and Splay together: the calls use        *)
(* deferred reclamation as it demands (Reclaimed), for any threads, nodes, *)
(* heights and calls.  A remove retires the node it marked at level 0, so  *)
(* the argument is that no step of any call takes a level-0 mark away --   *)
(* the plain stores of insert and splay hit upper levels only -- and that  *)
(* one remove at most gets past marking a node.                            *)
(***************************************************************************)
EXTENDS Splay, TLAPS

(* Positions, by the part of a call they belong to.  An unlink serves a    *)
(* remove, and a splay that takes back its link.  An insert that locates   *)
(* again to raise its node (ret = "relink") is never at NotRelinking.      *)
Locating   == {"locate", "locpred", "loccurr", "lochelp"}
Marking    == {"remove", "mark"}
Unlinking  == {"unlink", "sweep", "sweephead", "sweepcurr", "sweepcas", "verify",
               "verifycurr"}
Retiring   == {"unprev", "unprevcas", "uncount", "shrink", "shrinkcas", "shrinktail",
               "retire"}
RemoveOnly == Marking \cup Retiring \cup {"adjust"}
Demoting   == {"demotepred", "demotesucc", "demotecas", "demotelow"}
Moving     == Demoting \cup
              {"reread", "promote", "growhead", "inithead", "bump",
               "promotepred", "promotesucc", "promoteset", "promotecas", "revert",
               "recheck", "undo", "undocas"}
NotRelinking ==
    {"insert", "grow", "growtail", "link", "position", "found", "rebnode", "rebnext",
     "rebheight"} \cup Moving \cup Unlinking
Raising    == {"raise", "raiseset", "raisecas", "relink"}
Entries    == {"insert", "remove", "lookup", "head", "tail", "position", "hint",
               "found", "relink"}
Begun      == {"locate", "lookup", "head", "tail"}

(* Every thread has a position and the same locals.                        *)
LocalsKept ==
    /\ DOMAIN pc = Threads /\ DOMAIN loc = Threads
    /\ \A t \in Threads : DOMAIN loc[t] = DOMAIN NoLocals

Typed ==
    /\ height \in [Nodes -> Nat]
    /\ waiting \in [Nodes -> SUBSET Threads]

(* What a position says of the call and its locals.  The stores that clear *)
(* a mark are at level i of "raiseset" and above high at "promoteset".     *)
InCall(t) ==
    /\ loc[t].ret \in Entries
    /\ loc[t].ret = "remove" <=> Op(t) = "remove"
    /\ pc[t] \in RemoveOnly => Op(t) = "remove"
    /\ Op(t) = "remove" => pc[t] \in Locating \cup RemoveOnly \cup Unlinking
    /\ pc[t] \in {"mark", "adjust", "rebheight"} => loc[t].node \in Nodes
    /\ pc[t] \in Unlinking \cup Retiring \cup Moving => loc[t].node \in Nodes
    /\ pc[t] \in NotRelinking => loc[t].ret # "relink"
    /\ pc[t] \in Raising \/ (pc[t] \in Locating /\ loc[t].ret = "relink") =>
          loc[t].i \in Nat \ {0}
    /\ pc[t] \in Moving => loc[t].high \in Nat
    /\ pc[t] \in Demoting => loc[t].high > 0
PlaceInv(t) ==
    /\ loc[t].found \in Nodes \cup {Nil}
    /\ pc[t] # "idle" => InCall(t)

(* The thread runs a remove that has marked its node and not retired it.   *)
Removing(t) == pc[t] \in Unlinking \cup Retiring /\ Op(t) = "remove"

(* A retired node is marked; a node a remove is about to retire is marked, *)
(* not retired, and no other remove's.                                     *)
MarkInv ==
    /\ retired \subseteq Nodes
    /\ \A n \in retired : <<n, 0>> \in marked
    /\ \A t \in Threads : Removing(t) =>
          <<loc[t].node, 0>> \in marked /\ loc[t].node \notin retired
    /\ \A t, u \in Threads :
          Removing(t) /\ Removing(u) /\ loc[t].node = loc[u].node => t = u

Inv == LocalsKept /\ Typed /\ (\A t \in Threads : PlaceInv(t)) /\ MarkInv

(* What a step of one thread does that neither marks nor retires a node.   *)
Only(t) == \A u \in Threads \ {t} : pc'[u] = pc[u] /\ loc'[u] = loc[u]
Calm(t) ==
    /\ retired' = retired
    /\ \A n \in Nodes : <<n, 0>> \in marked => <<n, 0>> \in marked'
    /\ Removing(t)' => Removing(t) /\ loc'[t].node = loc[t].node
Pinned(t) ==
    /\ pc[t] # "idle"
    /\ waiting' = IF pc'[t] = "idle" THEN [n \in Nodes |-> waiting[n] \ {t}]
                  ELSE waiting
Frame(t)  == LocalsKept' /\ Typed' /\ Only(t) /\ PlaceInv(t)'
Effect(t) == Frame(t) /\ Calm(t) /\ Pinned(t)

(* The locals PlaceInv speaks of, but those named in S.                    *)
SameBut(t, me, S) ==
    /\ loc'[t].call = me.call /\ loc'[t].ret = me.ret
    /\ "found" \notin S => loc'[t].found = me.found
    /\ "node" \notin S => loc'[t].node = me.node
    /\ "i" \notin S => loc'[t].i = me.i
    /\ "high" \notin S => loc'[t].high = me.high
Same(t) == SameBut(t, loc[t], {})

(* These stay expanded: they name parts of what the lemmas state.          *)
USE DEF Effect, Frame, LocalsKept, Typed, Only, PlaceInv, InCall, Calm, Pinned,
        Removing, SameBut, Same, NoLocals, Locating, Marking, Unlinking, Retiring,
        RemoveOnly, Demoting, Moving, NotRelinking, Raising, Entries, Op

-----------------------------------------------------------------------------
(* The steps of a locate.                                                  *)
LEMMA LocPredEffect ==
    ASSUME LocalsKept, NEW t \in Threads, PlaceInv(t), Typed, LocPred(t)
    PROVE  Effect(t)
<1> HIDE DEF PlaceInv
<1>1. LocalsKept'
  <2> HIDE DEF NoLocals
  <2> QED
    BY DEF LocPred, Goto
<1>2. Typed'
  BY DEF LocPred, Goto, shape, history
<1>3. Only(t)
  BY DEF LocPred, Goto
<1>4. pc[t] = "locpred" /\ pc'[t] \in {"locate", "loccurr"}
  BY DEF LocPred, Goto
<1>5. Same(t)
  <2>1. \/ loc' = loc
        \/ \E c : loc' = [loc EXCEPT ![t].curr = c]
    BY DEF LocPred
  <2> QED BY <2>1
<1>6. PlaceInv(t)'
  BY <1>4, <1>5 DEF PlaceInv
<1>7. Calm(t)
  BY DEF LocPred, Goto, shape, history
<1>8. Pinned(t)
  BY DEF LocPred, Goto, shape, history
<1> HIDE DEF LocalsKept, Typed, Only, Calm, Pinned
<1> QED BY <1>1, <1>2, <1>3, <1>6, <1>7, <1>8

LEMMA LocAdvanceEffect ==
    ASSUME LocalsKept, NEW t \in Threads, PlaceInv(t), Typed, LocAdvance(t)
    PROVE  Effect(t)
<1> HIDE DEF PlaceInv
<1>1. LocalsKept'
  <2> HIDE DEF NoLocals
  <2> QED
    BY DEF LocAdvance
<1>2. Typed'
  BY DEF LocAdvance, shape, history
<1>3. Only(t)
  BY DEF LocAdvance
<1>4. pc[t] = "loccurr" /\ pc'[t] \in {"loccurr"}
  BY DEF LocAdvance
<1>5. Same(t)
  <2>1. \E p, c : loc' = [loc EXCEPT ![t].pred = p, ![t].curr = c] BY DEF LocAdvance
  <2> QED BY <2>1
<1>6. PlaceInv(t)'
  BY <1>4, <1>5 DEF PlaceInv
<1>7. Calm(t)
  BY DEF LocAdvance, shape, history
<1>8. Pinned(t)
  BY DEF LocAdvance, shape, history
<1> HIDE DEF LocalsKept, Typed, Only, Calm, Pinned
<1> QED BY <1>1, <1>2, <1>3, <1>6, <1>7, <1>8

LEMMA LocRecordEffect ==
    ASSUME LocalsKept, NEW t \in Threads, PlaceInv(t), Typed, LocRecord(t)
    PROVE  Effect(t)
<1> DEFINE l == loc[t].lvl
           here == [loc EXCEPT ![t].preds[l] = loc[t].pred, ![t].succs[l] = loc[t].curr]
           OneDown == loc' = [here EXCEPT ![t].lvl = l - 1]
           AtBottom == \E n \in {loc[t].curr, Nil} : loc' = [here EXCEPT ![t].found = n]
<1>0. OneDown \/ AtBottom BY DEF LocRecord
<1>1. LocalsKept'
  <2> HIDE DEF NoLocals
  <2>1. CASE OneDown BY <2>1 DEF LocRecord, Goto
  <2>2. CASE AtBottom BY <2>2 DEF LocRecord, Goto
  <2> QED BY <1>0, <2>1, <2>2
<1>2. Typed'
  BY DEF LocRecord, Goto, shape, history
<1>3. Only(t)
  <2>1. CASE OneDown BY <2>1 DEF LocRecord, Goto
  <2>2. CASE AtBottom BY <2>2 DEF LocRecord, Goto
  <2> QED BY <1>0, <2>1, <2>2
<1>6. PlaceInv(t)'
  BY DEF LocRecord, Goto, shape, history
<1>7. Calm(t)
  BY DEF LocRecord, Goto, shape, history
<1>8. Pinned(t)
  BY DEF LocRecord, Goto, shape, history
<1> HIDE DEF LocalsKept, Typed, Only, PlaceInv, Calm, Pinned
<1> QED BY <1>1, <1>2, <1>3, <1>6, <1>7, <1>8

LEMMA LocateEffect ==
    ASSUME LocalsKept, NEW t \in Threads, PlaceInv(t), Typed,
           LocStart(t) \/ LocPred(t) \/ LocMarked(t) \/ LocHelp(t) \/
           LocAdvance(t) \/ LocRecord(t)
    PROVE  Effect(t)
<1>1. CASE LocStart(t)
  BY <1>1 DEF LocStart, Goto, shape, history
<1>2. CASE LocPred(t) BY <1>2, LocPredEffect
<1>3. CASE LocMarked(t)
  BY <1>3 DEF LocMarked, Goto, shape, history
<1>4. CASE LocHelp(t)
  BY <1>4 DEF LocHelp, Goto, history
<1>5. CASE LocAdvance(t) BY <1>5, LocAdvanceEffect
<1>6. CASE LocRecord(t) BY <1>6, LocRecordEffect
<1> HIDE DEF Effect
<1> QED
  BY <1>1, <1>2, <1>3, <1>4, <1>5, <1>6

(* Of an insert.                                                           *)
LEMMA HelpedEffect ==
    ASSUME LocalsKept, NEW t \in Threads, Helped(t)
    PROVE  /\ LocalsKept' /\ Only(t) /\ SameBut(t, loc[t], {"i"})
           /\ pc'[t] \in {"prev", "raise", "help", "count"}
           /\ pc'[t] = "raise" => loc'[t].i = 1
  BY DEF Helped, Goto

LEMMA TossEffect ==
    ASSUME LocalsKept, NEW t \in Threads, PlaceInv(t), Typed, Toss(t)
    PROVE  Effect(t)
<1> HIDE DEF PlaceInv
<1>1. LocalsKept'
  <2> HIDE DEF NoLocals
  <2> QED
    BY DEF Toss, Goto
<1>2. Typed'
  <2>1. PICK h \in 0 .. MaxHeight - 2 : height' = [height EXCEPT ![Node(t)] = h]
    BY DEF Toss
  <2>2. waiting' = waiting BY DEF Toss, history
  <2>3. h \in Nat BY SkipListAssumption
  <2>4. height' \in [Nodes -> Nat] BY <2>1, <2>3 DEF Typed
  <2> QED BY <2>2, <2>4 DEF Typed
<1>3. Only(t)
  BY DEF Toss, Goto
<1>4. pc[t] = "insert" /\ pc'[t] \in {"grow", "link"}
  BY DEF Toss, Goto
<1>5. SameBut(t, loc[t], {"high"})
  <2> DEFINE preds(h) == [l \in Levels |->
                 IF l \in loc[t].top .. h THEN Head ELSE loc[t].preds[l]]
             succs(h) == [l \in Levels |->
                 IF l \in loc[t].top .. h THEN Tail ELSE loc[t].succs[l]]
  <2>1. PICK h : loc' = [loc EXCEPT ![t].preds = preds(h), ![t].succs = succs(h),
                                    ![t].high = h]
    BY DEF Toss
  <2> HIDE DEF preds, succs
  <2> QED BY <2>1
<1>6. PlaceInv(t)'
  BY <1>4, <1>5 DEF PlaceInv
<1>7. Calm(t)
  BY DEF Toss, Goto, history
<1>8. Pinned(t)
  BY DEF Toss, Goto, history
<1> HIDE DEF LocalsKept, Typed, Only, Calm, Pinned
<1> QED BY <1>1, <1>2, <1>3, <1>6, <1>7, <1>8

LEMMA HelpEffect ==
    ASSUME LocalsKept, NEW t \in Threads, PlaceInv(t), Typed, Help(t)
    PROVE  Effect(t)
<1> HIDE DEF PlaceInv
<1>1. LocalsKept'
  <2> HIDE DEF NoLocals
  <2> QED
    BY DEF Help, Helped, Goto
<1>2. Typed'
  BY DEF Help, Helped, Goto, shape, history
<1>3. Only(t)
  BY DEF Help, Helped, Goto
<1>4. /\ pc[t] = "help"
     /\ pc'[t] \in {"prev", "raise", "help", "count", "helpnext"}
  BY DEF Help, Helped, Goto
<1>5. SameBut(t, loc[t], {"i"}) /\ (pc'[t] = "raise" => loc'[t].i = 1)
  <2>1. CASE Helped(t) BY <2>1, HelpedEffect
  <2>2. CASE pc'[t] = "helpnext" /\ \E v : loc' = [loc EXCEPT ![t].succ = v] BY <2>2
  <2> QED BY <2>1, <2>2 DEF Help, Goto
<1>6. PlaceInv(t)'
  BY <1>4, <1>5 DEF PlaceInv
<1>7. Calm(t)
  BY DEF Help, Helped, Goto, shape, history
<1>8. Pinned(t)
  BY DEF Help, Helped, Goto, shape, history
<1> HIDE DEF LocalsKept, Typed, Only, Calm, Pinned
<1> QED BY <1>1, <1>2, <1>3, <1>6, <1>7, <1>8

LEMMA HelpNextEffect ==
    ASSUME LocalsKept, NEW t \in Threads, PlaceInv(t), Typed, HelpNext(t)
    PROVE  Effect(t)
<1> HIDE DEF PlaceInv
<1>1. LocalsKept'
  <2> HIDE DEF NoLocals
  <2> QED
    BY DEF HelpNext, Helped, Goto
<1>2. Typed'
  BY DEF HelpNext, Helped, Goto, shape, history
<1>3. Only(t)
  BY DEF HelpNext, Helped, Goto
<1>4. /\ pc[t] = "helpnext"
     /\ pc'[t] \in {"prev", "raise", "help", "count", "helpcas"}
  BY DEF HelpNext, Helped, Goto
<1>5. SameBut(t, loc[t], {"i"}) /\ (pc'[t] = "raise" => loc'[t].i = 1)
  <2>1. CASE Helped(t) BY <2>1, HelpedEffect
  <2>2. CASE pc'[t] = "helpcas" /\ \E v : loc' = [loc EXCEPT ![t].curr = v] BY <2>2
  <2> QED BY <2>1, <2>2 DEF HelpNext, Goto
<1>6. PlaceInv(t)'
  BY <1>4, <1>5 DEF PlaceInv
<1>7. Calm(t)
  BY DEF HelpNext, Helped, Goto, shape, history
<1>8. Pinned(t)
  BY DEF HelpNext, Helped, Goto, shape, history
<1> HIDE DEF LocalsKept, Typed, Only, Calm, Pinned
<1> QED BY <1>1, <1>2, <1>3, <1>6, <1>7, <1>8

LEMMA RaiseEffect ==
    ASSUME LocalsKept, NEW t \in Threads, PlaceInv(t), Typed, Raise(t)
    PROVE  Effect(t)
<1> HIDE DEF PlaceInv
<1>1. LocalsKept'
  <2> HIDE DEF NoLocals
  <2> QED
    BY DEF Raise, Goto
<1>2. Typed'
  BY DEF Raise, Goto, shape, history
<1>3. Only(t)
  BY DEF Raise, Goto
<1>4. pc[t] = "raise" /\ pc'[t] \in {"prev", "raisecas", "raiseset"}
  BY DEF Raise, Goto
<1>5. Same(t)
  BY DEF Raise, Goto
<1>6. PlaceInv(t)'
  BY <1>4, <1>5 DEF PlaceInv
<1>7. Calm(t)
  BY DEF Raise, Goto, shape, history
<1>8. Pinned(t)
  BY DEF Raise, Goto, shape, history
<1> HIDE DEF LocalsKept, Typed, Only, Calm, Pinned
<1> QED BY <1>1, <1>2, <1>3, <1>6, <1>7, <1>8

LEMMA PrevSuccEffect ==
    ASSUME LocalsKept, NEW t \in Threads, PlaceInv(t), Typed, PrevSucc(t)
    PROVE  Effect(t)
<1> HIDE DEF PlaceInv
<1>1. LocalsKept'
  <2> HIDE DEF NoLocals
  <2> QED
    BY DEF PrevSucc, Above, Goto
<1>2. Typed'
  BY DEF PrevSucc, Above, Goto, shape, history
<1>3. Only(t)
  BY DEF PrevSucc, Above, Goto
<1>4. pc[t] = "prevsucc" /\ pc'[t] \in {"help", "count", "prevcas"}
  BY DEF PrevSucc, Above, Goto
<1>5. SameBut(t, loc[t], {"i"})
  <2>1. \/ loc' = loc
        \/ \E c : loc' = [loc EXCEPT ![t].succ = c]
        \/ loc' = [loc EXCEPT ![t].i = 1]
    BY DEF PrevSucc, Above
  <2> QED BY <2>1
<1>6. PlaceInv(t)'
  BY <1>4, <1>5 DEF PlaceInv
<1>7. Calm(t)
  BY DEF PrevSucc, Above, Goto, shape, history
<1>8. Pinned(t)
  BY DEF PrevSucc, Above, Goto, shape, history
<1> HIDE DEF LocalsKept, Typed, Only, Calm, Pinned
<1> QED BY <1>1, <1>2, <1>3, <1>6, <1>7, <1>8

LEMMA InsertEffect ==
    ASSUME LocalsKept, NEW t \in Threads, PlaceInv(t), Typed,
           Exists(t) \/ Toss(t) \/ Grow(t) \/ GrowTail(t) \/ Link(t) \/ Help(t)
           \/ HelpNext(t) \/ HelpCas(t) \/ Raise(t) \/ RaiseSet(t) \/
           RaiseCas(t) \/ RaiseAgain(t) \/ Relink(t) \/ Prev(t) \/ PrevSucc(t)
           \/ PrevCas(t) \/ Count(t)
    PROVE  Effect(t)
<1>1. CASE Exists(t)
  BY <1>1 DEF Exists, Return, shape, Goto, NoLocals
<1>2. CASE Toss(t) BY <1>2, TossEffect
<1>3. CASE Grow(t)
  BY <1>3 DEF Grow, Goto, shape, history
<1>4. CASE GrowTail(t)
  BY <1>4 DEF GrowTail, Goto, shape, history
<1>5. CASE Link(t)
  BY <1>5 DEF Link, Becomes, Goto, history
<1>6. CASE Help(t) BY <1>6, HelpEffect
<1>7. CASE HelpNext(t) BY <1>7, HelpNextEffect
<1>8. CASE HelpCas(t)
  BY <1>8 DEF HelpCas, Goto, Helped, history
<1>9. CASE Raise(t) BY <1>9, RaiseEffect
<1>10. CASE RaiseSet(t)
  BY <1>10 DEF RaiseSet, Goto, history
<1>11. CASE RaiseCas(t)
  BY <1>11 DEF RaiseCas, Goto, history
<1>12. CASE RaiseAgain(t)
  BY <1>12 DEF RaiseAgain, Goto, shape, history
<1>13. CASE Relink(t)
  BY <1>13 DEF Relink, Goto, shape, history
<1>14. CASE Prev(t)
  BY <1>14 DEF Prev, Goto, shape, history
<1>15. CASE PrevSucc(t) BY <1>15, PrevSuccEffect
<1>16. CASE PrevCas(t)
  BY <1>16 DEF PrevCas, Above, shape, history, Goto
<1>17. CASE Count(t)
  BY <1>17 DEF Count, Return, shape, Goto, NoLocals
<1> HIDE DEF Effect
<1> QED
  BY <1>1, <1>2, <1>3, <1>4, <1>5, <1>6, <1>7, <1>8, <1>9, <1>10, <1>11,
     <1>12, <1>13, <1>14, <1>15, <1>16, <1>17

(* Of a remove, but the two that mark and retire the node.                 *)
LEMMA LevelSweptEffect ==
    ASSUME LocalsKept, NEW t \in Threads, NEW me, DOMAIN me = DOMAIN NoLocals,
           LevelSwept(t, me)
    PROVE  /\ LocalsKept' /\ Only(t) /\ SameBut(t, me, {})
           /\ pc'[t] \in {"sweephead", "sweep", "verify"}
  BY DEF LevelSwept, Goto

LEMMA SweepCurrEffect ==
    ASSUME LocalsKept, NEW t \in Threads, PlaceInv(t), Typed, SweepCurr(t)
    PROVE  Effect(t)
<1> HIDE DEF PlaceInv
<1>1. LocalsKept'
  <2> HIDE DEF NoLocals
  <2> QED
    BY DEF SweepCurr, Goto, LevelSwept
<1>2. Typed'
  BY DEF SweepCurr, Goto, LevelSwept, shape, history
<1>3. Only(t)
  BY DEF SweepCurr, Goto, LevelSwept
<1>4. /\ pc[t] = "sweepcurr"
     /\ pc'[t] \in {"sweepcas", "sweepcurr", "sweephead", "sweep", "verify"}
  BY DEF SweepCurr, Goto, LevelSwept
<1>5. InCall(t)
  BY <1>4 DEF PlaceInv
<1>6. Same(t)
  <2>1. CASE LevelSwept(t, loc[t]) BY <2>1, LevelSweptEffect
  <2>2. CASE \E v : loc' = [loc EXCEPT ![t].succ = v] BY <2>2
  <2>3. CASE \E p, c : loc' = [loc EXCEPT ![t].pred = p, ![t].curr = c] BY <2>3
  <2> QED BY <2>1, <2>2, <2>3 DEF SweepCurr
<1>7. PlaceInv(t)'
  BY <1>4, <1>6 DEF PlaceInv
<1>8. Calm(t)
  <2>1. retired' = retired /\ marked' = marked
    BY DEF SweepCurr, shape
  <2> QED BY <1>4, <1>5, <1>6, <2>1
<1>9. Pinned(t)
  BY DEF SweepCurr, Goto, LevelSwept, shape, history
<1> HIDE DEF LocalsKept, Typed, Only, Calm, Pinned
<1> QED BY <1>1, <1>2, <1>3, <1>7, <1>8, <1>9

LEMMA SweepCasEffect ==
    ASSUME LocalsKept, NEW t \in Threads, PlaceInv(t), Typed, SweepCas(t)
    PROVE  Effect(t)
<1> HIDE DEF PlaceInv
<1>1. LocalsKept'
  <2> HIDE DEF NoLocals
  <2> QED
    BY DEF SweepCas, LevelSwept, Goto
<1>2. Typed'
  BY DEF SweepCas, LevelSwept, Goto, history
<1>3. Only(t)
  BY DEF SweepCas, LevelSwept, Goto
<1>4. /\ pc[t] = "sweepcas"
     /\ pc'[t] \in {"sweepcas", "sweepcurr", "sweephead", "sweep", "verify"}
  BY DEF SweepCas, LevelSwept, Goto
<1>5. InCall(t)
  BY <1>4 DEF PlaceInv
<1>6. Same(t)
  <2> DEFINE me == [loc[t] EXCEPT !.again = TRUE]
  <2>1. CASE LevelSwept(t, loc[t]) BY <2>1, LevelSweptEffect
  <2>2. CASE LevelSwept(t, me)
    <3>1. DOMAIN me = DOMAIN NoLocals OBVIOUS
    <3>2. /\ me.call = loc[t].call /\ me.ret = loc[t].ret /\ me.found = loc[t].found
          /\ me.node = loc[t].node /\ me.i = loc[t].i /\ me.high = loc[t].high
      OBVIOUS
    <3> HIDE DEF me
    <3> QED BY <2>2, <3>1, <3>2, LevelSweptEffect
  <2>3. CASE \E c : loc' = [loc EXCEPT ![t].curr = c] BY <2>3
  <2> QED BY <2>1, <2>2, <2>3 DEF SweepCas
<1>7. PlaceInv(t)'
  BY <1>4, <1>6 DEF PlaceInv
<1>8. Calm(t)
  <2>1. retired' = retired /\ marked' = marked
    BY DEF SweepCas
  <2> QED BY <1>4, <1>5, <1>6, <2>1
<1>9. Pinned(t)
  BY DEF SweepCas, LevelSwept, Goto, history
<1> HIDE DEF LocalsKept, Typed, Only, Calm, Pinned
<1> QED BY <1>1, <1>2, <1>3, <1>7, <1>8, <1>9

LEMMA VerifyCurrEffect ==
    ASSUME LocalsKept, NEW t \in Threads, PlaceInv(t), Typed, VerifyCurr(t)
    PROVE  Effect(t)
<1> HIDE DEF PlaceInv
<1>1. LocalsKept'
  <2> HIDE DEF NoLocals
  <2> QED
    BY DEF VerifyCurr, Goto, Unlinked
<1>2. Typed'
  BY DEF VerifyCurr, Goto, Unlinked, shape, history
<1>3. Only(t)
  BY DEF VerifyCurr, Goto, Unlinked
<1>4. /\ pc[t] = "verifycurr"
     /\ pc'[t] \in {"sweep", "verifycurr", "verify", Unlinked(t)}
  BY DEF VerifyCurr, Goto, Unlinked
<1>5. InCall(t)
  BY <1>4 DEF PlaceInv
<1>6. Same(t)
  <2>1. \/ loc' = loc
        \/ \E c : loc' = [loc EXCEPT ![t].curr = c]
        \/ \E l : loc' = [loc EXCEPT ![t].lvl = l]
    BY DEF VerifyCurr
  <2> QED BY <2>1
<1>7. PlaceInv(t)'
  BY <1>4, <1>6 DEF PlaceInv, Unlinked
<1>8. Calm(t)
  <2>1. retired' = retired /\ marked' = marked
    BY DEF VerifyCurr, Unlinked, shape
  <2> QED BY <1>4, <1>5, <1>6, <2>1
<1>9. Pinned(t)
  BY DEF VerifyCurr, Goto, Unlinked, shape, history
<1> HIDE DEF LocalsKept, Typed, Only, Calm, Pinned
<1> QED BY <1>1, <1>2, <1>3, <1>7, <1>8, <1>9

LEMMA RemoveEffect ==
    ASSUME LocalsKept, NEW t \in Threads, PlaceInv(t), Typed,
           NoEntry(t) \/ Found(t) \/ Mark(t) \/ Unlink(t) \/ Sweep(t) \/
           SweepHead(t) \/ SweepCurr(t) \/ SweepCas(t) \/ VerifyHead(t) \/
           VerifyCurr(t) \/ UnPrev(t) \/ UnPrevCas(t) \/ UnCount(t) \/
           Shrink(t) \/ ShrinkCas(t) \/ ShrinkTail(t) \/ Adjust(t)
    PROVE  Effect(t)
<1>1. CASE NoEntry(t)
  BY <1>1 DEF NoEntry, Return, shape, Goto, NoLocals
<1>2. CASE Found(t)
  BY <1>2 DEF Found, Goto, shape, history
<1>3. CASE Mark(t)
  BY <1>3 DEF Mark, history
<1>4. CASE Unlink(t)
  BY <1>4 DEF Unlink, Goto, shape, history
<1>5. CASE Sweep(t)
  BY <1>5 DEF Sweep, Goto, shape, history
<1>6. CASE SweepHead(t)
  BY <1>6 DEF SweepHead, Goto, shape, history
<1>7. CASE SweepCurr(t) BY <1>7, SweepCurrEffect
<1>8. CASE SweepCas(t) BY <1>8, SweepCasEffect
<1>9. CASE VerifyHead(t)
  BY <1>9 DEF VerifyHead, Goto, shape, history
<1>10. CASE VerifyCurr(t) BY <1>10, VerifyCurrEffect
<1>11. CASE UnPrev(t)
  BY <1>11 DEF UnPrev, Goto, shape, history
<1>12. CASE UnPrevCas(t)
  BY <1>12 DEF UnPrevCas, Goto, shape, history
<1>13. CASE UnCount(t)
  BY <1>13 DEF UnCount, Goto, shape, history
<1>14. CASE Shrink(t)
  BY <1>14 DEF Shrink, Goto, shape, history
<1>15. CASE ShrinkCas(t)
  BY <1>15 DEF ShrinkCas, Goto, shape, history
<1>16. CASE ShrinkTail(t)
  BY <1>16 DEF ShrinkTail, Goto, shape, history
<1>17. CASE Adjust(t)
  BY <1>17 DEF Adjust, Return, shape, Goto, NoLocals
<1> HIDE DEF Effect
<1> QED
  BY <1>1, <1>2, <1>3, <1>4, <1>5, <1>6, <1>7, <1>8, <1>9, <1>10, <1>11,
     <1>12, <1>13, <1>14, <1>15, <1>16, <1>17

(* Of a lookup.                                                            *)
LEMMA LookDownEffect ==
    ASSUME LocalsKept, NEW t \in Threads, NEW r, LookDown(t, r)
    PROVE  IF pc'[t] = "idle" THEN loc'[t].found = Nil ELSE Same(t)
  BY DEF LookDown, Return, Goto

LEMMA LookPredEffect ==
    ASSUME LocalsKept, NEW t \in Threads, PlaceInv(t), Typed, LookPred(t)
    PROVE  Effect(t)
<1> HIDE DEF PlaceInv
<1>1. LocalsKept'
  <2> HIDE DEF NoLocals
  <2> QED
    BY DEF LookPred, Goto
<1>2. Typed'
  BY DEF LookPred, Goto, shape, history
<1>3. Only(t)
  BY DEF LookPred, Goto
<1>4. pc[t] = "lookpred" /\ pc'[t] \in {"lookup", "lookcurr"}
  BY DEF LookPred, Goto
<1>5. Same(t)
  <2>1. \/ loc' = loc
        \/ \E c : loc' = [loc EXCEPT ![t].curr = c]
    BY DEF LookPred
  <2> QED BY <2>1
<1>6. PlaceInv(t)'
  BY <1>4, <1>5 DEF PlaceInv
<1>7. Calm(t)
  BY DEF LookPred, Goto, shape, history
<1>8. Pinned(t)
  BY DEF LookPred, Goto, shape, history
<1> HIDE DEF LocalsKept, Typed, Only, Calm, Pinned
<1> QED BY <1>1, <1>2, <1>3, <1>6, <1>7, <1>8

LEMMA LookCurrEffect ==
    ASSUME LocalsKept, NEW t \in Threads, PlaceInv(t), Typed, LookCurr(t)
    PROVE  Effect(t)
<1> HIDE DEF PlaceInv
<1>1. LocalsKept'
  <2> HIDE DEF NoLocals
  <2> QED
    BY DEF LookCurr, Goto, LookDown, Return
<1>2. Typed'
  <2>1. height' = height
    BY DEF LookCurr, LookDown, Return, history, shape
  <2>2. waiting' = waiting \/ waiting' = [n \in Nodes |-> waiting[n] \ {t}]
    BY DEF LookCurr, LookDown, Return, history
  <2> QED BY <2>1, <2>2
<1>3. Only(t)
  BY DEF LookCurr, Goto, LookDown, Return
<1>4. /\ pc[t] = "lookcurr"
     /\ pc'[t] \in {"idle", "lookcurr", "lookdups", "lookpred"}
  BY DEF LookCurr, Goto, LookDown, Return
<1>5. /\ loc'[t].found \in Nodes \cup {Nil}
      /\ pc'[t] # "idle" => SameBut(t, loc[t], {"found"})
  <2> DEFINE me == loc[t]
  <2>1. me.found \in Nodes \cup {Nil} BY DEF PlaceInv
  <2>2. CASE \E p, c : loc' = [loc EXCEPT ![t].pred = p, ![t].curr = c] BY <2>1, <2>2
  <2>3. CASE \E c : loc' = [loc EXCEPT ![t].curr = c] BY <2>1, <2>3
  <2>4. CASE me.curr \in Nodes /\ loc' = [loc EXCEPT ![t].found = me.curr] BY <2>4
  <2>5. CASE LookDown(t, "missing") BY <2>1, <2>5, LookDownEffect
  <2> QED BY <2>2, <2>3, <2>4, <2>5 DEF LookCurr, Equal
<1>6. PlaceInv(t)'
  BY <1>4, <1>5 DEF PlaceInv
<1>7. Calm(t)
  BY DEF LookCurr, history, Goto, LookDown, shape, Return, NoLocals
<1>8. Pinned(t)
  BY DEF LookCurr, history, Goto, LookDown, shape, Return, NoLocals
<1> HIDE DEF LocalsKept, Typed, Only, Calm, Pinned
<1> QED BY <1>1, <1>2, <1>3, <1>6, <1>7, <1>8

LEMMA LookupEffect ==
    ASSUME LocalsKept, NEW t \in Threads, PlaceInv(t), Typed,
           LookStart(t) \/ LookPred(t) \/ LookCurr(t) \/ LookDups(t)
    PROVE  Effect(t)
<1>1. CASE LookStart(t)
  BY <1>1 DEF LookStart, Goto, shape, history
<1>2. CASE LookPred(t) BY <1>2, LookPredEffect
<1>3. CASE LookCurr(t) BY <1>3, LookCurrEffect
<1>4. CASE LookDups(t)
  BY <1>4 DEF LookDups, Return, LookDown, shape, Goto, NoLocals, history
<1> HIDE DEF Effect
<1> QED
  BY <1>1, <1>2, <1>3, <1>4

(* Of the cursor calls.                                                    *)
LEMMA ScanEffect ==
    ASSUME LocalsKept, NEW t \in Threads, PlaceInv(t), Typed, Scan(t)
    PROVE  Effect(t)
<1> HIDE DEF PlaceInv
<1>1. LocalsKept'
  <2> HIDE DEF NoLocals
  <2> QED
    BY DEF Scan, Answer, Goto, Return
<1>2. Typed'
  <2>1. height' = height
    BY DEF Scan, Answer, Return, history, shape
  <2>2. waiting' = waiting \/ waiting' = [n \in Nodes |-> waiting[n] \ {t}]
    BY DEF Scan, Answer, Return, history
  <2> QED BY <2>1, <2>2
<1>3. Only(t)
  BY DEF Scan, Answer, Goto, Return
<1>4. pc[t] = "scan" /\ pc'[t] \in {"idle", "scantest"}
  BY DEF Scan, Answer, Goto, Return
<1>5. IF pc'[t] = "idle" THEN loc'[t].found = Nil ELSE Same(t)
  <2>1. CASE Answer(t, Tail) BY <2>1 DEF Answer, Return, Goto
  <2>2. CASE pc'[t] # "idle" /\ \E c : loc' = [loc EXCEPT ![t].curr = c] BY <2>2
  <2> QED BY <2>1, <2>2 DEF Scan, Goto
<1>6. PlaceInv(t)'
  BY <1>4, <1>5 DEF PlaceInv
<1>7. Calm(t)
  BY DEF Scan, Answer, Goto, history, shape, Return, NoLocals
<1>8. Pinned(t)
  BY DEF Scan, Answer, Goto, history, shape, Return, NoLocals
<1> HIDE DEF LocalsKept, Typed, Only, Calm, Pinned
<1> QED BY <1>1, <1>2, <1>3, <1>6, <1>7, <1>8

LEMMA ScanTestEffect ==
    ASSUME LocalsKept, NEW t \in Threads, PlaceInv(t), Typed, ScanTest(t)
    PROVE  Effect(t)
<1> HIDE DEF PlaceInv
<1>1. LocalsKept'
  <2> HIDE DEF NoLocals
  <2> QED
    BY DEF ScanTest, Answer, Goto, Return
<1>2. Typed'
  <2>1. height' = height
    BY DEF ScanTest, Answer, Return, history, shape
  <2>2. waiting' = waiting \/ waiting' = [n \in Nodes |-> waiting[n] \ {t}]
    BY DEF ScanTest, Answer, Return, history
  <2> QED BY <2>1, <2>2
<1>3. Only(t)
  BY DEF ScanTest, Answer, Goto, Return
<1>4. pc[t] = "scantest" /\ pc'[t] \in {"idle", "scan"}
  BY DEF ScanTest, Answer, Goto, Return
<1>5. IF pc'[t] = "idle" THEN loc'[t].found = Nil ELSE Same(t)
  <2>1. CASE Answer(t, loc[t].curr) BY <2>1 DEF Answer, Return, Goto
  <2>2. CASE pc'[t] # "idle" /\ loc' = loc BY <2>2
  <2> QED BY <2>1, <2>2 DEF ScanTest, Goto
<1>6. PlaceInv(t)'
  BY <1>4, <1>5 DEF PlaceInv
<1>7. Calm(t)
  BY DEF ScanTest, Answer, Goto, history, shape, Return, NoLocals
<1>8. Pinned(t)
  BY DEF ScanTest, Answer, Goto, history, shape, Return, NoLocals
<1> HIDE DEF LocalsKept, Typed, Only, Calm, Pinned
<1> QED BY <1>1, <1>2, <1>3, <1>6, <1>7, <1>8

LEMMA ForwardEffect ==
    ASSUME LocalsKept, NEW t \in Threads, PlaceInv(t), Typed, Forward(t)
    PROVE  Effect(t)
<1> HIDE DEF PlaceInv
<1>1. LocalsKept'
  <2> HIDE DEF NoLocals
  <2> QED
    BY DEF Forward, Return, Goto
<1>2. Typed'
  <2>1. height' = height
    BY DEF Forward, Return, history, shape
  <2>2. waiting' = waiting \/ waiting' = [n \in Nodes |-> waiting[n] \ {t}]
    BY DEF Forward, Return, history
  <2> QED BY <2>1, <2>2
<1>3. Only(t)
  BY DEF Forward, Return, Goto
<1>4. pc[t] = "forward" /\ pc'[t] \in {"idle", "forward"}
  BY DEF Forward, Return, Goto
<1>5. IF pc'[t] = "idle" THEN loc'[t].found = Nil ELSE Same(t)
  <2>1. CASE Return(t, loc[t].met) BY <2>1 DEF Return, Goto
  <2>2. CASE pc' = pc /\ \E c, m : loc' = [loc EXCEPT ![t].curr = c, ![t].met = m]
    BY <1>4, <2>2
  <2> QED BY <2>1, <2>2 DEF Forward
<1>6. PlaceInv(t)'
  BY <1>4, <1>5 DEF PlaceInv
<1>7. Calm(t)
  BY DEF Forward, Return, history, shape, Goto, NoLocals
<1>8. Pinned(t)
  BY DEF Forward, Return, history, shape, Goto, NoLocals
<1> HIDE DEF LocalsKept, Typed, Only, Calm, Pinned
<1> QED BY <1>1, <1>2, <1>3, <1>6, <1>7, <1>8

LEMMA RescanEffect ==
    ASSUME LocalsKept, NEW t \in Threads, PlaceInv(t), Typed, Rescan(t)
    PROVE  Effect(t)
<1> HIDE DEF PlaceInv
<1>1. LocalsKept'
  <2> HIDE DEF NoLocals
  <2> QED
    BY DEF Rescan, Goto
<1>2. Typed'
  BY DEF Rescan, Goto, shape, history
<1>3. Only(t)
  BY DEF Rescan, Goto
<1>4. pc[t] = "rescan" /\ pc'[t] \in {"rehint", "rescan"}
  BY DEF Rescan, Goto
<1>5. Same(t)
  <2>1. \/ loc' = loc
        \/ loc' = [loc EXCEPT ![t].pred = loc[t].curr]
        \/ \E c : loc' = [loc EXCEPT ![t].curr = c]
    BY DEF Rescan
  <2> QED BY <2>1
<1>6. PlaceInv(t)'
  BY <1>4, <1>5 DEF PlaceInv
<1>7. Calm(t)
  BY DEF Rescan, Goto, shape, history
<1>8. Pinned(t)
  BY DEF Rescan, Goto, shape, history
<1> HIDE DEF LocalsKept, Typed, Only, Calm, Pinned
<1> QED BY <1>1, <1>2, <1>3, <1>6, <1>7, <1>8

LEMMA CursorStepEffect ==
    ASSUME LocalsKept, NEW t \in Threads, PlaceInv(t), Typed,
           PositionLow(t) \/ PositionHigh(t) \/ Scan(t) \/ ScanTest(t) \/
           ScanHead(t) \/ Forward(t) \/ ScanTail(t) \/ Follow(t) \/ Hint(t) \/
           CheckHint(t) \/ Rescan(t) \/ Rehint(t)
    PROVE  Effect(t)
<1>1. CASE PositionLow(t)
  BY <1>1 DEF PositionLow, Answer, shape, Return, Goto, NoLocals
<1>2. CASE PositionHigh(t)
  BY <1>2 DEF PositionHigh, Goto, shape, history
<1>3. CASE Scan(t) BY <1>3, ScanEffect
<1>4. CASE ScanTest(t) BY <1>4, ScanTestEffect
<1>5. CASE ScanHead(t)
  BY <1>5 DEF ScanHead, Goto, shape, history
<1>6. CASE Forward(t) BY <1>6, ForwardEffect
<1>7. CASE ScanTail(t)
  BY <1>7 DEF ScanTail, Goto, shape, history
<1>8. CASE Follow(t)
  BY <1>8 DEF Follow, Return, history, shape, Goto, NoLocals
<1>9. CASE Hint(t)
  BY <1>9 DEF Hint, Answer, Goto, history, shape, Return, NoLocals
<1>10. CASE CheckHint(t)
  BY <1>10 DEF CheckHint, Answer, Goto, history, shape, Return, NoLocals
<1>11. CASE Rescan(t) BY <1>11, RescanEffect
<1>12. CASE Rehint(t)
  BY <1>12 DEF Rehint, Answer, shape, Return, Goto, NoLocals
<1> HIDE DEF Effect
<1> QED
  BY <1>1, <1>2, <1>3, <1>4, <1>5, <1>6, <1>7, <1>8, <1>9, <1>10, <1>11,
     <1>12

(* Of splay rebalancing.                                                   *)
LEMMA RebNodeEffect ==
    ASSUME LocalsKept, NEW t \in Threads, PlaceInv(t), Typed, RebNode(t)
    PROVE  Effect(t)
<1> HIDE DEF PlaceInv
<1>1. LocalsKept'
  <2> HIDE DEF NoLocals
  <2> QED
    BY DEF RebNode, Goto
<1>2. Typed'
  BY DEF RebNode, Goto, shape, history
<1>3. Only(t)
  BY DEF RebNode, Goto
<1>4. /\ pc[t] = "rebnode"
     /\ pc'[t] \in {"rebnode", "rebheight"} \cup (Entries \ {"remove", "relink"})
  BY DEF RebNode, Goto, PlaceInv
<1>5. InCall(t)
  BY <1>4 DEF PlaceInv
<1>6. /\ SameBut(t, loc[t], {"node"})
      /\ pc'[t] = "rebheight" => loc'[t].node \in Nodes
  <2>1. CASE loc' = loc /\ pc'[t] = loc[t].ret BY <2>1, <1>5 DEF PlaceInv
  <2>2. CASE pc'[t] = "rebnode" /\ \E j : loc' = [loc EXCEPT ![t].idx = j] BY <2>2
  <2>3. CASE \E n \in Nodes : \E s : loc' = [loc EXCEPT ![t].node = n, ![t].share = s]
    BY <2>3
  <2> QED BY <2>1, <2>2, <2>3 DEF RebNode, Goto
<1>7. PlaceInv(t)'
  BY <1>4, <1>6 DEF PlaceInv
<1>8. Calm(t)
  <2>1. retired' = retired /\ marked' = marked
    BY DEF RebNode, shape
  <2> QED BY <1>4, <1>5, <1>6, <2>1
<1>9. Pinned(t)
  BY <1>4, <1>5 DEF RebNode, history
<1> HIDE DEF LocalsKept, Typed, Only, Calm, Pinned
<1> QED BY <1>1, <1>2, <1>3, <1>7, <1>8, <1>9

LEMMA RebHeightEffect ==
    ASSUME LocalsKept, NEW t \in Threads, PlaceInv(t), Typed, RebHeight(t)
    PROVE  Effect(t)
<1> HIDE DEF PlaceInv
<1>1. LocalsKept'
  <2> HIDE DEF NoLocals
  <2> QED
    BY DEF RebHeight, Goto, Ascend
<1>2. Typed'
  BY DEF RebHeight, Goto, Ascend, shape, history
<1>3. Only(t)
  BY DEF RebHeight, Goto, Ascend
<1>4. pc[t] = "rebheight" /\ pc'[t] \in {"demotepred", "promote", "rebnext"}
  BY DEF RebHeight, Goto, Ascend
<1>5. /\ SameBut(t, loc[t], {"high"}) /\ loc'[t].high = height[loc[t].node]
      /\ pc'[t] = "demotepred" => loc'[t].high > 0
  BY DEF RebHeight, Goto, Ascend, TooHigh
<1>6. PlaceInv(t)'
  BY <1>4, <1>5 DEF PlaceInv
<1>7. Calm(t)
  BY DEF RebHeight, Goto, Ascend, shape, history
<1>8. Pinned(t)
  BY DEF RebHeight, Goto, Ascend, shape, history
<1> HIDE DEF LocalsKept, Typed, Only, Calm, Pinned
<1> QED BY <1>1, <1>2, <1>3, <1>6, <1>7, <1>8

LEMMA DemoteSuccEffect ==
    ASSUME LocalsKept, NEW t \in Threads, PlaceInv(t), Typed, DemoteSucc(t)
    PROVE  Effect(t)
<1> HIDE DEF PlaceInv
<1>1. LocalsKept'
  <2> HIDE DEF NoLocals
  <2> QED
    BY DEF DemoteSucc, Goto, Ascend
<1>2. Typed'
  BY DEF DemoteSucc, Goto, Ascend, shape, history
<1>3. Only(t)
  BY DEF DemoteSucc, Goto, Ascend
<1>4. pc[t] = "demotesucc" /\ pc'[t] \in {"demotecas", "promote", "rebnext"}
  BY DEF DemoteSucc, Goto, Ascend
<1>5. Same(t)
  <2>1. \/ loc' = [loc EXCEPT ![t] = loc[t]]
        \/ \E c : loc' = [loc EXCEPT ![t].succ = c]
    BY DEF DemoteSucc, Ascend
  <2> QED BY <2>1
<1>6. PlaceInv(t)'
  BY <1>4, <1>5 DEF PlaceInv
<1>7. Calm(t)
  BY DEF DemoteSucc, Goto, Ascend, shape, history
<1>8. Pinned(t)
  BY DEF DemoteSucc, Goto, Ascend, shape, history
<1> HIDE DEF LocalsKept, Typed, Only, Calm, Pinned
<1> QED BY <1>1, <1>2, <1>3, <1>6, <1>7, <1>8

LEMMA SplayStepEffect ==
    ASSUME LocalsKept, NEW t \in Threads, PlaceInv(t), Typed,
           FoundAt(t) \/ Rebalance(t) \/ RebNode(t) \/ RebNext(t) \/
           RebHeight(t) \/ DemotePred(t) \/ DemoteSucc(t) \/ DemoteCas(t) \/
           DemoteLow(t) \/ ReRead(t) \/ Promote(t) \/ GrowHead(t) \/
           InitHead(t) \/ Bump(t) \/ PromotePred(t) \/ PromoteSucc(t) \/
           PromoteSet(t) \/ PromoteCas(t) \/ Revert(t) \/ Recheck(t) \/ Undo(t)
           \/ UndoCas(t)
    PROVE  Effect(t)
<1>1. CASE FoundAt(t)
  BY <1>1 DEF FoundAt, Return, shape, Goto, NoLocals
<1>2. CASE Rebalance(t)
  BY <1>2 DEF Rebalance, Goto, shape, history
<1>3. CASE RebNode(t) BY <1>3, RebNodeEffect
<1>4. CASE RebNext(t)
  BY <1>4 DEF RebNext, Goto, shape, history
<1>5. CASE RebHeight(t) BY <1>5, RebHeightEffect
<1>6. CASE DemotePred(t)
  BY <1>6 DEF DemotePred, Goto, Ascend, shape, history
<1>7. CASE DemoteSucc(t) BY <1>7, DemoteSuccEffect
<1>8. CASE DemoteCas(t)
  BY <1>8 DEF DemoteCas, Goto, history
<1>9. CASE DemoteLow(t)
  BY <1>9 DEF DemoteLow, ReHeight, Goto, history
<1>10. CASE ReRead(t)
  BY <1>10 DEF ReRead, Ascend, shape, history, Goto
<1>11. CASE Promote(t)
  BY <1>11 DEF Promote, Goto, shape, history
<1>12. CASE GrowHead(t)
  BY <1>12 DEF GrowHead, Goto, shape, history
<1>13. CASE InitHead(t)
  BY <1>13 DEF InitHead, Goto, history
<1>14. CASE Bump(t)
  BY <1>14 DEF Bump, Goto, ReHeight, history
<1>15. CASE PromotePred(t)
  BY <1>15 DEF PromotePred, Goto, shape, history
<1>16. CASE PromoteSucc(t)
  BY <1>16 DEF PromoteSucc, Goto, shape, history
<1>17. CASE PromoteSet(t)
  BY <1>17 DEF PromoteSet, Goto, history
<1>18. CASE PromoteCas(t)
  BY <1>18 DEF PromoteCas, Goto, history
<1>19. CASE Revert(t)
  BY <1>19 DEF Revert, ReHeight, Goto, history
<1>20. CASE Recheck(t)
  BY <1>20 DEF Recheck, Goto, shape, history
<1>21. CASE Undo(t)
  BY <1>21 DEF Undo, Goto, shape, history
<1>22. CASE UndoCas(t)
  BY <1>22 DEF UndoCas, Goto, history
<1> HIDE DEF Effect
<1> QED
  BY <1>1, <1>2, <1>3, <1>4, <1>5, <1>6, <1>7, <1>8, <1>9, <1>10, <1>11,
     <1>12, <1>13, <1>14, <1>15, <1>16, <1>17, <1>18, <1>19, <1>20, <1>21,
     <1>22

-----------------------------------------------------------------------------
(* A call begins where it may, with a valid way to go on.                  *)
LEMMA BeginEffect ==
    ASSUME LocalsKept, Typed, NEW t \in Threads, PlaceInv(t),
           NEW c, NEW start \in Begun, NEW located \in Entries \ {"relink"},
           located = "remove" <=> c.op = "remove",
           c.op = "remove" => start = "locate",
           Begin(t, c, start, located)
    PROVE  /\ Frame(t) /\ Calm(t) /\ waiting' = waiting
           /\ pc[t] = "idle" /\ pc'[t] # "idle"
<1>1. pc[t] = "idle" /\ pc'[t] = start
  BY DEF Begin, Goto, Begun
<1>2. loc'[t].call = c /\ loc'[t].ret = located /\ loc'[t].found = loc[t].found
  BY DEF Begin
<1>3. LocalsKept'
  <2> HIDE DEF NoLocals, PlaceInv
  <2> QED BY DEF Begin, Goto
<1>4. Typed' BY DEF Begin, shape
<1>5. Only(t) BY DEF Begin, Goto
<1>6. PlaceInv(t)' BY <1>1, <1>2 DEF Begun
<1>7. Calm(t)
  <2>1. retired' = retired /\ marked' = marked BY DEF Begin, shape
  <2> QED BY <1>1, <1>2, <2>1 DEF Begun
<1>8. waiting' = waiting BY DEF Begin
<1> HIDE DEF LocalsKept, Typed, Only, PlaceInv, Calm
<1> QED BY <1>1, <1>3, <1>4, <1>5, <1>6, <1>7, <1>8 DEF Begun

LEMMA CallEffect ==
    ASSUME LocalsKept, Typed, NEW t \in Threads, PlaceInv(t),
           Call(t) \/ CursorCall(t) \/ SplayCall(t)
    PROVE  /\ Frame(t) /\ Calm(t) /\ waiting' = waiting
           /\ pc[t] = "idle" /\ pc'[t] # "idle"
<1> HIDE DEF LocalsKept, Typed, PlaceInv, Frame, Calm
<1>1. CASE Call(t)
  <2>1. PICK c : c.op \in DOMAIN Start /\ Begin(t, c, Start[c.op], Located[c.op])
    BY <1>1 DEF Call
  <2>2. /\ Start[c.op] \in Begun /\ Located[c.op] \in Entries \ {"relink"}
        /\ Located[c.op] = "remove" <=> c.op = "remove"
        /\ c.op = "remove" => Start[c.op] = "locate"
    BY <2>1 DEF Start, Located, Begun
  <2> QED BY <2>1, <2>2, BeginEffect
<1>2. CASE CursorCall(t)
  <2>1. PICK c : /\ c.op \in CursorOps
                 /\ Begin(t, c, CursorStart[c.op], CursorLocated[c.op])
    BY <1>2 DEF CursorCall
  <2>2. /\ CursorStart[c.op] \in Begun
        /\ CursorLocated[c.op] \in Entries \ {"relink"}
        /\ CursorLocated[c.op] # "remove" /\ c.op # "remove"
    BY <2>1 DEF CursorStart, CursorLocated, CursorOps, Begun
  <2> QED BY <2>1, <2>2, BeginEffect
<1>3. CASE SplayCall(t)
  <2>1. PICK c : c.op = "contains" /\ Begin(t, c, "locate", "found")
    BY <1>3 DEF SplayCall
  <2> QED BY <2>1, BeginEffect DEF Begun
<1> QED BY <1>1, <1>2, <1>3

(* The threads in a call.                                                  *)
InCalls == {u \in Threads : pc[u] # "idle"}

(* The two steps that change what MarkInv speaks of.                       *)
LEMMA Mark0Effect ==
    ASSUME LocalsKept, NEW t \in Threads, PlaceInv(t), Typed, Mark0(t)
    PROVE  /\ Frame(t) /\ Pinned(t) /\ retired' = retired
           /\ \/ Calm(t)
              \/ /\ marked' = marked \cup {<<loc[t].node, 0>>}
                 /\ ~ Marked(loc[t].node, 0)
                 /\ ~ Removing(t)
                 /\ loc'[t].node = loc[t].node /\ loc[t].node \in Nodes
<1> HIDE DEF PlaceInv
<1>1. pc[t] = "mark" BY DEF Mark0
<1>2. InCall(t) BY <1>1 DEF PlaceInv
<1>3. CASE /\ ~ Marked(loc[t].node, 0) /\ marked' = marked \cup {<<loc[t].node, 0>>}
           /\ Becomes(live \ {loc[t].node}) /\ Goto(t, "unlink") /\ UNCHANGED loc
  <2>1. LocalsKept' /\ Typed' /\ Only(t) BY <1>3 DEF Mark0, Goto, Becomes
  <2>2. PlaceInv(t)' BY <1>1, <1>2, <1>3 DEF Goto, PlaceInv
  <2>3. Pinned(t) BY <1>1, <1>3 DEF Goto, Becomes
  <2>4. retired' = retired BY DEF Mark0
  <2>5. ~ Removing(t) BY <1>1
  <2>6. loc[t].node \in Nodes BY <1>1, <1>2
  <2> HIDE DEF LocalsKept, Typed, Only, Pinned, Removing
  <2> QED BY <1>3, <2>1, <2>2, <2>3, <2>4, <2>5, <2>6
<1>4. CASE Return(t, "ok") /\ UNCHANGED marked
  <2>1. LocalsKept' BY <1>4 DEF Return, Goto
  <2>2. Typed' BY <1>4 DEF Return, Mark0
  <2>3. Only(t) BY <1>4 DEF Return, Goto
  <2>4. PlaceInv(t)' BY <1>4 DEF Return, Goto, PlaceInv
  <2>5. retired' = retired BY DEF Mark0
  <2>6. Calm(t) BY <1>4, <2>5 DEF Return, Goto
  <2>7. Pinned(t) BY <1>1, <1>4 DEF Return, Goto
  <2> HIDE DEF LocalsKept, Typed, Only, Calm, Pinned
  <2> QED BY <2>1, <2>2, <2>3, <2>4, <2>5, <2>6, <2>7
<1> QED BY <1>3, <1>4 DEF Mark0

LEMMA RetireEffect ==
    ASSUME LocalsKept, NEW t \in Threads, PlaceInv(t), Typed, Retire(t)
    PROVE  /\ Frame(t)
           /\ Removing(t) /\ loc[t].node \in Nodes /\ ~ Removing(t)'
           /\ pc[t] # "idle" /\ pc'[t] # "idle"
           /\ retired' = retired \cup {loc[t].node} /\ marked' = marked
           /\ waiting' = [waiting EXCEPT ![loc[t].node] = InCalls]
<1>1. pc[t] = "retire" /\ pc'[t] = "adjust" /\ loc' = loc BY DEF Retire, Goto
<1>2. InCall(t) BY <1>1
<1>3. Removing(t) /\ loc[t].node \in Nodes /\ ~ Removing(t)' BY <1>1, <1>2
<1>4. LocalsKept' /\ Only(t) BY <1>1 DEF Retire, Goto
<1>5. PlaceInv(t)' BY <1>1, <1>2
<1>6. /\ retired' = retired \cup {loc[t].node} /\ marked' = marked
      /\ waiting' = [waiting EXCEPT ![loc[t].node] = InCalls]
  BY DEF Retire, shape, InCalls
<1>7. Typed'
  <2>1. height' = height BY DEF Retire, shape
  <2>2. InCalls \in SUBSET Threads BY DEF InCalls
  <2> QED BY <1>6, <2>1, <2>2
<1> HIDE DEF LocalsKept, Typed, Only, PlaceInv, Removing
<1> QED BY <1>1, <1>3, <1>4, <1>5, <1>6, <1>7

-----------------------------------------------------------------------------
(* A step of one thread leaves what is known of the others.                *)
LEMMA OthersKept ==
    ASSUME LocalsKept, NEW t \in Threads, Only(t), NEW u \in Threads \ {t}
    PROVE  /\ PlaceInv(u) => PlaceInv(u)'
           /\ Removing(u)' <=> Removing(u)
           /\ loc'[u].node = loc[u].node
  BY DEF PlaceInv

LEMMA PlacesKept ==
    ASSUME LocalsKept, \A u \in Threads : PlaceInv(u),
           NEW t \in Threads, Only(t), PlaceInv(t)'
    PROVE  \A u \in Threads : PlaceInv(u)'
<1> HIDE DEF LocalsKept, PlaceInv, Only
<1> QED BY OthersKept

LEMMA RemovingNode ==
    ASSUME NEW t \in Threads, PlaceInv(t), Removing(t)
    PROVE  loc[t].node \in Nodes
  OBVIOUS

LEMMA CalmKeepsMarks ==
    ASSUME LocalsKept, MarkInv, \A u \in Threads : PlaceInv(u),
           NEW t \in Threads, Only(t), Calm(t)
    PROVE  MarkInv'
<1> USE DEF MarkInv
<1> HIDE DEF LocalsKept, PlaceInv, Only, Removing
<1>1. \A u \in Threads : Removing(u)' => Removing(u) /\ loc'[u].node = loc[u].node
  BY OthersKept
<1>2. \A u \in Threads : Removing(u) => loc[u].node \in Nodes
  BY RemovingNode
<1> QED BY <1>1, <1>2

LEMMA Mark0KeepsMarks ==
    ASSUME LocalsKept, MarkInv, \A u \in Threads : PlaceInv(u), Typed,
           NEW t \in Threads, Mark0(t)
    PROVE  MarkInv'
<1> USE DEF MarkInv
<1> HIDE DEF LocalsKept, Typed, PlaceInv, Only, Removing, Calm, Pinned
<1>1. Only(t) /\ retired' = retired BY Mark0Effect
<1>2. CASE Calm(t) BY <1>1, <1>2, CalmKeepsMarks
<1>3. CASE /\ marked' = marked \cup {<<loc[t].node, 0>>} /\ ~ Marked(loc[t].node, 0)
           /\ loc'[t].node = loc[t].node
  <2>1. \A u \in Threads : /\ loc'[u].node = loc[u].node
                           /\ u # t => (Removing(u)' <=> Removing(u))
    BY <1>1, <1>3, OthersKept
  <2>2. loc[t].node \notin retired BY <1>3 DEF Marked
  <2>3. \A u \in Threads \ {t} : Removing(u) => loc[u].node # loc[t].node
    BY <1>3 DEF Marked
  <2> QED BY <1>1, <1>3, <2>1, <2>2, <2>3
<1> QED BY <1>2, <1>3, Mark0Effect

LEMMA RetireKeepsMarks ==
    ASSUME LocalsKept, MarkInv, \A u \in Threads : PlaceInv(u), Typed,
           NEW t \in Threads, Retire(t)
    PROVE  MarkInv'
<1> USE DEF MarkInv
<1> HIDE DEF LocalsKept, Typed, PlaceInv, Only, Removing
<1>1. /\ Only(t) /\ Removing(t) /\ ~ Removing(t)' /\ loc[t].node \in Nodes
      /\ retired' = retired \cup {loc[t].node} /\ marked' = marked
  BY RetireEffect
<1>2. \A u \in Threads : Removing(u)' =>
         u # t /\ Removing(u) /\ loc'[u].node = loc[u].node
  BY <1>1, OthersKept
<1> QED BY <1>1, <1>2

(* Every step that is not a call's first or a retirement.                  *)
LEMMA StepEffect ==
    ASSUME LocalsKept, NEW t \in Threads, PlaceInv(t), Typed,
           Step(t) \/ CursorStep(t) \/ SplayStep(t), ~ Mark0(t), ~ Retire(t)
    PROVE  Effect(t)
<1> HIDE DEF LocalsKept, Typed, PlaceInv, Effect
<1>1. CASE Locate(t) BY <1>1, LocateEffect DEF Locate
<1>2. CASE Insert(t) BY <1>2, InsertEffect DEF Insert
<1>3. CASE Remove(t) BY <1>3, RemoveEffect DEF Remove
<1>4. CASE Lookup(t) BY <1>4, LookupEffect DEF Lookup
<1>5. CASE CursorStep(t) BY <1>5, CursorStepEffect DEF CursorStep
<1>6. CASE SplayStep(t) BY <1>6, SplayStepEffect DEF SplayStep
<1> QED BY <1>1, <1>2, <1>3, <1>4, <1>5, <1>6 DEF Step

(* The step of SplayNext, by what it does to the reclamation.              *)
LEMMA NextCases ==
    ASSUME SplayNext
    PROVE  \/ UNCHANGED vars
           \/ \E t \in Threads :
                 \/ Call(t) \/ CursorCall(t) \/ SplayCall(t)
                 \/ Mark0(t) \/ Retire(t)
                 \/ /\ Step(t) \/ CursorStep(t) \/ SplayStep(t)
                    /\ ~ Mark0(t) /\ ~ Retire(t)
  BY DEF SplayNext, CursorNext, Next, Finished

LEMMA InvNext ==
    ASSUME Inv, [SplayNext]_vars
    PROVE  Inv'
<1> USE DEF Inv
<1> HIDE DEF LocalsKept, Typed, PlaceInv, Only, Removing, Calm, Pinned
<1>1. ASSUME NEW t \in Threads, Call(t) \/ CursorCall(t) \/ SplayCall(t) PROVE Inv'
  <2>1. Frame(t) /\ Calm(t) BY <1>1, CallEffect
  <2> QED BY <2>1, PlacesKept, CalmKeepsMarks
<1>2. ASSUME NEW t \in Threads, Mark0(t) PROVE Inv'
  <2>1. Frame(t) BY <1>2, Mark0Effect
  <2> QED BY <1>2, <2>1, PlacesKept, Mark0KeepsMarks
<1>3. ASSUME NEW t \in Threads, Retire(t) PROVE Inv'
  <2>1. Frame(t) BY <1>3, RetireEffect
  <2> QED BY <1>3, <2>1, PlacesKept, RetireKeepsMarks
<1>4. ASSUME NEW t \in Threads, Step(t) \/ CursorStep(t) \/ SplayStep(t),
             ~ Mark0(t), ~ Retire(t)
      PROVE  Inv'
  <2>1. Effect(t) BY <1>4, StepEffect
  <2> QED BY <2>1, PlacesKept, CalmKeepsMarks
<1>5. CASE UNCHANGED vars
  BY <1>5 DEF vars, shape, history, LocalsKept, Typed, PlaceInv, Removing, MarkInv
<1> HIDE DEF Inv
<1> QED BY <1>1, <1>2, <1>3, <1>4, <1>5, NextCases

LEMMA InvInit == ASSUME Init PROVE Inv
<1>1. LocalsKept BY DEF Init
<1>2. Typed
  <2>1. \A n \in DOMAIN Built : Built[n] \in Nat BY SkipListAssumption
  <2> QED BY <2>1 DEF Init
<1>3. \A t \in Threads : PlaceInv(t) BY DEF Init
<1>4. MarkInv BY DEF Init, MarkInv
<1> HIDE DEF LocalsKept, Typed, PlaceInv
<1> QED BY <1>1, <1>2, <1>3, <1>4 DEF Inv

(* With splay, cursors and all: a node handed to reclamation is logically  *)
(* deleted, a remove hands over only the node it marked itself, and no two *)
(* removes get hold of one node (skip_remove_node_, phase 2).              *)
THEOREM RemovesApart == SplaySpec => []MarkInv
<1>1. Inv => MarkInv BY DEF Inv
<1> QED BY <1>1, InvInit, InvNext, PTL DEF SplaySpec

-----------------------------------------------------------------------------
(* The refinement: the pinned threads are those in a call.                 *)
Status  == [n \in Nodes |-> IF n \in retired THEN "retired" ELSE "linked"]

LEMMA PinnedKept ==
    ASSUME NEW t \in Threads, Only(t)
    PROVE  /\ pc[t] = "idle" /\ pc'[t] # "idle" => InCalls' = InCalls \cup {t}
           /\ pc[t] # "idle" /\ pc'[t] = "idle" => InCalls' = InCalls \ {t}
           /\ pc[t] # "idle" /\ pc'[t] # "idle" => InCalls' = InCalls
  BY DEF InCalls

LEMMA ReclaimStep ==
    ASSUME Inv, [SplayNext]_vars
    PROVE  \/ \E t \in Threads :
                 \/ /\ t \notin InCalls /\ InCalls' = InCalls \cup {t}
                    /\ UNCHANGED <<Status, waiting>>
                 \/ /\ t \in InCalls /\ InCalls' = InCalls \ {t}
                    /\ waiting' = [n \in Nodes |-> waiting[n] \ {t}]
                    /\ UNCHANGED Status
                 \/ \E n \in Nodes :
                       /\ t \in InCalls /\ Status[n] = "linked"
                       /\ Status' = [Status EXCEPT ![n] = "retired"]
                       /\ waiting' = [waiting EXCEPT ![n] = InCalls]
                       /\ InCalls' = InCalls
           \/ UNCHANGED <<InCalls, Status, waiting>>
<1> USE DEF Inv
<1> HIDE DEF LocalsKept, Typed, PlaceInv, Only, Removing
<1>0. \A t \in Threads : t \in InCalls <=> pc[t] # "idle" BY DEF InCalls
<1>1. ASSUME NEW t \in Threads, Call(t) \/ CursorCall(t) \/ SplayCall(t)
      PROVE  /\ t \notin InCalls /\ InCalls' = InCalls \cup {t}
             /\ UNCHANGED <<Status, waiting>>
  <2>1. /\ Only(t) /\ retired' = retired /\ waiting' = waiting
        /\ pc[t] = "idle" /\ pc'[t] # "idle"
    BY <1>1, CallEffect
  <2> QED BY <1>0, <2>1, PinnedKept DEF Status
<1>2. ASSUME NEW t \in Threads, Only(t), Pinned(t), retired' = retired
      PROVE  \/ /\ t \in InCalls /\ InCalls' = InCalls \ {t}
                /\ waiting' = [n \in Nodes |-> waiting[n] \ {t}]
                /\ UNCHANGED Status
             \/ UNCHANGED <<InCalls, Status, waiting>>
  <2>1. CASE pc'[t] = "idle" BY <1>0, <1>2, <2>1, PinnedKept DEF Status
  <2>2. CASE pc'[t] # "idle" BY <1>2, <2>2, PinnedKept DEF Status
  <2> QED BY <2>1, <2>2
<1>3. ASSUME NEW t \in Threads, Retire(t)
      PROVE  \E n \in Nodes :
                /\ t \in InCalls /\ Status[n] = "linked"
                /\ Status' = [Status EXCEPT ![n] = "retired"]
                /\ waiting' = [waiting EXCEPT ![n] = InCalls]
                /\ InCalls' = InCalls
  <2> DEFINE n == loc[t].node
  <2>1. /\ Only(t) /\ Removing(t) /\ n \in Nodes
        /\ pc[t] # "idle" /\ pc'[t] # "idle"
        /\ retired' = retired \cup {n}
        /\ waiting' = [waiting EXCEPT ![n] = InCalls]
    BY <1>3, RetireEffect
  <2>2. n \notin retired BY <2>1 DEF MarkInv
  <2> HIDE DEF n
  <2>3. Status[n] = "linked" BY <2>1, <2>2 DEF Status
  <2>4. Status' = [Status EXCEPT ![n] = "retired"] BY <2>1 DEF Status
  <2>5. t \in InCalls /\ InCalls' = InCalls BY <1>0, <2>1, PinnedKept
  <2> QED BY <2>1, <2>3, <2>4, <2>5
<1>4. ASSUME NEW t \in Threads, Mark0(t)
      PROVE  Only(t) /\ Pinned(t) /\ retired' = retired
  BY <1>4, Mark0Effect
<1>5. ASSUME NEW t \in Threads, Step(t) \/ CursorStep(t) \/ SplayStep(t),
             ~ Mark0(t), ~ Retire(t)
      PROVE  Only(t) /\ Pinned(t) /\ retired' = retired
  BY <1>5, StepEffect
<1>6. CASE UNCHANGED vars
  BY <1>6 DEF vars, history, InCalls, Status
<1> HIDE DEF Inv, Pinned
<1> QED BY <1>1, <1>2, <1>3, <1>4, <1>5, <1>6, NextCases

(* The calls use reclamation as it demands, splay included: a node is      *)
(* retired once, by a thread inside a call, and waits for the threads in a *)
(* call at that moment (SKIPLIST_UNLINK in skip_remove_node_).             *)
THEOREM SplayReclaimed == SplaySpec => Reclaimed
<1>1. Init => Reclaimer!Init
  <2> SUFFICES ASSUME Init PROVE Reclaimer!Init OBVIOUS
  <2>1. InCalls = {} BY DEF Init, InCalls
  <2>2. Status = [n \in Nodes |-> "linked"] BY DEF Init, Status
  <2>3. waiting = [n \in Nodes |-> {}] BY DEF Init
  <2> QED BY <2>1, <2>2, <2>3 DEF Reclaimer!Init, InCalls, Status
<1>2. Inv /\ [SplayNext]_vars => [Reclaimer!Next]_(Reclaimer!gpVars)
  <2> HIDE DEF Inv
  <2> QED
    BY ReclaimStep DEF Reclaimer!Next, Reclaimer!gpVars, Reclaimer!Pin,
       Reclaimer!Unpin, Reclaimer!Retire, InCalls, Status
<1> QED BY <1>1, <1>2, InvInit, InvNext, PTL DEF SplaySpec, Reclaimed, Reclaimer!Spec

(* The same of the list by itself, the behaviours the run checks.          *)
THEOREM ListReclaimed == Spec => Reclaimed
<1>1. [Next]_vars => [SplayNext]_vars BY DEF SplayNext, CursorNext
<1> QED BY <1>1, SplayReclaimed, PTL DEF Spec, SplaySpec
=============================================================================
