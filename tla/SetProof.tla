------------------------------ MODULE SetProof ------------------------------
(***************************************************************************)
(* The set a list stands for, with splay, cursors and all: the length      *)
(* counts what inserts and removes did to it, and when no call asks for a  *)
(* duplicate these, and the lookups that find nothing, take effect at one  *)
(* moment between their invocation and their return.                       *)
(*                                                                         *)
(* An answer is justified by what the set held while the call ran.  For a  *)
(* locate that is the moment it read the last word of its path.  A lookup  *)
(* walks past marked nodes, and the moment is found in hindsight: either   *)
(* its key was missing at some moment of the call, or the node that holds  *)
(* it is still ahead of the walk (Ahead).                                  *)
(***************************************************************************)
EXTENDS ListProof

NoDuplicates ==
    \A t \in Threads : \A C \in Calls[t] : \A c \in C : c.op # "insert_dup"

(* A call that has changed the set; one that has still to be counted.      *)
Took(t) ==
    \/ pc[t] \in Linked
    \/ pc[t] \in Removed /\ Op(t) = "remove"
    \/ pc[t] \in Locating /\ loc[t].ret = "relink"
Counted == {"shrink", "shrinkcas", "shrinktail", "retire", "adjust"}
Adds(t)  == Took(t) /\ Op(t) # "remove"
Drops(t) == Took(t) /\ Op(t) = "remove" /\ pc[t] \notin Counted

(* Which calls come to the places where a lookup or a cursor answers.      *)
Looking == {"lookup", "lookpred", "lookcurr", "lookdups", "found"}
Reading == {"position", "scan", "scantest", "head", "forward", "tail",
            "backward", "hint", "checkhint", "rescan", "rehint"}
Suits(place, op) ==
    /\ place \in Looking => op = "contains"
    /\ place \in Reading => op \in CursorOps
    /\ place \in {"position", "scan", "scantest"} =>
          op \in {"gte", "gt", "lte", "lt"}
    /\ place \in {"scan", "scantest"} => op \in {"gte", "gt"}
    /\ place \in {"head", "forward"} => op \in {"forward", "array"}
    /\ place \in {"tail", "backward"} => op = "backward"
    /\ place \in {"hint", "checkhint", "rescan", "rehint"} => op = "previous"
Kind(t) == pc[t] # "idle" => Suits(pc[t], Op(t)) /\ Suits(loc[t].ret, Op(t))

(* A step inside a call that does not change the set, and one that learns  *)
(* nothing of it either.                                                   *)
Quiet(t) ==
    /\ UNCHANGED <<live, seen, result>>
    /\ loc'[t].call = loc[t].call
    /\ pc[t] # "idle" /\ pc'[t] # "idle"
    /\ Took(t)' <=> Took(t)
Steady(t) == length' = length /\ (Drops(t)' <=> Drops(t))
Onto(t) ==
    /\ pc'[t] \notin {"remove", "loccurr", "lookcurr", "lookdups"}
    /\ pc'[t] \in Placed => pc[t] \in Placed /\ loc'[t].found = loc[t].found
    /\ pc'[t] \in Placed \ Placing => loc'[t].preds = loc[t].preds
    /\ pc'[t] = "mark" =>
          \/ pc[t] = "mark" /\ loc'[t].node = loc[t].node
             /\ loc'[t].found = loc[t].found
          \/ pc[t] = "remove" /\ loc[t].found # Nil /\ loc'[t].node = loc[t].found
             /\ loc'[t].found = loc[t].found
    /\ pc'[t] = "lookpred" => loc'[t].pred = Head
Going(t) == Quiet(t) /\ Steady(t) /\ Onto(t)

-----------------------------------------------------------------------------
(* The steps that learn nothing.                                           *)
LEMMA KindKept ==
    ASSUME NEW t \in Threads, pc[t] # "idle",
           loc'[t].call = loc[t].call, loc'[t].ret = loc[t].ret,
           pc'[t] \notin Looking \cup Reading \/ pc'[t] = loc[t].ret
    PROVE  Kind(t) => Kind(t)'
<1>1. Op(t)' = Op(t) /\ loc'[t].ret = loc[t].ret BY DEF Op
<1>2. pc'[t] \notin Looking \cup Reading => Suits(pc'[t], Op(t))
  BY DEF Suits, Looking, Reading
<1> QED BY <1>1, <1>2 DEF Kind

(* A step of an insert whose node is linked; one of a call that has not    *)
(* taken effect and goes on with what its locate found; one of an unlink.  *)
LEMMA LinkedGoes ==
    ASSUME NEW t \in Threads, pc[t] \in Linked, pc'[t] \in Linked,
           loc'[t].call = loc[t].call, loc'[t].ret = loc[t].ret,
           UNCHANGED <<live, seen, result, length>>
    PROVE  Going(t) /\ (Kind(t) => Kind(t)')
<1>1. Op(t)' = Op(t) /\ Took(t) /\ Took(t)' BY DEF Op, Took
<1>2. pc[t] \notin Counted /\ pc'[t] \notin Counted BY DEF Linked, Counted
<1>3. Steady(t) BY <1>1, <1>2 DEF Steady, Drops
<1>4. Quiet(t) BY <1>1 DEF Quiet, Linked
<1>5. Onto(t)
  <2>1. pc'[t] \notin Placed /\ pc'[t] \notin {"remove", "loccurr", "lookcurr",
                                             "lookdups", "mark", "lookpred"}
    BY DEF Linked, Placed, Placing, Moving, Demoting, Unlinking
  <2> QED BY <2>1 DEF Onto
<1>6. pc[t] # "idle" /\ pc'[t] \notin Looking \cup Reading
  BY DEF Linked, Looking, Reading
<1> QED BY <1>3, <1>4, <1>5, <1>6, KindKept DEF Going

LEMMA AsideGoes ==
    ASSUME NEW t \in Threads, pc[t] # "idle",
           pc'[t] \notin {"idle", "remove", "lookcurr", "lookdups", "mark", "lookpred"},
           pc[t] \notin Linked \cup Removed \cup Locating,
           pc'[t] \notin Linked \cup Removed \cup Locating,
           pc'[t] \in Placed => pc[t] \in Placed,
           loc'[t].call = loc[t].call, loc'[t].found = loc[t].found,
           loc'[t].preds = loc[t].preds,
           UNCHANGED <<live, seen, result, length>>
    PROVE  Going(t)
<1>1. ~ Took(t) /\ ~ Took(t)' BY DEF Took
<1>2. Quiet(t) /\ Steady(t) BY <1>1 DEF Quiet, Steady, Drops
<1>3. Onto(t) BY DEF Onto, Locating
<1> QED BY <1>2, <1>3 DEF Going

LEMMA VerifiedGoes ==
    ASSUME NEW t \in Threads, pc[t] = "verifycurr",
           \/ pc'[t] \in {"sweep", "verify", "verifycurr"}
           \/ pc'[t] = "unprev" /\ Op(t) = "remove"
           \/ pc'[t] = "rebnext" /\ Op(t) # "remove",
           loc'[t].call = loc[t].call, loc'[t].found = loc[t].found,
           loc'[t].preds = loc[t].preds,
           UNCHANGED <<live, seen, result, length>>
    PROVE  Going(t)
<1>1. Op(t)' = Op(t) BY DEF Op
<1>2. Took(t) <=> Op(t) = "remove" BY DEF Took, Linked, Removed, Locating
<1>3. Took(t)' <=> Op(t) = "remove" BY <1>1 DEF Took, Linked, Removed, Locating
<1>4. pc[t] \notin Counted /\ pc'[t] \notin Counted BY DEF Counted
<1>5. Steady(t) BY <1>1, <1>2, <1>3, <1>4 DEF Steady, Drops
<1>6. Quiet(t) BY <1>2, <1>3 DEF Quiet
<1>7. Onto(t) BY DEF Onto, Placed, Unlinking
<1> QED BY <1>5, <1>6, <1>7 DEF Going

LEMMA LocStartGoes ==
    ASSUME NEW t \in Threads, Here(t), LocStart(t)
    PROVE  Going(t) /\ (Kind(t) => Kind(t)')
<1>1. Going(t)
  BY DEF LocStart, Going, Quiet, Steady, Onto, Goto, Here, LocalsKept,
     NoLocals, Took, Adds, Drops, Counted, Op, Linked, Removed, Locating,
     Placed, Placing, Moving, Demoting, Unlinking, history, shape, heights
<1>2. Kind(t) => Kind(t)'
  BY DEF LocStart, Goto, Here, LocalsKept, NoLocals, Kind, Suits, Looking,
     Reading, Op
<1> QED BY <1>1, <1>2

LEMMA LocMarkedGoes ==
    ASSUME NEW t \in Threads, Here(t), LocMarked(t)
    PROVE  Going(t) /\ (Kind(t) => Kind(t)')
<1>1. Going(t)
  BY DEF LocMarked, Going, Quiet, Steady, Onto, Goto, Here, LocalsKept,
     NoLocals, Took, Adds, Drops, Counted, Op, Linked, Removed, Locating,
     Placed, Placing, Moving, Demoting, Unlinking, history, shape, heights
<1>2. Kind(t) => Kind(t)'
  BY DEF LocMarked, Goto, Here, LocalsKept, NoLocals, Kind, Suits, Looking,
     Reading, Op
<1> QED BY <1>1, <1>2

LEMMA GrowGoes ==
    ASSUME NEW t \in Threads, Here(t), Grow(t)
    PROVE  Going(t) /\ (Kind(t) => Kind(t)')
<1>1. Going(t)
  BY DEF Grow, Going, Quiet, Steady, Onto, Goto, Here, LocalsKept, NoLocals,
     Took, Adds, Drops, Counted, Op, Linked, Removed, Locating, Placed,
     Placing, Moving, Demoting, Unlinking, history, shape, heights
<1>2. Kind(t) => Kind(t)'
  BY DEF Grow, Goto, Here, LocalsKept, NoLocals, Kind, Suits, Looking, Reading,
     Op
<1> QED BY <1>1, <1>2

LEMMA GrowTailGoes ==
    ASSUME NEW t \in Threads, Here(t), GrowTail(t)
    PROVE  Going(t) /\ (Kind(t) => Kind(t)')
<1>1. Going(t)
  BY DEF GrowTail, Going, Quiet, Steady, Onto, Goto, Here, LocalsKept,
     NoLocals, Took, Adds, Drops, Counted, Op, Linked, Removed, Locating,
     Placed, Placing, Moving, Demoting, Unlinking, history, shape, heights
<1>2. Kind(t) => Kind(t)'
  BY DEF GrowTail, Goto, Here, LocalsKept, NoLocals, Kind, Suits, Looking,
     Reading, Op
<1> QED BY <1>1, <1>2

LEMMA HelpGoes ==
    ASSUME NEW t \in Threads, Here(t), Help(t)
    PROVE  Going(t) /\ (Kind(t) => Kind(t)')
<1>1. pc[t] = "help" /\ UNCHANGED <<live, seen, result, length>> BY DEF Help, history
<1>2. pc'[t] \in {"prev", "raise", "help", "count", "helpnext"}
  BY HelpedMoves DEF Help, Goto, Here, LocalsKept
<1>3. loc'[t].ret = loc[t].ret /\ loc'[t].call = loc[t].call
  <2>1. CASE Helped(t) BY <2>1, HelpedMoves DEF Keep
  <2>2. CASE \E v : loc' = [loc EXCEPT ![t].succ = v]
    BY <2>2 DEF Here, LocalsKept, NoLocals
  <2> QED BY <2>1, <2>2 DEF Help
<1> QED BY <1>1, <1>2, <1>3, LinkedGoes DEF Linked

LEMMA HelpCasGoes ==
    ASSUME NEW t \in Threads, Here(t), HelpCas(t)
    PROVE  Going(t) /\ (Kind(t) => Kind(t)')
<1>1. Going(t)
  BY DEF HelpCas, Helped, Going, Quiet, Steady, Onto, Goto, Here, LocalsKept,
     NoLocals, Took, Adds, Drops, Counted, Op, Linked, Removed, Locating,
     Placed, Placing, Moving, Demoting, Unlinking, history, shape, heights
<1>2. Kind(t) => Kind(t)'
  BY DEF HelpCas, Helped, Goto, Here, LocalsKept, NoLocals, Kind, Suits,
     Looking, Reading, Op
<1> QED BY <1>1, <1>2

LEMMA RaiseGoes ==
    ASSUME NEW t \in Threads, Here(t), Raise(t)
    PROVE  Going(t) /\ (Kind(t) => Kind(t)')
<1>1. Going(t)
  BY DEF Raise, Going, Quiet, Steady, Onto, Goto, Here, LocalsKept, NoLocals,
     Took, Adds, Drops, Counted, Op, Linked, Removed, Locating, Placed,
     Placing, Moving, Demoting, Unlinking, history, shape, heights
<1>2. Kind(t) => Kind(t)'
  BY DEF Raise, Goto, Here, LocalsKept, NoLocals, Kind, Suits, Looking,
     Reading, Op
<1> QED BY <1>1, <1>2

LEMMA RaiseSetGoes ==
    ASSUME NEW t \in Threads, Here(t), RaiseSet(t)
    PROVE  Going(t) /\ (Kind(t) => Kind(t)')
<1>1. Going(t)
  BY DEF RaiseSet, Going, Quiet, Steady, Onto, Goto, Here, LocalsKept,
     NoLocals, Took, Adds, Drops, Counted, Op, Linked, Removed, Locating,
     Placed, Placing, Moving, Demoting, Unlinking, history, shape, heights
<1>2. Kind(t) => Kind(t)'
  BY DEF RaiseSet, Goto, Here, LocalsKept, NoLocals, Kind, Suits, Looking,
     Reading, Op
<1> QED BY <1>1, <1>2

LEMMA RaiseCasGoes ==
    ASSUME NEW t \in Threads, Here(t), RaiseCas(t)
    PROVE  Going(t) /\ (Kind(t) => Kind(t)')
<1>1. pc[t] = "raisecas" /\ UNCHANGED <<live, seen, result, length>>
  BY DEF RaiseCas, history
<1>2. pc'[t] \in {"raise", "prev"} BY DEF RaiseCas, Goto, Here, LocalsKept
<1>3. loc'[t].ret = loc[t].ret /\ loc'[t].call = loc[t].call
  <2>1. loc' = loc \/ \E v : loc' = [loc EXCEPT ![t].i = v] BY DEF RaiseCas
  <2>2. CASE \E v : loc' = [loc EXCEPT ![t].i = v]
    BY <2>2 DEF Here, LocalsKept, NoLocals
  <2> QED BY <2>1, <2>2
<1> QED BY <1>1, <1>2, <1>3, LinkedGoes DEF Linked

LEMMA RaiseAgainGoes ==
    ASSUME NEW t \in Threads, Here(t), RaiseAgain(t)
    PROVE  Going(t) /\ (Kind(t) => Kind(t)')
<1>1. Going(t)
  BY DEF RaiseAgain, Going, Quiet, Steady, Onto, Goto, Here, LocalsKept,
     NoLocals, Took, Adds, Drops, Counted, Op, Linked, Removed, Locating,
     Placed, Placing, Moving, Demoting, Unlinking, history, shape, heights
<1>2. Kind(t) => Kind(t)'
  BY DEF RaiseAgain, Goto, Here, LocalsKept, NoLocals, Kind, Suits, Looking,
     Reading, Op
<1> QED BY <1>1, <1>2

LEMMA RelinkGoes ==
    ASSUME NEW t \in Threads, Here(t), Relink(t)
    PROVE  Going(t) /\ (Kind(t) => Kind(t)')
<1>1. Going(t)
  BY DEF Relink, Going, Quiet, Steady, Onto, Goto, Here, LocalsKept, NoLocals,
     Took, Adds, Drops, Counted, Op, Linked, Removed, Locating, Placed,
     Placing, Moving, Demoting, Unlinking, history, shape, heights
<1>2. Kind(t) => Kind(t)'
  BY DEF Relink, Goto, Here, LocalsKept, NoLocals, Kind, Suits, Looking,
     Reading, Op
<1> QED BY <1>1, <1>2

LEMMA PrevGoes ==
    ASSUME NEW t \in Threads, Here(t), Prev(t)
    PROVE  Going(t) /\ (Kind(t) => Kind(t)')
<1>1. Going(t)
  BY DEF Prev, Going, Quiet, Steady, Onto, Goto, Here, LocalsKept, NoLocals,
     Took, Adds, Drops, Counted, Op, Linked, Removed, Locating, Placed,
     Placing, Moving, Demoting, Unlinking, history, shape, heights
<1>2. Kind(t) => Kind(t)'
  BY DEF Prev, Goto, Here, LocalsKept, NoLocals, Kind, Suits, Looking, Reading,
     Op
<1> QED BY <1>1, <1>2

LEMMA PrevSuccGoes ==
    ASSUME NEW t \in Threads, Here(t), PrevSucc(t)
    PROVE  Going(t) /\ (Kind(t) => Kind(t)')
<1>1. pc[t] = "prevsucc" /\ UNCHANGED <<live, seen, result, length>>
  BY DEF PrevSucc, history
<1>2. pc'[t] \in {"help", "count", "prevcas"}
  BY AboveMoves DEF PrevSucc, Goto, Here, LocalsKept
<1>3. loc'[t].ret = loc[t].ret /\ loc'[t].call = loc[t].call
  <2>1. CASE Above(t) BY <2>1, AboveMoves DEF Keep
  <2>2. CASE \E v : loc' = [loc EXCEPT ![t].succ = v]
    BY <2>2 DEF Here, LocalsKept, NoLocals
  <2> QED BY <2>1, <2>2 DEF PrevSucc
<1> QED BY <1>1, <1>2, <1>3, LinkedGoes DEF Linked

LEMMA PrevCasGoes ==
    ASSUME NEW t \in Threads, Here(t), PrevCas(t)
    PROVE  Going(t) /\ (Kind(t) => Kind(t)')
<1>1. Going(t)
  BY DEF PrevCas, Above, Going, Quiet, Steady, Onto, Goto, Here, LocalsKept,
     NoLocals, Took, Adds, Drops, Counted, Op, Linked, Removed, Locating,
     Placed, Placing, Moving, Demoting, Unlinking, history, shape, heights
<1>2. Kind(t) => Kind(t)'
  BY DEF PrevCas, Above, Goto, Here, LocalsKept, NoLocals, Kind, Suits,
     Looking, Reading, Op
<1> QED BY <1>1, <1>2

LEMMA FoundGoes ==
    ASSUME NEW t \in Threads, Here(t), Found(t)
    PROVE  Going(t) /\ (Kind(t) => Kind(t)')
<1>1. Going(t)
  BY DEF Found, Going, Quiet, Steady, Onto, Goto, Here, LocalsKept, NoLocals,
     Took, Adds, Drops, Counted, Op, Linked, Removed, Locating, Placed,
     Placing, Moving, Demoting, Unlinking, history, shape, heights
<1>2. Kind(t) => Kind(t)'
  BY DEF Found, Goto, Here, LocalsKept, NoLocals, Kind, Suits, Looking,
     Reading, Op
<1> QED BY <1>1, <1>2

LEMMA MarkGoes ==
    ASSUME NEW t \in Threads, Here(t), Mark(t)
    PROVE  Going(t) /\ (Kind(t) => Kind(t)')
<1>1. Going(t)
  BY DEF Mark, Going, Quiet, Steady, Onto, Goto, Here, LocalsKept, NoLocals,
     Took, Adds, Drops, Counted, Op, Linked, Removed, Locating, Placed,
     Placing, Moving, Demoting, Unlinking, history, shape, heights
<1>2. Kind(t) => Kind(t)'
  BY DEF Mark, Goto, Here, LocalsKept, NoLocals, Kind, Suits, Looking, Reading,
     Op
<1> QED BY <1>1, <1>2

LEMMA UnlinkGoes ==
    ASSUME NEW t \in Threads, Here(t), Unlink(t)
    PROVE  Going(t) /\ (Kind(t) => Kind(t)')
<1>1. Going(t)
  BY DEF Unlink, Going, Quiet, Steady, Onto, Goto, Here, LocalsKept, NoLocals,
     Took, Adds, Drops, Counted, Op, Linked, Removed, Locating, Placed,
     Placing, Moving, Demoting, Unlinking, history, shape, heights
<1>2. Kind(t) => Kind(t)'
  BY DEF Unlink, Goto, Here, LocalsKept, NoLocals, Kind, Suits, Looking,
     Reading, Op
<1> QED BY <1>1, <1>2

LEMMA SweepGoes ==
    ASSUME NEW t \in Threads, Here(t), Sweep(t)
    PROVE  Going(t) /\ (Kind(t) => Kind(t)')
<1>1. Going(t)
  BY DEF Sweep, Going, Quiet, Steady, Onto, Goto, Here, LocalsKept, NoLocals,
     Took, Adds, Drops, Counted, Op, Linked, Removed, Locating, Placed,
     Placing, Moving, Demoting, Unlinking, history, shape, heights
<1>2. Kind(t) => Kind(t)'
  BY DEF Sweep, Goto, Here, LocalsKept, NoLocals, Kind, Suits, Looking,
     Reading, Op
<1> QED BY <1>1, <1>2

LEMMA SweepHeadGoes ==
    ASSUME NEW t \in Threads, Here(t), SweepHead(t)
    PROVE  Going(t) /\ (Kind(t) => Kind(t)')
<1>1. Going(t)
  BY DEF SweepHead, Going, Quiet, Steady, Onto, Goto, Here, LocalsKept,
     NoLocals, Took, Adds, Drops, Counted, Op, Linked, Removed, Locating,
     Placed, Placing, Moving, Demoting, Unlinking, history, shape, heights
<1>2. Kind(t) => Kind(t)'
  BY DEF SweepHead, Goto, Here, LocalsKept, NoLocals, Kind, Suits, Looking,
     Reading, Op
<1> QED BY <1>1, <1>2

LEMMA VerifyHeadGoes ==
    ASSUME NEW t \in Threads, Here(t), VerifyHead(t)
    PROVE  Going(t) /\ (Kind(t) => Kind(t)')
<1>1. Going(t)
  BY DEF VerifyHead, Going, Quiet, Steady, Onto, Goto, Here, LocalsKept,
     NoLocals, Took, Adds, Drops, Counted, Op, Linked, Removed, Locating,
     Placed, Placing, Moving, Demoting, Unlinking, history, shape, heights
<1>2. Kind(t) => Kind(t)'
  BY DEF VerifyHead, Goto, Here, LocalsKept, NoLocals, Kind, Suits, Looking,
     Reading, Op
<1> QED BY <1>1, <1>2

LEMMA VerifyCurrGoes ==
    ASSUME NEW t \in Threads, Here(t), VerifyCurr(t)
    PROVE  Going(t) /\ (Kind(t) => Kind(t)')
<1>1. pc[t] = "verifycurr" /\ UNCHANGED <<live, seen, result, length>>
  BY DEF VerifyCurr, history
<1>2. \/ loc' = loc
      \/ \E v : loc' = [loc EXCEPT ![t].curr = v]
      \/ \E v : loc' = [loc EXCEPT ![t].lvl = v]
  BY DEF VerifyCurr
<1>3. /\ loc'[t].ret = loc[t].ret /\ loc'[t].call = loc[t].call
      /\ loc'[t].found = loc[t].found /\ loc'[t].preds = loc[t].preds
  <2>1. CASE \E v : loc' = [loc EXCEPT ![t].curr = v]
    BY <2>1 DEF Here, LocalsKept, NoLocals
  <2>2. CASE \E v : loc' = [loc EXCEPT ![t].lvl = v]
    BY <2>2 DEF Here, LocalsKept, NoLocals
  <2> QED BY <1>2, <2>1, <2>2
<1>4. \/ pc'[t] \in {"sweep", "verify", "verifycurr"} \/ pc'[t] = Unlinked(t)
  BY <1>1 DEF VerifyCurr, Goto, Here, LocalsKept
<1>5. \/ pc'[t] \in {"sweep", "verify", "verifycurr"}
      \/ pc'[t] = "unprev" /\ Op(t) = "remove"
      \/ pc'[t] = "rebnext" /\ Op(t) # "remove"
  BY <1>4 DEF Unlinked, Op
<1>6. Going(t) BY <1>1, <1>3, <1>5, VerifiedGoes
<1>7. pc'[t] \notin Looking \cup Reading BY <1>5 DEF Looking, Reading
<1> QED BY <1>1, <1>3, <1>6, <1>7, KindKept

LEMMA UnPrevGoes ==
    ASSUME NEW t \in Threads, Here(t), UnPrev(t)
    PROVE  Going(t) /\ (Kind(t) => Kind(t)')
<1>1. Going(t)
  BY DEF UnPrev, Going, Quiet, Steady, Onto, Goto, Here, LocalsKept, NoLocals,
     Took, Adds, Drops, Counted, Op, Linked, Removed, Locating, Placed,
     Placing, Moving, Demoting, Unlinking, history, shape, heights
<1>2. Kind(t) => Kind(t)'
  BY DEF UnPrev, Goto, Here, LocalsKept, NoLocals, Kind, Suits, Looking,
     Reading, Op
<1> QED BY <1>1, <1>2

LEMMA UnPrevCasGoes ==
    ASSUME NEW t \in Threads, Here(t), UnPrevCas(t)
    PROVE  Going(t) /\ (Kind(t) => Kind(t)')
<1>1. Going(t)
  BY DEF UnPrevCas, Going, Quiet, Steady, Onto, Goto, Here, LocalsKept,
     NoLocals, Took, Adds, Drops, Counted, Op, Linked, Removed, Locating,
     Placed, Placing, Moving, Demoting, Unlinking, history, shape, heights
<1>2. Kind(t) => Kind(t)'
  BY DEF UnPrevCas, Goto, Here, LocalsKept, NoLocals, Kind, Suits, Looking,
     Reading, Op
<1> QED BY <1>1, <1>2

LEMMA ShrinkGoes ==
    ASSUME NEW t \in Threads, Here(t), Shrink(t)
    PROVE  Going(t) /\ (Kind(t) => Kind(t)')
<1>1. Going(t)
  BY DEF Shrink, Going, Quiet, Steady, Onto, Goto, Here, LocalsKept, NoLocals,
     Took, Adds, Drops, Counted, Op, Linked, Removed, Locating, Placed,
     Placing, Moving, Demoting, Unlinking, history, shape, heights
<1>2. Kind(t) => Kind(t)'
  BY DEF Shrink, Goto, Here, LocalsKept, NoLocals, Kind, Suits, Looking,
     Reading, Op
<1> QED BY <1>1, <1>2

LEMMA ShrinkCasGoes ==
    ASSUME NEW t \in Threads, Here(t), ShrinkCas(t)
    PROVE  Going(t) /\ (Kind(t) => Kind(t)')
<1>1. Going(t)
  BY DEF ShrinkCas, Going, Quiet, Steady, Onto, Goto, Here, LocalsKept,
     NoLocals, Took, Adds, Drops, Counted, Op, Linked, Removed, Locating,
     Placed, Placing, Moving, Demoting, Unlinking, history, shape, heights
<1>2. Kind(t) => Kind(t)'
  BY DEF ShrinkCas, Goto, Here, LocalsKept, NoLocals, Kind, Suits, Looking,
     Reading, Op
<1> QED BY <1>1, <1>2

LEMMA ShrinkTailGoes ==
    ASSUME NEW t \in Threads, Here(t), ShrinkTail(t)
    PROVE  Going(t) /\ (Kind(t) => Kind(t)')
<1>1. Going(t)
  BY DEF ShrinkTail, Going, Quiet, Steady, Onto, Goto, Here, LocalsKept,
     NoLocals, Took, Adds, Drops, Counted, Op, Linked, Removed, Locating,
     Placed, Placing, Moving, Demoting, Unlinking, history, shape, heights
<1>2. Kind(t) => Kind(t)'
  BY DEF ShrinkTail, Goto, Here, LocalsKept, NoLocals, Kind, Suits, Looking,
     Reading, Op
<1> QED BY <1>1, <1>2

LEMMA RetireGoes ==
    ASSUME NEW t \in Threads, Here(t), Retire(t)
    PROVE  Going(t) /\ (Kind(t) => Kind(t)')
<1>1. Going(t)
  BY DEF Retire, Going, Quiet, Steady, Onto, Goto, Here, LocalsKept, NoLocals,
     Took, Adds, Drops, Counted, Op, Linked, Removed, Locating, Placed,
     Placing, Moving, Demoting, Unlinking, history, shape, heights
<1>2. Kind(t) => Kind(t)'
  BY DEF Retire, Goto, Here, LocalsKept, NoLocals, Kind, Suits, Looking,
     Reading, Op
<1> QED BY <1>1, <1>2

LEMMA LookStartGoes ==
    ASSUME NEW t \in Threads, Here(t), LookStart(t)
    PROVE  Going(t) /\ (Kind(t) => Kind(t)')
<1>1. Going(t)
  BY DEF LookStart, Going, Quiet, Steady, Onto, Goto, Here, LocalsKept,
     NoLocals, Took, Adds, Drops, Counted, Op, Linked, Removed, Locating,
     Placed, Placing, Moving, Demoting, Unlinking, history, shape, heights
<1>2. Kind(t) => Kind(t)'
  BY DEF LookStart, Goto, Here, LocalsKept, NoLocals, Kind, Suits, Looking,
     Reading, Op
<1> QED BY <1>1, <1>2

LEMMA PositionHighGoes ==
    ASSUME NEW t \in Threads, Here(t), PositionHigh(t)
    PROVE  Going(t) /\ (Kind(t) => Kind(t)')
<1>1. Going(t)
  BY DEF PositionHigh, Going, Quiet, Steady, Onto, Goto, Here, LocalsKept,
     NoLocals, Took, Adds, Drops, Counted, Op, Linked, Removed, Locating,
     Placed, Placing, Moving, Demoting, Unlinking, history, shape, heights
<1>2. Kind(t) => Kind(t)'
  BY DEF PositionHigh, Goto, Here, LocalsKept, NoLocals, Kind, Suits, Looking,
     Reading, Op
<1> QED BY <1>1, <1>2

LEMMA ScanHeadGoes ==
    ASSUME NEW t \in Threads, Here(t), ScanHead(t)
    PROVE  Going(t) /\ (Kind(t) => Kind(t)')
<1>1. Going(t)
  BY DEF ScanHead, Going, Quiet, Steady, Onto, Goto, Here, LocalsKept,
     NoLocals, Took, Adds, Drops, Counted, Op, Linked, Removed, Locating,
     Placed, Placing, Moving, Demoting, Unlinking, history, shape, heights
<1>2. Kind(t) => Kind(t)'
  BY DEF ScanHead, Goto, Here, LocalsKept, NoLocals, Kind, Suits, Looking,
     Reading, Op
<1> QED BY <1>1, <1>2

LEMMA ScanTailGoes ==
    ASSUME NEW t \in Threads, Here(t), ScanTail(t)
    PROVE  Going(t) /\ (Kind(t) => Kind(t)')
<1>1. Going(t)
  BY DEF ScanTail, Going, Quiet, Steady, Onto, Goto, Here, LocalsKept,
     NoLocals, Took, Adds, Drops, Counted, Op, Linked, Removed, Locating,
     Placed, Placing, Moving, Demoting, Unlinking, history, shape, heights
<1>2. Kind(t) => Kind(t)'
  BY DEF ScanTail, Goto, Here, LocalsKept, NoLocals, Kind, Suits, Looking,
     Reading, Op
<1> QED BY <1>1, <1>2

LEMMA RescanGoes ==
    ASSUME NEW t \in Threads, Here(t), Rescan(t)
    PROVE  Going(t) /\ (Kind(t) => Kind(t)')
<1>1. pc[t] = "rescan" /\ UNCHANGED <<live, seen, result, length>>
  BY DEF Rescan, history
<1>2. pc'[t] \in {"rescan", "rehint"} BY <1>1 DEF Rescan, Goto, Here, LocalsKept
<1>3. /\ loc'[t].ret = loc[t].ret /\ loc'[t].call = loc[t].call
      /\ loc'[t].found = loc[t].found /\ loc'[t].preds = loc[t].preds
  <2>1. \/ loc' = loc
        \/ \E v : loc' = [loc EXCEPT ![t].pred = v]
        \/ \E v : loc' = [loc EXCEPT ![t].curr = v]
    BY DEF Rescan
  <2>2. CASE \E v : loc' = [loc EXCEPT ![t].pred = v]
    BY <2>2 DEF Here, LocalsKept, NoLocals
  <2>3. CASE \E v : loc' = [loc EXCEPT ![t].curr = v]
    BY <2>3 DEF Here, LocalsKept, NoLocals
  <2> QED BY <2>1, <2>2, <2>3
<1>4. Going(t)
  <2>1. pc'[t] \notin Placed
    BY <1>2 DEF Placed, Placing, Moving, Demoting, Unlinking
  <2>2. /\ pc[t] \notin Linked \cup Removed \cup Locating
        /\ pc'[t] \notin Linked \cup Removed \cup Locating
    BY <1>1, <1>2 DEF Linked, Removed, Locating
  <2> QED BY <1>1, <1>2, <1>3, <2>1, <2>2, AsideGoes
<1>5. Kind(t) => Kind(t)'
  <2>1. /\ pc[t] = "rescan" /\ pc'[t] \in {"rescan", "rehint"}
        /\ \/ loc' = loc
           \/ \E v : loc' = [loc EXCEPT ![t].pred = v]
           \/ \E v : loc' = [loc EXCEPT ![t].curr = v]
    BY DEF Rescan, Goto, Here, LocalsKept
  <2>2. loc'[t].ret = loc[t].ret /\ loc'[t].call = loc[t].call
    BY <2>1 DEF Here, LocalsKept, NoLocals
  <2>3. \A op : Suits(pc[t], op) => Suits(pc'[t], op)
    BY <2>1 DEF Suits, Looking, Reading
  <2> QED BY <2>1, <2>2, <2>3 DEF Kind, Op
<1> QED BY <1>4, <1>5

LEMMA RebalanceGoes ==
    ASSUME NEW t \in Threads, Here(t), Rebalance(t)
    PROVE  Going(t) /\ (Kind(t) => Kind(t)')
<1>1. Going(t)
  BY DEF Rebalance, Going, Quiet, Steady, Onto, Goto, Here, LocalsKept,
     NoLocals, Took, Adds, Drops, Counted, Op, Linked, Removed, Locating,
     Placed, Placing, Moving, Demoting, Unlinking, history, shape, heights
<1>2. Kind(t) => Kind(t)'
  BY DEF Rebalance, Goto, Here, LocalsKept, NoLocals, Kind, Suits, Looking,
     Reading, Op
<1> QED BY <1>1, <1>2

LEMMA RebNextGoes ==
    ASSUME NEW t \in Threads, Here(t), RebNext(t)
    PROVE  Going(t) /\ (Kind(t) => Kind(t)')
<1>1. Going(t)
  BY DEF RebNext, Going, Quiet, Steady, Onto, Goto, Here, LocalsKept, NoLocals,
     Took, Adds, Drops, Counted, Op, Linked, Removed, Locating, Placed,
     Placing, Moving, Demoting, Unlinking, history, shape, heights
<1>2. Kind(t) => Kind(t)'
  BY DEF RebNext, Goto, Here, LocalsKept, NoLocals, Kind, Suits, Looking,
     Reading, Op
<1> QED BY <1>1, <1>2

LEMMA RebHeightGoes ==
    ASSUME NEW t \in Threads, Here(t), RebHeight(t)
    PROVE  Going(t) /\ (Kind(t) => Kind(t)')
<1>1. Going(t)
  BY DEF RebHeight, Ascend, Going, Quiet, Steady, Onto, Goto, Here, LocalsKept,
     NoLocals, Took, Adds, Drops, Counted, Op, Linked, Removed, Locating,
     Placed, Placing, Moving, Demoting, Unlinking, history, shape, heights
<1>2. Kind(t) => Kind(t)'
  BY DEF RebHeight, Ascend, Goto, Here, LocalsKept, NoLocals, Kind, Suits,
     Looking, Reading, Op
<1> QED BY <1>1, <1>2

LEMMA DemotePredGoes ==
    ASSUME NEW t \in Threads, Here(t), DemotePred(t)
    PROVE  Going(t) /\ (Kind(t) => Kind(t)')
<1>1. Going(t)
  BY DEF DemotePred, Ascend, Going, Quiet, Steady, Onto, Goto, Here,
     LocalsKept, NoLocals, Took, Adds, Drops, Counted, Op, Linked, Removed,
     Locating, Placed, Placing, Moving, Demoting, Unlinking, history, shape,
     heights
<1>2. Kind(t) => Kind(t)'
  BY DEF DemotePred, Ascend, Goto, Here, LocalsKept, NoLocals, Kind, Suits,
     Looking, Reading, Op
<1> QED BY <1>1, <1>2

LEMMA DemoteSuccGoes ==
    ASSUME NEW t \in Threads, Here(t), DemoteSucc(t)
    PROVE  Going(t) /\ (Kind(t) => Kind(t)')
<1>1. pc[t] = "demotesucc" /\ UNCHANGED <<live, seen, result, length>>
  BY DEF DemoteSucc, history
<1>2. pc'[t] \in {"demotecas", "promote", "rebnext"}
  BY DEF DemoteSucc, Ascend, Goto, Here, LocalsKept
<1>3. /\ loc'[t].ret = loc[t].ret /\ loc'[t].call = loc[t].call
      /\ loc'[t].found = loc[t].found /\ loc'[t].preds = loc[t].preds
  <2>1. loc' = [loc EXCEPT ![t] = loc[t]] \/ \E v : loc' = [loc EXCEPT ![t].succ = v]
    BY DEF DemoteSucc, Ascend
  <2>2. CASE loc' = [loc EXCEPT ![t] = loc[t]] BY <2>2 DEF Here, LocalsKept
  <2>3. CASE \E v : loc' = [loc EXCEPT ![t].succ = v]
    BY <2>3 DEF Here, LocalsKept, NoLocals
  <2> QED BY <2>1, <2>2, <2>3
<1>4. Going(t)
  <2>1. pc[t] \in Placed BY <1>1 DEF Placed, Moving, Demoting
  <2>2. /\ pc[t] \notin Linked \cup Removed \cup Locating
        /\ pc'[t] \notin Linked \cup Removed \cup Locating
    BY <1>1, <1>2 DEF Linked, Removed, Locating
  <2> QED BY <1>1, <1>2, <1>3, <2>1, <2>2, AsideGoes
<1>5. pc'[t] \notin Looking \cup Reading BY <1>2 DEF Looking, Reading
<1> QED BY <1>1, <1>3, <1>4, <1>5, KindKept

LEMMA DemoteCasGoes ==
    ASSUME NEW t \in Threads, Here(t), DemoteCas(t)
    PROVE  Going(t) /\ (Kind(t) => Kind(t)')
<1>1. Going(t)
  BY DEF DemoteCas, Going, Quiet, Steady, Onto, Goto, Here, LocalsKept,
     NoLocals, Took, Adds, Drops, Counted, Op, Linked, Removed, Locating,
     Placed, Placing, Moving, Demoting, Unlinking, history, shape, heights
<1>2. Kind(t) => Kind(t)'
  BY DEF DemoteCas, Goto, Here, LocalsKept, NoLocals, Kind, Suits, Looking,
     Reading, Op
<1> QED BY <1>1, <1>2

LEMMA DemoteLowGoes ==
    ASSUME NEW t \in Threads, Here(t), DemoteLow(t)
    PROVE  Going(t) /\ (Kind(t) => Kind(t)')
<1>1. Going(t)
  BY DEF DemoteLow, Going, Quiet, Steady, Onto, Goto, Here, LocalsKept,
     NoLocals, Took, Adds, Drops, Counted, Op, Linked, Removed, Locating,
     Placed, Placing, Moving, Demoting, Unlinking, history, shape, heights
<1>2. Kind(t) => Kind(t)'
  BY DEF DemoteLow, Goto, Here, LocalsKept, NoLocals, Kind, Suits, Looking,
     Reading, Op
<1> QED BY <1>1, <1>2

LEMMA ReReadGoes ==
    ASSUME NEW t \in Threads, Here(t), ReRead(t)
    PROVE  Going(t) /\ (Kind(t) => Kind(t)')
<1>1. Going(t)
  BY DEF ReRead, Ascend, Going, Quiet, Steady, Onto, Goto, Here, LocalsKept,
     NoLocals, Took, Adds, Drops, Counted, Op, Linked, Removed, Locating,
     Placed, Placing, Moving, Demoting, Unlinking, history, shape, heights
<1>2. Kind(t) => Kind(t)'
  BY DEF ReRead, Ascend, Goto, Here, LocalsKept, NoLocals, Kind, Suits,
     Looking, Reading, Op
<1> QED BY <1>1, <1>2

LEMMA PromoteGoes ==
    ASSUME NEW t \in Threads, Here(t), Promote(t)
    PROVE  Going(t) /\ (Kind(t) => Kind(t)')
<1>1. Going(t)
  BY DEF Promote, Going, Quiet, Steady, Onto, Goto, Here, LocalsKept, NoLocals,
     Took, Adds, Drops, Counted, Op, Linked, Removed, Locating, Placed,
     Placing, Moving, Demoting, Unlinking, history, shape, heights
<1>2. Kind(t) => Kind(t)'
  BY DEF Promote, Goto, Here, LocalsKept, NoLocals, Kind, Suits, Looking,
     Reading, Op
<1> QED BY <1>1, <1>2

LEMMA GrowHeadGoes ==
    ASSUME NEW t \in Threads, Here(t), GrowHead(t)
    PROVE  Going(t) /\ (Kind(t) => Kind(t)')
<1>1. Going(t)
  BY DEF GrowHead, Going, Quiet, Steady, Onto, Goto, Here, LocalsKept,
     NoLocals, Took, Adds, Drops, Counted, Op, Linked, Removed, Locating,
     Placed, Placing, Moving, Demoting, Unlinking, history, shape, heights
<1>2. Kind(t) => Kind(t)'
  BY DEF GrowHead, Goto, Here, LocalsKept, NoLocals, Kind, Suits, Looking,
     Reading, Op
<1> QED BY <1>1, <1>2

LEMMA InitHeadGoes ==
    ASSUME NEW t \in Threads, Here(t), InitHead(t)
    PROVE  Going(t) /\ (Kind(t) => Kind(t)')
<1>1. Going(t)
  BY DEF InitHead, Going, Quiet, Steady, Onto, Goto, Here, LocalsKept,
     NoLocals, Took, Adds, Drops, Counted, Op, Linked, Removed, Locating,
     Placed, Placing, Moving, Demoting, Unlinking, history, shape, heights
<1>2. Kind(t) => Kind(t)'
  BY DEF InitHead, Goto, Here, LocalsKept, NoLocals, Kind, Suits, Looking,
     Reading, Op
<1> QED BY <1>1, <1>2

LEMMA BumpGoes ==
    ASSUME NEW t \in Threads, Here(t), Bump(t)
    PROVE  Going(t) /\ (Kind(t) => Kind(t)')
<1>1. Going(t)
  BY DEF Bump, Going, Quiet, Steady, Onto, Goto, Here, LocalsKept, NoLocals,
     Took, Adds, Drops, Counted, Op, Linked, Removed, Locating, Placed,
     Placing, Moving, Demoting, Unlinking, history, shape, heights
<1>2. Kind(t) => Kind(t)'
  BY DEF Bump, Goto, Here, LocalsKept, NoLocals, Kind, Suits, Looking, Reading,
     Op
<1> QED BY <1>1, <1>2

LEMMA PromotePredGoes ==
    ASSUME NEW t \in Threads, Here(t), PromotePred(t)
    PROVE  Going(t) /\ (Kind(t) => Kind(t)')
<1>1. Going(t)
  BY DEF PromotePred, Going, Quiet, Steady, Onto, Goto, Here, LocalsKept,
     NoLocals, Took, Adds, Drops, Counted, Op, Linked, Removed, Locating,
     Placed, Placing, Moving, Demoting, Unlinking, history, shape, heights
<1>2. Kind(t) => Kind(t)'
  BY DEF PromotePred, Goto, Here, LocalsKept, NoLocals, Kind, Suits, Looking,
     Reading, Op
<1> QED BY <1>1, <1>2

LEMMA PromoteSuccGoes ==
    ASSUME NEW t \in Threads, Here(t), PromoteSucc(t)
    PROVE  Going(t) /\ (Kind(t) => Kind(t)')
<1>1. Going(t)
  BY DEF PromoteSucc, Going, Quiet, Steady, Onto, Goto, Here, LocalsKept,
     NoLocals, Took, Adds, Drops, Counted, Op, Linked, Removed, Locating,
     Placed, Placing, Moving, Demoting, Unlinking, history, shape, heights
<1>2. Kind(t) => Kind(t)'
  BY DEF PromoteSucc, Goto, Here, LocalsKept, NoLocals, Kind, Suits, Looking,
     Reading, Op
<1> QED BY <1>1, <1>2

LEMMA PromoteSetGoes ==
    ASSUME NEW t \in Threads, Here(t), PromoteSet(t)
    PROVE  Going(t) /\ (Kind(t) => Kind(t)')
<1>1. Going(t)
  BY DEF PromoteSet, Going, Quiet, Steady, Onto, Goto, Here, LocalsKept,
     NoLocals, Took, Adds, Drops, Counted, Op, Linked, Removed, Locating,
     Placed, Placing, Moving, Demoting, Unlinking, history, shape, heights
<1>2. Kind(t) => Kind(t)'
  BY DEF PromoteSet, Goto, Here, LocalsKept, NoLocals, Kind, Suits, Looking,
     Reading, Op
<1> QED BY <1>1, <1>2

LEMMA PromoteCasGoes ==
    ASSUME NEW t \in Threads, Here(t), PromoteCas(t)
    PROVE  Going(t) /\ (Kind(t) => Kind(t)')
<1>1. Going(t)
  BY DEF PromoteCas, Going, Quiet, Steady, Onto, Goto, Here, LocalsKept,
     NoLocals, Took, Adds, Drops, Counted, Op, Linked, Removed, Locating,
     Placed, Placing, Moving, Demoting, Unlinking, history, shape, heights
<1>2. Kind(t) => Kind(t)'
  BY DEF PromoteCas, Goto, Here, LocalsKept, NoLocals, Kind, Suits, Looking,
     Reading, Op
<1> QED BY <1>1, <1>2

LEMMA RevertGoes ==
    ASSUME NEW t \in Threads, Here(t), Revert(t)
    PROVE  Going(t) /\ (Kind(t) => Kind(t)')
<1>1. Going(t)
  BY DEF Revert, Going, Quiet, Steady, Onto, Goto, Here, LocalsKept, NoLocals,
     Took, Adds, Drops, Counted, Op, Linked, Removed, Locating, Placed,
     Placing, Moving, Demoting, Unlinking, history, shape, heights
<1>2. Kind(t) => Kind(t)'
  BY DEF Revert, Goto, Here, LocalsKept, NoLocals, Kind, Suits, Looking,
     Reading, Op
<1> QED BY <1>1, <1>2

LEMMA RecheckGoes ==
    ASSUME NEW t \in Threads, Here(t), Recheck(t)
    PROVE  Going(t) /\ (Kind(t) => Kind(t)')
<1>1. Going(t)
  BY DEF Recheck, Going, Quiet, Steady, Onto, Goto, Here, LocalsKept, NoLocals,
     Took, Adds, Drops, Counted, Op, Linked, Removed, Locating, Placed,
     Placing, Moving, Demoting, Unlinking, history, shape, heights
<1>2. Kind(t) => Kind(t)'
  BY DEF Recheck, Goto, Here, LocalsKept, NoLocals, Kind, Suits, Looking,
     Reading, Op
<1> QED BY <1>1, <1>2

LEMMA UndoGoes ==
    ASSUME NEW t \in Threads, Here(t), Undo(t)
    PROVE  Going(t) /\ (Kind(t) => Kind(t)')
<1>1. Going(t)
  BY DEF Undo, Going, Quiet, Steady, Onto, Goto, Here, LocalsKept, NoLocals,
     Took, Adds, Drops, Counted, Op, Linked, Removed, Locating, Placed,
     Placing, Moving, Demoting, Unlinking, history, shape, heights
<1>2. Kind(t) => Kind(t)'
  BY DEF Undo, Goto, Here, LocalsKept, NoLocals, Kind, Suits, Looking, Reading,
     Op
<1> QED BY <1>1, <1>2

(* The steps that take more telling.                                       *)
LEMMA OntoAway ==
    ASSUME NEW t \in Threads,
           pc'[t] \notin {"remove", "loccurr", "lookcurr", "lookdups", "lookpred",
                          "mark"} \cup Placed
    PROVE  Onto(t)
BY DEF Onto

LEMMA HelpNextGoes ==
    ASSUME NEW t \in Threads, Here(t), HelpNext(t)
    PROVE  Going(t) /\ (Kind(t) => Kind(t)')
<1>1. /\ pc[t] = "helpnext"
      /\ pc'[t] \in {"prev", "raise", "help", "count", "helpcas"}
  BY HelpedMoves DEF HelpNext, Goto, Here, LocalsKept
<1>2. loc'[t].ret = loc[t].ret /\ loc'[t].call = loc[t].call
  <2>1. CASE Helped(t) BY <2>1, HelpedMoves DEF Keep
  <2>2. CASE \E v : loc' = [loc EXCEPT ![t].curr = v]
    BY <2>2 DEF Here, LocalsKept, NoLocals
  <2> QED BY <2>1, <2>2 DEF HelpNext
<1>3. UNCHANGED <<live, seen, result, length>> BY DEF HelpNext, history
<1>4. Took(t) /\ Took(t)'
  BY <1>1 DEF Took, Linked
<1>5. Drops(t)' <=> Drops(t) BY <1>1, <1>2, <1>4 DEF Drops, Op, Counted
<1>6. Quiet(t) /\ Steady(t) BY <1>1, <1>2, <1>3, <1>4, <1>5 DEF Quiet, Steady
<1>7. Onto(t)
  BY <1>1, OntoAway DEF Placed, Placing, Moving, Demoting, Unlinking
<1>8. Kind(t) => Kind(t)' BY <1>1, <1>2, KindKept DEF Looking, Reading
<1> QED BY <1>6, <1>7, <1>8 DEF Going

LEMMA TossGoes ==
    ASSUME NEW t \in Threads, Here(t), Toss(t)
    PROVE  Going(t) /\ (Kind(t) => Kind(t)')
<1>1. pc[t] = "insert" /\ pc'[t] \in {"grow", "link"}
  BY DEF Toss, Goto, Here, LocalsKept
<1>2. /\ loc'[t].ret = loc[t].ret /\ loc'[t].call = loc[t].call
      /\ loc'[t].found = loc[t].found
  <2> DEFINE P(h) == [l \in Levels |->
                 IF l \in loc[t].top .. h THEN Head ELSE loc[t].preds[l]]
             S(h) == [l \in Levels |->
                 IF l \in loc[t].top .. h THEN Tail ELSE loc[t].succs[l]]
  <2>1. PICK h : loc' = [loc EXCEPT ![t].preds = P(h), ![t].succs = S(h),
                                    ![t].high = h]
    BY DEF Toss
  <2> HIDE DEF P, S
  <2> QED BY <2>1 DEF Here, LocalsKept, NoLocals
<1>3. UNCHANGED <<live, seen, result, length>> BY DEF Toss, history
<1>4. ~ Took(t) /\ ~ Took(t)'
  BY <1>1 DEF Took, Linked, Removed, Locating
<1>5. Drops(t)' <=> Drops(t) BY <1>4 DEF Drops
<1>6. Quiet(t) /\ Steady(t) BY <1>1, <1>2, <1>3, <1>4, <1>5 DEF Quiet, Steady
<1>7. Onto(t) BY <1>1, <1>2 DEF Onto, Placed, Placing
<1>8. Kind(t) => Kind(t)' BY <1>1, <1>2, KindKept DEF Looking, Reading
<1> QED BY <1>6, <1>7, <1>8 DEF Going

LEMMA SweptStays ==
    ASSUME NEW t \in Threads, Here(t), NEW me, LevelSwept(t, me),
           me.call = loc[t].call, me.ret = loc[t].ret, me.found = loc[t].found,
           me.preds = loc[t].preds, DOMAIN me = DOMAIN loc[t]
    PROVE  /\ loc'[t].ret = loc[t].ret /\ loc'[t].call = loc[t].call
           /\ loc'[t].found = loc[t].found /\ loc'[t].preds = loc[t].preds
           /\ pc'[t] \in {"sweephead", "sweep", "verify"}
<1>1. pc'[t] \in {"sweephead", "sweep", "verify"}
  BY DEF LevelSwept, Goto, Here, LocalsKept
<1>2. loc'[t] = me \/ \E v : loc'[t] = [me EXCEPT !.lvl = v]
  BY DEF LevelSwept, Here, LocalsKept
<1>3. {"call", "ret", "found", "preds"} \subseteq DOMAIN me
  BY DEF Here, LocalsKept, NoLocals
<1> QED BY <1>1, <1>2, <1>3

LEMMA SweepGoesOn ==
    ASSUME NEW t \in Threads, Here(t), pc[t] \in {"sweepcurr", "sweepcas"},
           pc'[t] \in {"sweephead", "sweep", "verify", "sweepcas", "sweepcurr"},
           loc'[t].ret = loc[t].ret, loc'[t].call = loc[t].call,
           loc'[t].found = loc[t].found, loc'[t].preds = loc[t].preds,
           UNCHANGED <<live, seen, result, length>>
    PROVE  Going(t) /\ (Kind(t) => Kind(t)')
<1>1. Op(t)' = Op(t) BY DEF Op
<1>2. Took(t)' <=> Took(t) BY <1>1 DEF Took, Linked, Removed, Locating
<1>3. Drops(t)' <=> Drops(t) BY <1>1, <1>2 DEF Drops, Counted
<1>4. Quiet(t) /\ Steady(t) BY <1>2, <1>3 DEF Quiet, Steady
<1>5. Onto(t) BY DEF Onto, Placed, Unlinking
<1>6. Kind(t) => Kind(t)' BY KindKept DEF Looking, Reading
<1> QED BY <1>4, <1>5, <1>6 DEF Going

LEMMA SweepCurrGoes ==
    ASSUME NEW t \in Threads, Here(t), SweepCurr(t)
    PROVE  Going(t) /\ (Kind(t) => Kind(t)')
<1>1. pc[t] = "sweepcurr" /\ UNCHANGED <<live, seen, result, length>>
  BY DEF SweepCurr, history
<1>2. CASE LevelSwept(t, loc[t])
  BY <1>1, <1>2, SweptStays, SweepGoesOn DEF Here, LocalsKept
<1>3. CASE /\ pc'[t] \in {"sweepcas", "sweepcurr"}
           /\ \/ \E v : loc' = [loc EXCEPT ![t].succ = v]
              \/ \E v, w : loc' = [loc EXCEPT ![t].pred = v, ![t].curr = w]
  <2>1. /\ loc'[t].ret = loc[t].ret /\ loc'[t].call = loc[t].call
        /\ loc'[t].found = loc[t].found /\ loc'[t].preds = loc[t].preds
    <3>1. CASE \E v : loc' = [loc EXCEPT ![t].succ = v]
      BY <3>1 DEF Here, LocalsKept, NoLocals
    <3>2. CASE \E v, w : loc' = [loc EXCEPT ![t].pred = v, ![t].curr = w]
      BY <3>2 DEF Here, LocalsKept, NoLocals
    <3> QED BY <1>3, <3>1, <3>2
  <2> QED BY <1>1, <1>3, <2>1, SweepGoesOn
<1> QED BY <1>1, <1>2, <1>3 DEF SweepCurr, Goto, Here, LocalsKept

LEMMA SweepCasGoes ==
    ASSUME NEW t \in Threads, Here(t), SweepCas(t)
    PROVE  Going(t) /\ (Kind(t) => Kind(t)')
<1>1. pc[t] = "sweepcas" /\ UNCHANGED <<live, seen, result, length>>
  BY DEF SweepCas, history
<1>2. CASE LevelSwept(t, loc[t])
  BY <1>1, <1>2, SweptStays, SweepGoesOn DEF Here, LocalsKept
<1>3. CASE pc'[t] = "sweepcurr" /\ \E v : loc' = [loc EXCEPT ![t].curr = v]
  <2>1. /\ loc'[t].ret = loc[t].ret /\ loc'[t].call = loc[t].call
        /\ loc'[t].found = loc[t].found /\ loc'[t].preds = loc[t].preds
    BY <1>3 DEF Here, LocalsKept, NoLocals
  <2> QED BY <1>1, <1>3, <2>1, SweepGoesOn
<1>4. CASE LevelSwept(t, [loc[t] EXCEPT !.again = TRUE])
  <2> DEFINE me == [loc[t] EXCEPT !.again = TRUE]
  <2>1. /\ me.call = loc[t].call /\ me.ret = loc[t].ret /\ me.found = loc[t].found
        /\ me.preds = loc[t].preds /\ DOMAIN me = DOMAIN loc[t]
    BY DEF Here, LocalsKept, NoLocals
  <2>2. LevelSwept(t, me) BY <1>4
  <2> HIDE DEF me
  <2> QED BY <1>1, <2>1, <2>2, SweptStays, SweepGoesOn
<1> QED BY <1>1, <1>2, <1>3, <1>4 DEF SweepCas, Goto, Here, LocalsKept

LEMMA RebNodeGoes ==
    ASSUME NEW t \in Threads, Here(t), RebNode(t)
    PROVE  Going(t) /\ (Kind(t) => Kind(t)')
<1>1. pc[t] = "rebnode" /\ UNCHANGED <<live, seen, result, length>>
  BY DEF RebNode, history
<1>2. /\ loc'[t].ret = loc[t].ret /\ loc'[t].call = loc[t].call
      /\ loc'[t].found = loc[t].found /\ loc'[t].preds = loc[t].preds
  <2>1. \/ loc' = loc
        \/ \E v : loc' = [loc EXCEPT ![t].idx = v]
        \/ \E v, w : loc' = [loc EXCEPT ![t].node = v, ![t].share = w]
    BY DEF RebNode
  <2>2. CASE \E v : loc' = [loc EXCEPT ![t].idx = v]
    BY <2>2 DEF Here, LocalsKept, NoLocals
  <2>3. CASE \E v, w : loc' = [loc EXCEPT ![t].node = v, ![t].share = w]
    BY <2>3 DEF Here, LocalsKept, NoLocals
  <2> QED BY <2>1, <2>2, <2>3
<1>3. pc'[t] \in {"rebnode", "rebheight", loc[t].ret}
  BY DEF RebNode, Goto, Here, LocalsKept
<1>4. loc[t].ret \in Entries \ {"remove", "relink"}
  BY <1>1 DEF Here, PlaceInv, InCall, NotRelinking, RemoveOnly, Marking, Retiring,
     Unlinking, Locating
<1>5. Op(t)' = Op(t) BY <1>2 DEF Op
<1>6. ~ Took(t) /\ ~ Took(t)'
  BY <1>1, <1>3, <1>4 DEF Took, Linked, Removed, Locating, Entries
<1>7. Quiet(t) /\ Steady(t)
  BY <1>1, <1>2, <1>3, <1>4, <1>6 DEF Quiet, Steady, Drops, Entries
<1>8. Onto(t) BY <1>1, <1>2, <1>3, <1>4 DEF Onto, Placed, Entries
<1>9. Kind(t) => Kind(t)'
  BY <1>1, <1>2, <1>3, KindKept DEF Looking, Reading
<1> QED BY <1>7, <1>8, <1>9 DEF Going

LEMMA UndoCasGoes ==
    ASSUME NEW t \in Threads, Here(t), UndoCas(t)
    PROVE  Going(t) /\ (Kind(t) => Kind(t)')
<1>1. /\ pc[t] = "undocas" /\ UNCHANGED <<live, seen, result, length, loc>>
      /\ pc'[t] \in {"rebnext", "unlink"}
  BY DEF UndoCas, history, Goto, Here, LocalsKept
<1>2. Op(t) # "remove" /\ Op(t)' = Op(t)
  BY <1>1 DEF Here, PlaceInv, InCall, RemoveOnly, Marking, Retiring,
     Unlinking, Locating, Op
<1>3. ~ Took(t) /\ ~ Took(t)'
  BY <1>1, <1>2 DEF Took, Linked, Removed, Locating
<1>4. Quiet(t) /\ Steady(t) BY <1>1, <1>3 DEF Quiet, Steady, Drops
<1>5. Onto(t) BY <1>1 DEF Onto, Placed, Moving, Unlinking
<1>6. Kind(t) => Kind(t)' BY <1>1, KindKept DEF Looking, Reading
<1> QED BY <1>4, <1>5, <1>6 DEF Going

-----------------------------------------------------------------------------
(* The steps that learn something of the set and stay in the call.         *)
LEMMA StaysQuiet ==
    ASSUME NEW t \in Threads, Here(t), pc[t] # "idle", pc'[t] # "idle",
           loc'[t].ret = loc[t].ret, loc'[t].call = loc[t].call,
           {pc[t], pc'[t]} \subseteq Locating \/
           {pc[t], pc'[t]} \cap (Linked \cup Removed \cup Locating) = {},
           UNCHANGED <<live, seen, result, length>>
    PROVE  Quiet(t) /\ Steady(t)
<1>1. Op(t)' = Op(t) BY DEF Op
<1>2. Took(t)' <=> Took(t) BY <1>1 DEF Took, Linked, Removed, Locating
<1>3. Drops(t)' <=> Drops(t)
  BY <1>1, <1>2 DEF Drops, Took, Linked, Removed, Locating, Counted
<1> QED BY <1>2, <1>3 DEF Quiet, Steady

LEMMA LocPredQuiet ==
    ASSUME NEW t \in Threads, Here(t), LocPred(t)
    PROVE  Quiet(t) /\ Steady(t) /\ (Kind(t) => Kind(t)')
<1>1. pc[t] = "locpred" /\ pc'[t] \in {"locate", "loccurr"}
  BY DEF LocPred, Goto, Here, LocalsKept
<1>2. loc'[t].ret = loc[t].ret /\ loc'[t].call = loc[t].call
  <2>1. loc' = loc \/ \E v : loc' = [loc EXCEPT ![t].curr = v] BY DEF LocPred
  <2> QED BY <2>1 DEF Here, LocalsKept, NoLocals
<1>3. UNCHANGED <<live, seen, result, length>> BY DEF LocPred, history
<1>4. Kind(t) => Kind(t)' BY <1>1, <1>2, KindKept DEF Looking, Reading
<1> QED BY <1>1, <1>2, <1>3, <1>4, StaysQuiet DEF Locating

LEMMA LocHelpQuiet ==
    ASSUME NEW t \in Threads, Here(t), LocHelp(t)
    PROVE  Quiet(t) /\ Steady(t) /\ (Kind(t) => Kind(t)')
<1>1. pc[t] = "lochelp" /\ pc'[t] \in {"locate", "loccurr"}
  BY DEF LocHelp, Goto, Here, LocalsKept
<1>2. loc'[t].ret = loc[t].ret /\ loc'[t].call = loc[t].call
  <2>1. loc' = loc \/ \E v : loc' = [loc EXCEPT ![t].curr = v] BY DEF LocHelp
  <2> QED BY <2>1 DEF Here, LocalsKept, NoLocals
<1>3. UNCHANGED <<live, seen, result, length>> BY DEF LocHelp, history
<1>4. Kind(t) => Kind(t)' BY <1>1, <1>2, KindKept DEF Looking, Reading
<1> QED BY <1>1, <1>2, <1>3, <1>4, StaysQuiet DEF Locating

LEMMA LocAdvanceQuiet ==
    ASSUME NEW t \in Threads, Here(t), LocAdvance(t)
    PROVE  Quiet(t) /\ Steady(t) /\ (Kind(t) => Kind(t)')
<1>1. pc[t] = "loccurr" /\ pc'[t] = "loccurr" BY DEF LocAdvance
<1>2. loc'[t].ret = loc[t].ret /\ loc'[t].call = loc[t].call
  <2>1. \E v, w : loc' = [loc EXCEPT ![t].pred = v, ![t].curr = w]
    BY DEF LocAdvance
  <2> QED BY <2>1 DEF Here, LocalsKept, NoLocals
<1>3. UNCHANGED <<live, seen, result, length>> BY DEF LocAdvance, history
<1>4. Kind(t) => Kind(t)' BY <1>1, <1>2, KindKept DEF Looking, Reading
<1> QED BY <1>1, <1>2, <1>3, <1>4, StaysQuiet DEF Locating

LEMMA LocRecordMoves ==
    ASSUME NEW t \in Threads, Here(t), LocRecord(t)
    PROVE  /\ loc'[t].ret = loc[t].ret /\ loc'[t].call = loc[t].call
           /\ \/ pc'[t] = "locpred" /\ loc[t].lvl > 0
              \/ /\ pc'[t] = loc[t].ret /\ loc[t].lvl = 0
                 /\ loc'[t].found =
                       IF Equal(loc[t].curr, Key(t)) THEN loc[t].curr ELSE Nil
<1> DEFINE here == [loc EXCEPT ![t].preds[loc[t].lvl] = loc[t].pred,
                               ![t].succs[loc[t].lvl] = loc[t].curr]
           f == IF Equal(loc[t].curr, Key(t)) THEN loc[t].curr ELSE Nil
<1>1. /\ DOMAIN here = Threads /\ DOMAIN here[t] = DOMAIN loc[t]
      /\ here[t].ret = loc[t].ret /\ here[t].call = loc[t].call
  BY DEF Here, LocalsKept, NoLocals
<1>2. \/ /\ pc'[t] = "locpred" /\ loc[t].lvl > 0
         /\ \E v : loc' = [here EXCEPT ![t].lvl = v]
      \/ /\ pc'[t] = loc[t].ret /\ loc[t].lvl = 0
         /\ loc' = [here EXCEPT ![t].found = f]
  BY DEF LocRecord, Goto, Here, LocalsKept
<1> HIDE DEF here, f
<1>3. CASE /\ pc'[t] = "locpred" /\ loc[t].lvl > 0
           /\ \E v : loc' = [here EXCEPT ![t].lvl = v]
  BY <1>1, <1>3 DEF Here, LocalsKept, NoLocals
<1>4. CASE /\ pc'[t] = loc[t].ret /\ loc[t].lvl = 0
           /\ loc' = [here EXCEPT ![t].found = f]
  BY <1>1, <1>4 DEF Here, LocalsKept, NoLocals, f
<1> QED BY <1>2, <1>3, <1>4

LEMMA LocRecordQuiet ==
    ASSUME NEW t \in Threads, Here(t), LocRecord(t)
    PROVE  Quiet(t) /\ Steady(t) /\ (Kind(t) => Kind(t)')
<1>1. /\ pc[t] = "loccurr" /\ loc'[t].ret = loc[t].ret
      /\ loc'[t].call = loc[t].call /\ pc'[t] \in {"locpred", loc[t].ret}
  BY LocRecordMoves DEF LocRecord
<1>2. loc[t].ret \in Entries BY <1>1 DEF Here, PlaceInv, InCall
<1>3. UNCHANGED <<live, seen, result, length>> BY DEF LocRecord, history
<1>4. Kind(t) => Kind(t)'
  BY <1>1, KindKept DEF Looking, Reading
<1>5. Op(t)' = Op(t) BY <1>1 DEF Op
<1>6. Took(t)' <=> Took(t)
  BY <1>1, <1>2, <1>5 DEF Took, Linked, Removed, Locating, Entries
<1>7. Drops(t)' <=> Drops(t)
  BY <1>1, <1>2, <1>5, <1>6 DEF Drops, Counted, Entries
<1> QED
  BY <1>1, <1>2, <1>3, <1>4, <1>6, <1>7 DEF Quiet, Steady, Entries

LEMMA LookPredQuiet ==
    ASSUME NEW t \in Threads, Here(t), LookPred(t)
    PROVE  Quiet(t) /\ Steady(t) /\ (Kind(t) => Kind(t)')
<1>1. pc[t] = "lookpred" /\ pc'[t] \in {"lookup", "lookcurr"}
  BY DEF LookPred, Goto, Here, LocalsKept
<1>2. loc'[t].ret = loc[t].ret /\ loc'[t].call = loc[t].call
  <2>1. loc' = loc \/ \E v : loc' = [loc EXCEPT ![t].curr = v] BY DEF LookPred
  <2> QED BY <2>1 DEF Here, LocalsKept, NoLocals
<1>3. UNCHANGED <<live, seen, result, length>> BY DEF LookPred, history
<1>4. Kind(t) => Kind(t)' BY <1>1, <1>2 DEF Kind, Suits, Op, Looking, Reading
<1> QED
  BY <1>1, <1>2, <1>3, <1>4, StaysQuiet DEF Locating, Linked, Removed

(* A cursor that goes on, and a lookup that does.                          *)
LEMMA CursorQuiet ==
    ASSUME NEW t \in Threads, Here(t), pc[t] \in Reading \cup Looking,
           pc'[t] \in Reading \cup Looking,
           \A op : Suits(pc[t], op) => Suits(pc'[t], op),
           loc'[t].ret = loc[t].ret, loc'[t].call = loc[t].call,
           UNCHANGED <<live, seen, result, length>>
    PROVE  Quiet(t) /\ Steady(t) /\ (Kind(t) => Kind(t)')
<1>1. pc[t] # "idle" /\ pc'[t] # "idle" BY DEF Looking, Reading
<1>2. Kind(t) => Kind(t)' BY <1>1 DEF Kind, Op
<1>3. /\ pc[t] # "idle" /\ pc'[t] # "idle"
      /\ {pc[t], pc'[t]} \cap (Linked \cup Removed \cup Locating) = {}
  BY DEF Looking, Reading, Linked, Removed, Locating
<1> QED BY <1>2, <1>3, StaysQuiet

-----------------------------------------------------------------------------
(* Where a walk of level 0 finds a key, if the list has it.                *)
Ahead(c, k) == \A x \in live : KeyOf[x] = k => x \in {c} \cup From(c, 0)

LEMMA KeyNumber ==
    ASSUME NEW t \in Threads, Called(t), pc[t] # "idle"
    PROVE  Key(t) \in Nat
BY CallsAssumption DEF Called, Key

LEMMA LiveNodes ==
    ASSUME Words
    PROVE  \A x \in live : x \in Nodes /\ x \in Known /\ KeyOf[x] \in Nat
           /\ x # Tail /\ ~ Marked(x, 0)
BY SkipListAssumption DEF Words, Known

LEMMA LiveInOrder ==
    ASSUME Words, Reach, ~ hasDups, NEW x \in live, NEW c,
           c = Head \/ (c \in live /\ KeyOf[c] < KeyOf[x])
    PROVE  x \in From(c, 0)
<1>1. \A n \in live : n \in Walk(0) BY ReachedLive
<1>2. CASE c = Head BY <1>1, <1>2 DEF Walk
<1>3. CASE c \in live /\ KeyOf[c] < KeyOf[x]
  <2>1. /\ c \in Known /\ x \in Known /\ c \in Nodes /\ c # Tail
        /\ KeyOf[c] \in Nat /\ KeyOf[x] \in Nat
    BY <1>3, LiveNodes
  <2>2. c # x BY <1>3, <2>1
  <2>3. c \in From(x, 0) \/ x \in From(c, 0) BY <1>1, <1>3, <2>1, <2>2, Linear
  <2>4. c \in From(x, 0) => KeyOf[x] < KeyOf[c] BY <2>1, FromAbove
  <2> QED BY <1>3, <2>1, <2>3, <2>4
<1> QED BY <1>2, <1>3

LEMMA NextAhead ==
    ASSUME Words, NEW c \in Before0, NEW x \in Nodes, x \in From(c, 0)
    PROVE  x \in {next[c, 0]} \cup From(next[c, 0], 0)
<1>1. next[c, 0] \in Known \cup {Tail}
  BY LinkedWord, ConstantFacts DEF Beyond
<1>2. CASE next[c, 0] = Tail
  <2>1. Closed(c, 0, {Tail}) /\ {Tail} \in SUBSET (Nodes \cup {Tail})
    BY <1>2 DEF Closed
  <2> QED BY <2>1, ConstantFacts DEF From
<1>3. CASE next[c, 0] \in Known BY <1>3, FromNext
<1> QED BY <1>1, <1>2, <1>3

LEMMA StartAhead ==
    ASSUME Words, Reach, ~ hasDups, NEW k, NEW c \in live \cup {Head},
           Before(c, k)
    PROVE  Ahead(next[c, 0], k)
<1>1. c \in Before0 BY DEF Before0, Known
<1>2. ASSUME NEW x \in live, KeyOf[x] = k
      PROVE  x \in {next[c, 0]} \cup From(next[c, 0], 0)
  <2>1. c = Head \/ (c \in live /\ KeyOf[c] < KeyOf[x])
    BY <1>2 DEF Before
  <2>2. x \in From(c, 0) BY <2>1, LiveInOrder
  <2> QED BY <1>1, <2>2, NextAhead, LiveNodes
<1> QED BY <1>2 DEF Ahead

LEMMA StepAhead ==
    ASSUME Words, NEW k, NEW c \in Known, Ahead(c, k),
           c \notin live \/ KeyOf[c] # k
    PROVE  Ahead(next[c, 0], k)
<1>1. c \in Before0 BY DEF Before0
<1>2. ASSUME NEW x \in live, KeyOf[x] = k
      PROVE  x \in {next[c, 0]} \cup From(next[c, 0], 0)
  <2>1. x \in From(c, 0) BY <1>2 DEF Ahead
  <2> QED BY <1>1, <2>1, NextAhead, LiveNodes
<1> QED BY <1>2 DEF Ahead

LEMMA PastAhead ==
    ASSUME Words, ~ hasDups, NEW k \in Nat, NEW c \in Known \cup {Tail},
           After(c, k), Ahead(c, k)
    PROVE  ~ Has(live, k)
<1> SUFFICES ASSUME NEW x \in live, KeyOf[x] = k PROVE FALSE BY DEF Has
<1>1. x \in Nodes /\ x # Tail BY LiveNodes
<1>2. x \in {c} \cup From(c, 0) BY DEF Ahead
<1>3. CASE c = Tail
  <2>1. Closed(c, 0, {}) /\ {} \in SUBSET (Nodes \cup {Tail})
    BY <1>3 DEF Closed
  <2>2. From(c, 0) = {} BY <2>1 DEF From
  <2> QED BY <1>1, <1>2, <1>3, <2>2
<1>4. CASE c \in Known /\ c # Tail
  <2>1. c \in Nodes /\ KeyOf[c] \in Nat BY <1>4, KnownNodes, SkipListAssumption
  <2>2. KeyOf[c] > k BY <1>4 DEF After
  <2>3. x # c BY <2>1, <2>2
  <2>4. KeyOf[c] < KeyOf[x] BY <1>1, <1>2, <1>4, <2>3, FromAbove
  <2> QED BY <2>1, <2>2, <2>4
<1> QED BY <1>3, <1>4

(* Answers, as members of the set of what a call has seen.                 *)
LEMMA SeenFalse ==
    ASSUME NEW S, NEW k, NEW X, Has(S, k) \in X, ~ Has(S, k)
    PROVE  FALSE \in X
<1>1. Has(S, k) = FALSE BY DEF Has
<1> QED BY <1>1

LEMMA SeenTrue ==
    ASSUME NEW S, NEW k, NEW X, Has(S, k) \in X, Has(S, k)
    PROVE  TRUE \in X
<1>1. Has(S, k) = TRUE BY DEF Has
<1> QED BY <1>1

-----------------------------------------------------------------------------
(* What a call in progress has seen of its key.                            *)
SeenOf(t) ==
    LET me == loc[t]  k == Key(t)
    IN /\ seen[t] \subseteq BOOLEAN
       /\ pc[t] # "idle" => Has(live, k) \in seen[t]
       /\ pc[t] = "loccurr" /\ me.lvl = 0 /\ After(me.curr, k) =>
             FALSE \in seen[t]
       /\ pc[t] \in Placed =>
             IF me.found = Nil THEN FALSE \in seen[t] ELSE TRUE \in seen[t]
       /\ pc[t] \in Marking /\ me.found # Nil /\ Marked(me.found, 0) =>
             FALSE \in seen[t]
       /\ pc[t] = "mark" => me.found # Nil /\ me.node = me.found
       /\ pc[t] \in {"lookpred", "lookcurr", "lookdups"} => Before(me.pred, k)
       /\ pc[t] = "lookcurr" /\ me.lvl = 0 =>
             me.curr # Nil /\ (FALSE \in seen[t] \/ Ahead(me.curr, k))

(* What a call may answer, a node a lookup found apart.                    *)
Fits(t, r) ==
    \/ Op(t) \in CursorOps \/ r = "found"
    \/ r = "ok" /\ Took(t)
    \/ r = "ok" /\ Op(t) = "remove" /\ seen[t] = BOOLEAN
    \/ r = "exists" /\ Op(t) = "insert" /\ ~ Took(t) /\ TRUE \in seen[t]
    \/ r = "noent" /\ Op(t) = "remove" /\ ~ Took(t) /\ FALSE \in seen[t]
    \/ r = "missing" /\ Op(t) = "contains" /\ FALSE \in seen[t]

(* A step that ends a call, as the set and as the length see it.           *)
Ends(t) ==
    \E r : Return(t, r) /\ (Kind(t) /\ SeenOf(t) /\ ~ hasDups => Fits(t, r))
Uncounted(t) == ~ Adds(t) /\ ~ Drops(t) /\ length' = length

-----------------------------------------------------------------------------
(* The steps that end a call.                                              *)
LEMMA NotCounting ==
    ASSUME NEW t \in Threads, pc[t] \notin Linked \cup Removed \cup Locating,
           length' = length
    PROVE  ~ Took(t) /\ Uncounted(t)
BY DEF Took, Uncounted, Adds, Drops

LEMMA ReadingEnds ==
    ASSUME NEW t \in Threads, pc[t] \in Reading, NEW r, Return(t, r),
           length' = length
    PROVE  Ends(t) /\ Uncounted(t)
<1>1. pc[t] \notin Linked \cup Removed \cup Locating /\ pc[t] # "idle"
  BY DEF Reading, Linked, Removed, Locating
<1>2. Kind(t) => Op(t) \in CursorOps BY <1>1 DEF Kind, Suits
<1> QED BY <1>1, <1>2, NotCounting DEF Ends, Fits

LEMMA ExistsEnds ==
    ASSUME NEW t \in Threads, Here(t), Exists(t)
    PROVE  Ends(t) /\ Uncounted(t)
<1>1. /\ pc[t] = "insert" /\ loc[t].found # Nil /\ Op(t) = "insert"
      /\ Return(t, "exists") /\ length' = length
  BY DEF Exists, Op
<1>2. ~ Took(t) /\ Uncounted(t)
  BY <1>1, NotCounting DEF Linked, Removed, Locating
<1>3. SeenOf(t) => TRUE \in seen[t] BY <1>1 DEF SeenOf, Placed
<1> QED BY <1>1, <1>2, <1>3 DEF Ends, Fits

LEMMA NoEntryEnds ==
    ASSUME NEW t \in Threads, Here(t), NoEntry(t)
    PROVE  Ends(t) /\ Uncounted(t)
<1>1. /\ pc[t] = "remove" /\ loc[t].found = Nil
      /\ Return(t, "noent") /\ length' = length
  BY DEF NoEntry
<1>2. ~ Took(t) /\ Uncounted(t)
  BY <1>1, NotCounting DEF Linked, Removed, Locating
<1>3. SeenOf(t) => FALSE \in seen[t] BY <1>1 DEF SeenOf, Placed
<1>4. Op(t) = "remove"
  BY <1>1 DEF Here, PlaceInv, InCall, RemoveOnly, Marking
<1> QED BY <1>1, <1>2, <1>3, <1>4 DEF Ends, Fits

LEMMA AdjustEnds ==
    ASSUME NEW t \in Threads, Here(t), Adjust(t)
    PROVE  Ends(t) /\ Uncounted(t)
<1>1. pc[t] = "adjust" /\ Return(t, "ok") /\ length' = length
  BY DEF Adjust
<1>2. Op(t) = "remove" BY <1>1 DEF Here, PlaceInv, InCall, RemoveOnly
<1>3. Took(t) BY <1>1, <1>2 DEF Took, Removed
<1>4. Uncounted(t) BY <1>1, <1>2 DEF Uncounted, Adds, Drops, Counted
<1> QED BY <1>1, <1>3, <1>4 DEF Ends, Fits

(* An insert counts its node when it returns.                              *)
LEMMA CountEnds ==
    ASSUME NEW t \in Threads, Here(t), Count(t)
    PROVE  Ends(t) /\ Adds(t) /\ ~ Drops(t) /\ length' = length + 1
<1>1. pc[t] = "count" /\ Return(t, "ok") /\ length' = length + 1
  BY DEF Count
<1>2. Op(t) # "remove"
  BY <1>1 DEF Here, PlaceInv, InCall, RemoveOnly, Marking, Retiring, Locating,
     Unlinking
<1>3. Took(t) BY <1>1 DEF Took, Linked
<1> QED BY <1>1, <1>2, <1>3 DEF Ends, Fits, Adds, Drops

LEMMA FoundAtEnds ==
    ASSUME NEW t \in Threads, Here(t), FoundAt(t)
    PROVE  Ends(t) /\ Uncounted(t)
<1>1. /\ pc[t] = "found" /\ length' = length
      /\ \/ loc[t].found = Nil /\ Return(t, "missing")
         \/ loc[t].found # Nil /\ Return(t, "found")
  BY DEF FoundAt
<1>2. Uncounted(t) BY <1>1, NotCounting DEF Linked, Removed, Locating
<1>3. Kind(t) => Op(t) = "contains" BY <1>1 DEF Kind, Suits, Looking
<1>4. SeenOf(t) /\ loc[t].found = Nil => FALSE \in seen[t]
  BY <1>1 DEF SeenOf, Placed
<1> QED BY <1>1, <1>2, <1>3, <1>4 DEF Ends, Fits

LEMMA PositionLowEnds ==
    ASSUME NEW t \in Threads, Here(t), PositionLow(t)
    PROVE  Ends(t) /\ Uncounted(t)
<1>1. pc[t] = "position" /\ length' = length /\ \E r : Return(t, r)
  BY DEF PositionLow, Answer
<1> QED BY <1>1, ReadingEnds DEF Reading

LEMMA RehintEnds ==
    ASSUME NEW t \in Threads, Here(t), Rehint(t)
    PROVE  Ends(t) /\ Uncounted(t)
<1>1. pc[t] = "rehint" /\ length' = length /\ \E r : Return(t, r)
  BY DEF Rehint, Answer
<1> QED BY <1>1, ReadingEnds DEF Reading

(* A cursor's steps, of which some end the call.                           *)

LEMMA ScanGoes ==
    ASSUME NEW t \in Threads, Here(t), Scan(t)
    PROVE  \/ Ends(t) /\ Uncounted(t)
           \/ Quiet(t) /\ Steady(t) /\ Onto(t) /\ (Kind(t) => Kind(t)')
<1>1. /\ pc[t] = "scan" /\ length' = length
      /\ \/ \E r : Return(t, r)
         \/ /\ pc'[t] = "scantest" /\ UNCHANGED <<live, seen, result>>
            /\ \E v : loc' = [loc EXCEPT ![t].curr = v]
  BY DEF Scan, Answer, Goto, history, Here, LocalsKept
<1>2. CASE \E r : Return(t, r) BY <1>1, <1>2, ReadingEnds DEF Reading
<1>3. CASE /\ pc'[t] = "scantest" /\ UNCHANGED <<live, seen, result>>
           /\ \E v : loc' = [loc EXCEPT ![t].curr = v]
  <2>1. loc'[t].ret = loc[t].ret /\ loc'[t].call = loc[t].call
    BY <1>3 DEF Here, LocalsKept, NoLocals
  <2>2. \A op : Suits(pc[t], op) => Suits(pc'[t], op)
    BY <1>1, <1>3 DEF Suits, Looking, Reading
  <2>3. Quiet(t) /\ Steady(t) /\ (Kind(t) => Kind(t)')
    BY <1>1, <1>3, <2>1, <2>2, CursorQuiet DEF Reading
  <2>4. Onto(t)
    BY <1>3, OntoAway DEF Placed, Placing, Moving, Demoting, Unlinking
  <2> QED BY <2>3, <2>4
<1> QED BY <1>1, <1>2, <1>3

LEMMA ScanTestGoes ==
    ASSUME NEW t \in Threads, Here(t), ScanTest(t)
    PROVE  \/ Ends(t) /\ Uncounted(t)
           \/ Quiet(t) /\ Steady(t) /\ Onto(t) /\ (Kind(t) => Kind(t)')
<1>1. /\ pc[t] = "scantest" /\ length' = length
      /\ \/ \E r : Return(t, r)
         \/ /\ pc'[t] = "scan" /\ UNCHANGED <<live, seen, result>>
            /\ loc' = loc
  BY DEF ScanTest, Answer, Goto, history, Here, LocalsKept
<1>2. CASE \E r : Return(t, r) BY <1>1, <1>2, ReadingEnds DEF Reading
<1>3. CASE /\ pc'[t] = "scan" /\ UNCHANGED <<live, seen, result>>
           /\ loc' = loc
  <2>1. loc'[t].ret = loc[t].ret /\ loc'[t].call = loc[t].call
    BY <1>3 DEF Here, LocalsKept, NoLocals
  <2>2. \A op : Suits(pc[t], op) => Suits(pc'[t], op)
    BY <1>1, <1>3 DEF Suits, Looking, Reading
  <2>3. Quiet(t) /\ Steady(t) /\ (Kind(t) => Kind(t)')
    BY <1>1, <1>3, <2>1, <2>2, CursorQuiet DEF Reading
  <2>4. Onto(t)
    BY <1>3, OntoAway DEF Placed, Placing, Moving, Demoting, Unlinking
  <2> QED BY <2>3, <2>4
<1> QED BY <1>1, <1>2, <1>3

LEMMA ForwardGoes ==
    ASSUME NEW t \in Threads, Here(t), Forward(t)
    PROVE  \/ Ends(t) /\ Uncounted(t)
           \/ Quiet(t) /\ Steady(t) /\ Onto(t) /\ (Kind(t) => Kind(t)')
<1>1. /\ pc[t] = "forward" /\ length' = length
      /\ \/ \E r : Return(t, r)
         \/ /\ pc'[t] = "forward" /\ UNCHANGED <<live, seen, result>>
            /\ \E v, w : loc' = [loc EXCEPT ![t].curr = v, ![t].met = w]
  BY DEF Forward, Answer, Goto, history, Here, LocalsKept
<1>2. CASE \E r : Return(t, r) BY <1>1, <1>2, ReadingEnds DEF Reading
<1>3. CASE /\ pc'[t] = "forward" /\ UNCHANGED <<live, seen, result>>
           /\ \E v, w : loc' = [loc EXCEPT ![t].curr = v, ![t].met = w]
  <2>1. loc'[t].ret = loc[t].ret /\ loc'[t].call = loc[t].call
    BY <1>3 DEF Here, LocalsKept, NoLocals
  <2>2. \A op : Suits(pc[t], op) => Suits(pc'[t], op)
    BY <1>1, <1>3 DEF Suits, Looking, Reading
  <2>3. Quiet(t) /\ Steady(t) /\ (Kind(t) => Kind(t)')
    BY <1>1, <1>3, <2>1, <2>2, CursorQuiet DEF Reading
  <2>4. Onto(t)
    BY <1>3, OntoAway DEF Placed, Placing, Moving, Demoting, Unlinking
  <2> QED BY <2>3, <2>4
<1> QED BY <1>1, <1>2, <1>3

LEMMA FollowGoes ==
    ASSUME NEW t \in Threads, Here(t), Follow(t)
    PROVE  \/ Ends(t) /\ Uncounted(t)
           \/ Quiet(t) /\ Steady(t) /\ Onto(t) /\ (Kind(t) => Kind(t)')
<1>1. /\ pc[t] = "backward" /\ length' = length
      /\ \/ \E r : Return(t, r)
         \/ /\ pc'[t] = "backward" /\ UNCHANGED <<live, seen, result>>
            /\ \E v, w : loc' = [loc EXCEPT ![t].curr = v, ![t].met = w]
  BY DEF Follow, Answer, Goto, history, Here, LocalsKept
<1>2. CASE \E r : Return(t, r) BY <1>1, <1>2, ReadingEnds DEF Reading
<1>3. CASE /\ pc'[t] = "backward" /\ UNCHANGED <<live, seen, result>>
           /\ \E v, w : loc' = [loc EXCEPT ![t].curr = v, ![t].met = w]
  <2>1. loc'[t].ret = loc[t].ret /\ loc'[t].call = loc[t].call
    BY <1>3 DEF Here, LocalsKept, NoLocals
  <2>2. \A op : Suits(pc[t], op) => Suits(pc'[t], op)
    BY <1>1, <1>3 DEF Suits, Looking, Reading
  <2>3. Quiet(t) /\ Steady(t) /\ (Kind(t) => Kind(t)')
    BY <1>1, <1>3, <2>1, <2>2, CursorQuiet DEF Reading
  <2>4. Onto(t)
    BY <1>3, OntoAway DEF Placed, Placing, Moving, Demoting, Unlinking
  <2> QED BY <2>3, <2>4
<1> QED BY <1>1, <1>2, <1>3

LEMMA HintGoes ==
    ASSUME NEW t \in Threads, Here(t), Hint(t)
    PROVE  \/ Ends(t) /\ Uncounted(t)
           \/ Quiet(t) /\ Steady(t) /\ Onto(t) /\ (Kind(t) => Kind(t)')
<1>1. /\ pc[t] = "hint" /\ length' = length
      /\ \/ \E r : Return(t, r)
         \/ /\ pc'[t] = "checkhint" /\ UNCHANGED <<live, seen, result>>
            /\ \E v, w : loc' = [loc EXCEPT ![t].node = v, ![t].hint = w]
  BY DEF Hint, Answer, Goto, history, Here, LocalsKept
<1>2. CASE \E r : Return(t, r) BY <1>1, <1>2, ReadingEnds DEF Reading
<1>3. CASE /\ pc'[t] = "checkhint" /\ UNCHANGED <<live, seen, result>>
           /\ \E v, w : loc' = [loc EXCEPT ![t].node = v, ![t].hint = w]
  <2>1. loc'[t].ret = loc[t].ret /\ loc'[t].call = loc[t].call
    BY <1>3 DEF Here, LocalsKept, NoLocals
  <2>2. \A op : Suits(pc[t], op) => Suits(pc'[t], op)
    BY <1>1, <1>3 DEF Suits, Looking, Reading
  <2>3. Quiet(t) /\ Steady(t) /\ (Kind(t) => Kind(t)')
    BY <1>1, <1>3, <2>1, <2>2, CursorQuiet DEF Reading
  <2>4. Onto(t)
    BY <1>3, OntoAway DEF Placed, Placing, Moving, Demoting, Unlinking
  <2> QED BY <2>3, <2>4
<1> QED BY <1>1, <1>2, <1>3

LEMMA CheckHintGoes ==
    ASSUME NEW t \in Threads, Here(t), CheckHint(t)
    PROVE  \/ Ends(t) /\ Uncounted(t)
           \/ Quiet(t) /\ Steady(t) /\ Onto(t) /\ (Kind(t) => Kind(t)')
<1>1. /\ pc[t] = "checkhint" /\ length' = length
      /\ \/ \E r : Return(t, r)
         \/ /\ pc'[t] = "rescan" /\ UNCHANGED <<live, seen, result>>
            /\ \E v, w : loc' = [loc EXCEPT ![t].pred = v, ![t].curr = w]
  BY DEF CheckHint, Answer, Goto, history, Here, LocalsKept
<1>2. CASE \E r : Return(t, r) BY <1>1, <1>2, ReadingEnds DEF Reading
<1>3. CASE /\ pc'[t] = "rescan" /\ UNCHANGED <<live, seen, result>>
           /\ \E v, w : loc' = [loc EXCEPT ![t].pred = v, ![t].curr = w]
  <2>1. loc'[t].ret = loc[t].ret /\ loc'[t].call = loc[t].call
    BY <1>3 DEF Here, LocalsKept, NoLocals
  <2>2. \A op : Suits(pc[t], op) => Suits(pc'[t], op)
    BY <1>1, <1>3 DEF Suits, Looking, Reading
  <2>3. Quiet(t) /\ Steady(t) /\ (Kind(t) => Kind(t)')
    BY <1>1, <1>3, <2>1, <2>2, CursorQuiet DEF Reading
  <2>4. Onto(t)
    BY <1>3, OntoAway DEF Placed, Placing, Moving, Demoting, Unlinking
  <2> QED BY <2>3, <2>4
<1> QED BY <1>1, <1>2, <1>3

(* A lookup's steps, of which some end the call.                           *)
LEMMA FoundEnds ==
    ASSUME NEW t \in Threads, pc[t] \in Looking, Return(t, "found"),
           length' = length
    PROVE  Ends(t) /\ Uncounted(t)
BY NotCounting DEF Ends, Fits, Looking, Linked, Removed, Locating

LEMMA LookDupsGoes ==
    ASSUME NEW t \in Threads, Here(t), LookDups(t)
    PROVE  \/ Ends(t) /\ Uncounted(t)
           \/ hasDups /\ Quiet(t) /\ Steady(t) /\ (Kind(t) => Kind(t)')
<1>1. /\ pc[t] = "lookdups" /\ length' = length
      /\ \/ Return(t, "found")
         \/ /\ hasDups /\ pc'[t] = "lookpred" /\ UNCHANGED <<live, seen, result>>
            /\ \E v : loc' = [loc EXCEPT ![t].lvl = v]
  BY DEF LookDups, LookDown, Goto, history, Here, LocalsKept
<1>2. CASE Return(t, "found") BY <1>1, <1>2, FoundEnds DEF Looking
<1>3. CASE /\ hasDups /\ pc'[t] = "lookpred" /\ UNCHANGED <<live, seen, result>>
           /\ \E v : loc' = [loc EXCEPT ![t].lvl = v]
  <2>1. loc'[t].ret = loc[t].ret /\ loc'[t].call = loc[t].call
    BY <1>3 DEF Here, LocalsKept, NoLocals
  <2>2. \A op : Suits(pc[t], op) => Suits(pc'[t], op)
    BY <1>1, <1>3 DEF Suits, Looking, Reading
  <2> QED BY <1>1, <1>3, <2>1, <2>2, CursorQuiet DEF Looking, Reading
<1> QED BY <1>1, <1>2, <1>3

(* The walk has come past the key at level 0: it was missing before, or    *)
(* else it would be ahead.                                                 *)
LEMMA MissingSeen ==
    ASSUME NEW t \in Threads, Here(t), SeenOf(t), ~ hasDups, pc[t] = "lookcurr",
           loc[t].lvl = 0, After(loc[t].curr, Key(t))
    PROVE  FALSE \in seen[t]
<1> SUFFICES ASSUME FALSE \notin seen[t] PROVE FALSE OBVIOUS
<1> DEFINE c == loc[t].curr
<1>1. Ahead(c, Key(t)) /\ Has(live, Key(t)) \in seen[t] BY DEF SeenOf
<1>2. c \in Before0 \cup {Tail, Nil} BY DEF Here, Locals, Values
<1>3. c \in Known \cup {Tail} BY <1>2, ConstantFacts DEF After, Before0
<1>4. Key(t) \in Nat /\ Words BY KeyNumber DEF Here, Locals
<1> HIDE DEF c
<1>5. After(c, Key(t)) BY DEF c
<1>6. ~ Has(live, Key(t)) BY <1>1, <1>3, <1>4, <1>5, PastAhead
<1> QED BY <1>1, <1>6, SeenFalse

LEMMA LookCurrGoes ==
    ASSUME NEW t \in Threads, Here(t), LookCurr(t)
    PROVE  \/ Ends(t) /\ Uncounted(t)
           \/ Quiet(t) /\ Steady(t) /\ (Kind(t) => Kind(t)')
<1>1. /\ pc[t] = "lookcurr" /\ length' = length
      /\ \/ Return(t, "missing") /\ loc[t].lvl = 0 /\ After(loc[t].curr, Key(t))
         \/ /\ UNCHANGED <<live, seen, result>>
            /\ \/ pc'[t] = "lookcurr" /\ \E v : loc' = [loc EXCEPT ![t].curr = v]
               \/ /\ pc'[t] = "lookcurr"
                  /\ \E v, w : loc' = [loc EXCEPT ![t].pred = v, ![t].curr = w]
               \/ pc'[t] = "lookdups" /\ \E v : loc' = [loc EXCEPT ![t].found = v]
               \/ pc'[t] = "lookpred" /\ \E v : loc' = [loc EXCEPT ![t].lvl = v]
  BY DEF LookCurr, LookDown, Goto, history, Here, LocalsKept
<1>2. CASE /\ Return(t, "missing") /\ loc[t].lvl = 0
           /\ After(loc[t].curr, Key(t))
  <2>1. Uncounted(t) BY <1>1, NotCounting DEF Linked, Removed, Locating
  <2>2. Kind(t) => Op(t) = "contains" BY <1>1 DEF Kind, Suits, Looking
  <2>3. SeenOf(t) /\ ~ hasDups => FALSE \in seen[t] BY <1>1, <1>2, MissingSeen
  <2> QED BY <1>2, <2>1, <2>2, <2>3 DEF Ends, Fits
<1>3. CASE /\ UNCHANGED <<live, seen, result>>
           /\ \/ pc'[t] = "lookcurr" /\ \E v : loc' = [loc EXCEPT ![t].curr = v]
              \/ /\ pc'[t] = "lookcurr"
                 /\ \E v, w : loc' = [loc EXCEPT ![t].pred = v, ![t].curr = w]
              \/ pc'[t] = "lookdups" /\ \E v : loc' = [loc EXCEPT ![t].found = v]
              \/ pc'[t] = "lookpred" /\ \E v : loc' = [loc EXCEPT ![t].lvl = v]
  <2>1. loc'[t].ret = loc[t].ret /\ loc'[t].call = loc[t].call
    <3>1. CASE \E v : loc' = [loc EXCEPT ![t].curr = v]
      BY <3>1 DEF Here, LocalsKept, NoLocals
    <3>2. CASE \E v, w : loc' = [loc EXCEPT ![t].pred = v, ![t].curr = w]
      BY <3>2 DEF Here, LocalsKept, NoLocals
    <3>3. CASE \E v : loc' = [loc EXCEPT ![t].found = v]
      BY <3>3 DEF Here, LocalsKept, NoLocals
    <3>4. CASE \E v : loc' = [loc EXCEPT ![t].lvl = v]
      BY <3>4 DEF Here, LocalsKept, NoLocals
    <3> QED BY <1>3, <3>1, <3>2, <3>3, <3>4
  <2>2. pc'[t] \in {"lookcurr", "lookdups", "lookpred"} BY <1>3
  <2>3. \A op : Suits(pc[t], op) => Suits(pc'[t], op)
    BY <1>1, <2>2 DEF Suits, Looking, Reading
  <2> QED BY <1>1, <1>3, <2>1, <2>2, <2>3, CursorQuiet DEF Looking, Reading
<1> QED BY <1>1, <1>2, <1>3

-----------------------------------------------------------------------------
(* The steps that change the set or the length, and a call's first.        *)
LEMMA UnCountGoes ==
    ASSUME NEW t \in Threads, Here(t), UnCount(t)
    PROVE  /\ Quiet(t) /\ Onto(t) /\ (Kind(t) => Kind(t)')
           /\ length' = length - 1 /\ Drops(t) /\ ~ Drops(t)'
<1>1. /\ pc[t] = "uncount" /\ pc'[t] = "shrink" /\ length' = length - 1
      /\ UNCHANGED <<live, seen, result>>
      /\ \E v : loc' = [loc EXCEPT ![t].i = v]
  BY DEF UnCount, Goto, history, Here, LocalsKept
<1>2. loc'[t].ret = loc[t].ret /\ loc'[t].call = loc[t].call
  BY <1>1 DEF Here, LocalsKept, NoLocals
<1>3. Op(t) = "remove" /\ Op(t)' = Op(t)
  BY <1>1, <1>2 DEF Here, PlaceInv, InCall, RemoveOnly, Retiring, Op
<1>4. Took(t) /\ Took(t)' BY <1>1, <1>3 DEF Took, Removed
<1>5. Quiet(t) BY <1>1, <1>2, <1>4 DEF Quiet
<1>6. Onto(t)
  BY <1>1, OntoAway DEF Placed, Placing, Moving, Demoting, Unlinking
<1>7. Kind(t) => Kind(t)' BY <1>1, <1>2, KindKept DEF Looking, Reading
<1>8. Drops(t) /\ ~ Drops(t)' BY <1>1, <1>3, <1>4 DEF Drops, Counted
<1> QED BY <1>1, <1>5, <1>6, <1>7, <1>8

(* The set grows by the node of t's insert.                                *)
Enters(t) ==
    /\ Op(t) \in Inserts /\ Op(t)' = Op(t) /\ loc'[t].call = loc[t].call
    /\ Becomes(live \cup {Node(t)}) /\ Node(t) \in Nodes \ live
    /\ ~ Took(t) /\ Took(t)' /\ length' = length
    /\ pc[t] # "idle" /\ pc'[t] = "help"

LEMMA LinkEnters ==
    ASSUME NEW t \in Threads, Here(t), Link(t)
    PROVE  /\ Kind(t) => Kind(t)'
           /\ \/ Quiet(t) /\ Steady(t) /\ Onto(t)
              \/ Enters(t) /\ (~ hasDups => ~ Has(live, Key(t)))
<1>1. pc[t] = "link" /\ length' = length BY DEF Link
<1>2. Op(t) \in Inserts
  BY <1>1 DEF Here, Locals, Called, Placing
<1>3. ~ Took(t) BY <1>1 DEF Took, Linked, Removed, Locating
<1>4. CASE /\ pc'[t] = "locate" /\ UNCHANGED <<loc, live, seen, result>>
  <2>1. loc[t].ret # "relink"
    BY <1>1 DEF Here, PlaceInv, InCall, NotRelinking
  <2>2. ~ Took(t)' BY <1>4, <2>1 DEF Took, Linked, Removed
  <2>3. Quiet(t) /\ Steady(t)
    BY <1>1, <1>3, <1>4, <2>2 DEF Quiet, Steady, Drops
  <2>4. Onto(t)
    BY <1>4, OntoAway DEF Placed, Placing, Moving, Demoting, Unlinking
  <2> QED BY <1>1, <1>4, <2>3, <2>4, KindKept DEF Looking, Reading
<1>5. CASE /\ Holds(loc[t].preds[0], 0, loc[t].succs[0])
           /\ Becomes(live \cup {Node(t)}) /\ pc'[t] = "help"
           /\ loc' = [loc EXCEPT ![t].i = 0]
  <2>1. loc'[t].ret = loc[t].ret /\ loc'[t].call = loc[t].call
    BY <1>5 DEF Here, LocalsKept, NoLocals
  <2>2. Node(t) \in Nodes \ Known
    <3>1. Inserting(t) /\ ~ Entered(t)
      BY <1>1, <1>2 DEF Inserting, Entered, Linked, Locating
    <3>2. Node(t) \in Nodes
      BY <1>1, <1>2, CallsAssumption DEF Here, Locals, Called, Op, Node
    <3> QED BY <3>1, <3>2 DEF Here, Locals, Own
  <2>3. Enters(t)
    <3>1. Took(t)' BY <1>5 DEF Took, Linked
    <3>2. Op(t)' = Op(t) BY <2>1 DEF Op
    <3> QED BY <1>1, <1>2, <1>3, <1>5, <2>1, <2>2, <3>1, <3>2 DEF Enters, Known
  <2>4. ASSUME ~ hasDups PROVE ~ Has(live, Key(t))
    <3> DEFINE p == loc[t].preds[0]  s == loc[t].succs[0]
    <3>1. /\ Before(p, Key(t)) /\ s # Nil /\ ~ Before(s, Key(t))
          /\ loc[t].found = Nil /\ ~ Equal(s, Key(t))
      BY <1>1, <2>4 DEF Here, Locals, Path, Placed, Placing
    <3>2. p \in Before0 \cup {Nil} /\ s \in Beyond
      BY ConstantFacts DEF Here, Locals, Values
    <3>3. ~ Marked(p, 0) /\ Word(p, 0) = s BY <1>5 DEF Holds, Word
    <3>4. Key(t) \in Nat /\ Words /\ Reach
      BY <1>1, KeyNumber DEF Here, Locals
    <3> HIDE DEF p, s
    <3>5. p \in live \cup {Head}
      BY <3>1, <3>2, <3>3, ConstantFacts DEF Before, Before0, Known
    <3>6. s \in Known \cup {Tail} BY <3>1, <3>2 DEF Beyond
    <3>7. After(s, Key(t))
      <4>1. s \in Known => s \in Nodes /\ KeyOf[s] \in Nat
        BY <3>4, KnownNodes, SkipListAssumption
      <4> QED BY <3>1, <3>4, <3>6, <4>1 DEF After, Before, Equal
    <3>8. Ahead(s, Key(t)) BY <2>4, <3>1, <3>3, <3>4, <3>5, StartAhead DEF Word
    <3> QED BY <2>4, <3>4, <3>6, <3>7, <3>8, PastAhead
  <2> QED BY <1>1, <1>5, <2>1, <2>3, <2>4, KindKept DEF Looking, Reading
<1> QED BY <1>4, <1>5 DEF Link, history, Goto, Here, LocalsKept

(* The set shrinks by the node t's remove has found.                       *)
Takes(t) ==
    /\ Op(t) = "remove" /\ Op(t)' = Op(t) /\ loc'[t] = loc[t]
    /\ Becomes(live \ {loc[t].node}) /\ loc[t].node \in live
    /\ SeenOf(t) => KeyOf[loc[t].node] = Key(t)
    /\ ~ Took(t) /\ Took(t)' /\ Drops(t)' /\ length' = length
    /\ pc[t] = "mark" /\ pc'[t] = "unlink" /\ next' = next

LEMMA Mark0Takes ==
    ASSUME NEW t \in Threads, Here(t), Mark0(t)
    PROVE  \/ Ends(t) /\ Uncounted(t)
           \/ Takes(t) /\ (Kind(t) => Kind(t)')
<1>1. pc[t] = "mark" /\ length' = length /\ next' = next BY DEF Mark0
<1>2. Op(t) = "remove" /\ loc[t].node \in Nodes
  BY <1>1 DEF Here, PlaceInv, InCall, RemoveOnly, Marking
<1>3. ~ Took(t) /\ Uncounted(t)
  BY <1>1, NotCounting DEF Linked, Removed, Locating
<1>4. CASE /\ ~ Marked(loc[t].node, 0) /\ Becomes(live \ {loc[t].node})
           /\ pc'[t] = "unlink" /\ loc' = loc
  <2>1. loc[t].node \in live
    BY <1>2, <1>4, ConstantFacts DEF Here, Locals, Values, Known
  <2>2. SeenOf(t) => KeyOf[loc[t].node] = Key(t)
    BY <1>1 DEF SeenOf, Here, Locals, Walking
  <2>3. Op(t)' = Op(t) BY <1>4 DEF Op
  <2>4. Took(t)' BY <1>2, <1>4, <2>3 DEF Took, Removed
  <2>5. Drops(t)' BY <1>2, <1>4, <2>3, <2>4 DEF Drops, Counted
  <2>6. Takes(t)
    BY <1>1, <1>2, <1>3, <1>4, <2>1, <2>2, <2>3, <2>4, <2>5 DEF Takes
  <2>7. Kind(t) => Kind(t)' BY <1>1, <1>4, KindKept DEF Looking, Reading
  <2> QED BY <2>6, <2>7
<1>5. CASE Marked(loc[t].node, 0) /\ Return(t, "ok")
  <2>1. SeenOf(t) => TRUE \in seen[t] /\ FALSE \in seen[t] /\ seen[t] \subseteq BOOLEAN
    BY <1>1, <1>5 DEF SeenOf, Placed, Unlinking, Marking
  <2>2. SeenOf(t) => seen[t] = BOOLEAN BY <2>1
  <2> QED BY <1>2, <1>3, <1>5, <2>2 DEF Ends, Fits
<1> QED BY <1>4, <1>5 DEF Mark0, Goto, Here, LocalsKept

(* A call begins.                                                          *)
Begins(t) ==
    /\ pc[t] = "idle" /\ pc'[t] \in Begun /\ loc[t].call = Nil
    /\ loc'[t].call \in Invocations \ {Nil} /\ loc'[t].found = Nil
    /\ seen' = [seen EXCEPT ![t] = {Has(live, loc'[t].call.key)}]
    /\ result' = [result EXCEPT ![t] = "none"]
    /\ UNCHANGED <<live, length>>
    /\ ~ Took(t) /\ ~ Took(t)' /\ Kind(t)'

LEMMA BeginBegins ==
    ASSUME NEW t \in Threads, Here(t), NEW c, NEW start \in Begun,
           NEW located \in Entries \ {"relink"},
           Suits(start, c.op), Suits(located, c.op),
           Begin(t, c, start, located)
    PROVE  Begins(t)
<1>1. PICK C \in todo[t] : c \in C BY DEF Begin
<1>2. c \in Invocations \ {Nil}
  <2>1. C \in Calls[t] BY <1>1 DEF Here, Locals, Called
  <2> QED BY <1>1, <2>1, CallsAssumption DEF Invocations
<1>3. pc[t] = "idle" /\ pc'[t] = start BY DEF Begin, Goto, Here, LocalsKept
<1>4. loc[t] = NoLocals BY <1>3 DEF Here, Locals, Called
<1>5. loc'[t].call = c /\ loc'[t].ret = located /\ loc'[t].found = loc[t].found
  BY DEF Begin, Here, LocalsKept, NoLocals
<1>6. loc[t].call = Nil /\ loc[t].found = Nil BY <1>4 DEF NoLocals
<1>7. ~ Took(t) /\ ~ Took(t)'
  BY <1>3, <1>5 DEF Took, Linked, Removed, Locating, Begun, Entries
<1>8. Kind(t)' BY <1>5, <1>3 DEF Kind, Op
<1>9. /\ seen' = [seen EXCEPT ![t] = {Has(live, loc'[t].call.key)}]
      /\ result' = [result EXCEPT ![t] = "none"]
      /\ UNCHANGED <<live, length>>
  BY <1>5 DEF Begin
<1> QED BY <1>2, <1>3, <1>5, <1>6, <1>7, <1>8, <1>9 DEF Begins

LEMMA CallBegins ==
    ASSUME NEW t \in Threads, Here(t), Call(t) \/ CursorCall(t) \/ SplayCall(t)
    PROVE  Begins(t)
<1>1. CASE Call(t)
  <2>1. PICK c : c.op \in DOMAIN Start /\ Begin(t, c, Start[c.op], Located[c.op])
    BY <1>1 DEF Call
  <2>2. /\ Start[c.op] \in Begun /\ Located[c.op] \in Entries \ {"relink"}
        /\ Suits(Start[c.op], c.op) /\ Suits(Located[c.op], c.op)
    BY <2>1 DEF Start, Located, Begun, Entries, Suits, Looking, Reading
  <2> QED BY <2>1, <2>2, BeginBegins
<1>2. CASE CursorCall(t)
  <2>1. PICK c : /\ c.op \in CursorOps
                 /\ Begin(t, c, CursorStart[c.op], CursorLocated[c.op])
    BY <1>2 DEF CursorCall
  <2>2. /\ CursorStart[c.op] \in Begun
        /\ CursorLocated[c.op] \in Entries \ {"relink"}
    BY <2>1 DEF CursorStart, CursorLocated, CursorOps, Begun, Entries
  <2>3. Suits(CursorStart[c.op], c.op) /\ Suits(CursorLocated[c.op], c.op)
    BY <2>1 DEF CursorStart, CursorLocated, CursorOps, Suits, Looking, Reading
  <2> QED BY <2>1, <2>2, <2>3, BeginBegins
<1>3. CASE SplayCall(t)
  <2>1. PICK c : c.op = "contains" /\ Begin(t, c, "locate", "found")
    BY <1>3 DEF SplayCall
  <2> QED BY <2>1, BeginBegins DEF Begun, Entries, Suits, Looking, Reading
<1> QED BY <1>1, <1>2, <1>3

(* Every step of a call, as the length sees it.                            *)
Rests(t) == Quiet(t) /\ Steady(t) /\ (Kind(t) => Kind(t)')
Counts(t) ==
    \/ Rests(t)
    \/ Ends(t) /\ Uncounted(t)
    \/ Ends(t) /\ Adds(t) /\ ~ Drops(t) /\ length' = length + 1
    \/ /\ Quiet(t) /\ (Kind(t) => Kind(t)')
       /\ length' = length - 1 /\ Drops(t) /\ ~ Drops(t)'
    \/ Enters(t) /\ (Kind(t) => Kind(t)')
    \/ Takes(t) /\ (Kind(t) => Kind(t)')

LEMMA LocateCounts ==
    ASSUME NEW t \in Threads, Here(t), Locate(t)
    PROVE  Counts(t)
BY LocStartGoes, LocPredQuiet, LocMarkedGoes, LocHelpQuiet, LocAdvanceQuiet,
   LocRecordQuiet DEF Locate, Going, Counts, Rests

LEMMA InsertCounts ==
    ASSUME NEW t \in Threads, Here(t), Insert(t)
    PROVE  Counts(t)
BY ExistsEnds, TossGoes, GrowGoes, GrowTailGoes, LinkEnters, HelpGoes,
   HelpNextGoes, HelpCasGoes, RaiseGoes, RaiseSetGoes, RaiseCasGoes,
   RaiseAgainGoes, RelinkGoes, PrevGoes, PrevSuccGoes, PrevCasGoes, CountEnds
   DEF Insert, Going, Counts, Rests

LEMMA RemoveCounts ==
    ASSUME NEW t \in Threads, Here(t), Remove(t)
    PROVE  Counts(t)
BY NoEntryEnds, FoundGoes, MarkGoes, Mark0Takes, UnlinkGoes, SweepGoes,
   SweepHeadGoes, SweepCurrGoes, SweepCasGoes, VerifyHeadGoes, VerifyCurrGoes,
   UnPrevGoes, UnPrevCasGoes, UnCountGoes, ShrinkGoes, ShrinkCasGoes,
   ShrinkTailGoes, RetireGoes, AdjustEnds DEF Remove, Going, Counts, Rests

LEMMA LookupCounts ==
    ASSUME NEW t \in Threads, Here(t), Lookup(t)
    PROVE  Counts(t)
BY LookStartGoes, LookPredQuiet, LookCurrGoes, LookDupsGoes DEF Lookup, Going,
   Counts, Rests

LEMMA CursorStepCounts ==
    ASSUME NEW t \in Threads, Here(t), CursorStep(t)
    PROVE  Counts(t)
BY PositionLowEnds, PositionHighGoes, ScanGoes, ScanTestGoes, ScanHeadGoes,
   ForwardGoes, ScanTailGoes, FollowGoes, HintGoes, CheckHintGoes, RescanGoes,
   RehintEnds DEF CursorStep, Going, Counts, Rests

LEMMA SplayStepCounts ==
    ASSUME NEW t \in Threads, Here(t), SplayStep(t)
    PROVE  Counts(t)
BY FoundAtEnds, RebalanceGoes, RebNodeGoes, RebNextGoes, RebHeightGoes,
   DemotePredGoes, DemoteSuccGoes, DemoteCasGoes, DemoteLowGoes, ReReadGoes,
   PromoteGoes, GrowHeadGoes, InitHeadGoes, BumpGoes, PromotePredGoes,
   PromoteSuccGoes, PromoteSetGoes, PromoteCasGoes, RevertGoes, RecheckGoes,
   UndoGoes, UndoCasGoes DEF SplayStep, Going, Counts, Rests

LEMMA StepCounts ==
    ASSUME NEW t \in Threads, Here(t), Step(t) \/ CursorStep(t) \/ SplayStep(t)
    PROVE  Counts(t)
BY LocateCounts, InsertCounts, RemoveCounts, LookupCounts, CursorStepCounts,
   SplayStepCounts DEF Step

-----------------------------------------------------------------------------
(* The length.                                                             *)
Adding   == {u \in Threads : Adds(u)}
Dropping == {u \in Threads : Drops(u)}
Balance  == length = Cardinality(live) - Cardinality(Adding) + Cardinality(Dropping)

LEMMA BalanceMeans == Balance => Accounted
<1>1. TookEffect = {t \in Threads : Took(t)}
  BY DEF TookEffect, Took, Locating, Op
<1>2. InsertsToCount = Adding BY <1>1 DEF InsertsToCount, Adding, Adds, Op
<1>3. RemovesToCount = Dropping
  BY <1>1 DEF RemovesToCount, Dropping, Drops, Counted, Op
<1> QED BY <1>2, <1>3 DEF Balance, Accounted

LEMMA FiniteParts ==
    ASSUME Words
    PROVE  /\ IsFiniteSet(live) /\ IsFiniteSet(Adding) /\ IsFiniteSet(Dropping)
           /\ Cardinality(live) \in Nat /\ Cardinality(Adding) \in Nat
           /\ Cardinality(Dropping) \in Nat
<1>1. live \in SUBSET Nodes /\ Adding \in SUBSET Threads
      /\ Dropping \in SUBSET Threads
  BY DEF Words, Adding, Dropping
<1>2. IsFiniteSet(live) /\ IsFiniteSet(Adding) /\ IsFiniteSet(Dropping)
  BY <1>1, FS_Subset, SkipListAssumption
<1> QED BY <1>2, FS_CardinalityType

(* Which calls count changes by the thread that steps alone.               *)
LEMMA OthersCount ==
    ASSUME NEW t \in Threads, Only(t)
    PROVE  /\ Adding' = IF Adds(t)' THEN Adding \cup {t} ELSE Adding \ {t}
           /\ Dropping' = IF Drops(t)' THEN Dropping \cup {t} ELSE Dropping \ {t}
<1>1. \A u \in Threads \ {t} : (Adds(u)' <=> Adds(u)) /\ (Drops(u)' <=> Drops(u))
  BY DEF Only, Adds, Drops, Took, Op
<1> QED BY <1>1 DEF Adding, Dropping

LEMMA ReturnIdle ==
    ASSUME NEW t \in Threads, Here(t), Ends(t)
    PROVE  /\ pc'[t] = "idle" /\ loc'[t] = NoLocals /\ live' = live
           /\ ~ Took(t)' /\ ~ Adds(t)' /\ ~ Drops(t)'
<1>1. pc'[t] = "idle" /\ loc'[t] = NoLocals /\ live' = live
  BY DEF Ends, Return, Goto, Here, LocalsKept
<1>2. ~ Took(t)' BY <1>1 DEF Took, Linked, Removed, Locating
<1> QED BY <1>1, <1>2 DEF Adds, Drops

LEMMA QuietAdds ==
    ASSUME NEW t \in Threads, Quiet(t)
    PROVE  (Adds(t)' <=> Adds(t)) /\ live' = live
BY DEF Quiet, Adds, Op

LEMMA BalanceStep ==
    ASSUME NEW t \in Threads, Here(t), Only(t), Balance, Words',
           Counts(t) \/ Begins(t)
    PROVE  Balance'
<1>0. /\ IsFiniteSet(live) /\ IsFiniteSet(Adding) /\ IsFiniteSet(Dropping)
      /\ Cardinality(live) \in Nat /\ Cardinality(Adding) \in Nat
      /\ Cardinality(Dropping) \in Nat
  BY FiniteParts DEF Here
<1>1. Adding' = IF Adds(t)' THEN Adding \cup {t} ELSE Adding \ {t}
  BY OthersCount
<1>2. Dropping' = IF Drops(t)' THEN Dropping \cup {t} ELSE Dropping \ {t}
  BY OthersCount
<1>3. (Adds(t) <=> t \in Adding) /\ (Drops(t) <=> t \in Dropping)
  BY DEF Adding, Dropping
<1>4. (Adds(t)' <=> Adds(t)) => Adding' = Adding BY <1>1, <1>3
<1>5. (Drops(t)' <=> Drops(t)) => Dropping' = Dropping BY <1>2, <1>3
<1>6. length = Cardinality(live) - Cardinality(Adding) + Cardinality(Dropping)
  BY DEF Balance
<1>7. CASE Rests(t) \/ Begins(t) \/ (Ends(t) /\ Uncounted(t))
  <2>1. (Adds(t)' <=> Adds(t)) /\ (Drops(t)' <=> Drops(t)) /\ live' = live
        /\ length' = length
    <3>1. CASE Rests(t) BY <3>1, QuietAdds DEF Rests, Steady
    <3>2. CASE Begins(t) BY <3>2 DEF Begins, Adds, Drops
    <3>3. CASE Ends(t) /\ Uncounted(t) BY <3>3, ReturnIdle DEF Uncounted
    <3> QED BY <1>7, <3>1, <3>2, <3>3
  <2> QED BY <1>4, <1>5, <1>6, <2>1 DEF Balance
<1>8. CASE Ends(t) /\ Adds(t) /\ ~ Drops(t) /\ length' = length + 1
  <2>1. live' = live /\ Dropping' = Dropping /\ Adding' = Adding \ {t}
    BY <1>1, <1>5, <1>8, ReturnIdle
  <2>2. Cardinality(Adding \ {t}) = Cardinality(Adding) - 1
    BY <1>0, <1>3, <1>8, FS_RemoveElement
  <2>3. length' = Cardinality(live) - (Cardinality(Adding) - 1)
                  + Cardinality(Dropping)
    BY <1>0, <1>6, <1>8
  <2> QED BY <2>1, <2>2, <2>3 DEF Balance
<1>9. CASE Quiet(t) /\ length' = length - 1 /\ Drops(t) /\ ~ Drops(t)'
  <2>1. live' = live /\ Adding' = Adding /\ Dropping' = Dropping \ {t}
    BY <1>2, <1>4, <1>9, QuietAdds
  <2>2. Cardinality(Dropping \ {t}) = Cardinality(Dropping) - 1
    BY <1>0, <1>3, <1>9, FS_RemoveElement
  <2>3. length' = Cardinality(live) - Cardinality(Adding)
                  + (Cardinality(Dropping) - 1)
    BY <1>0, <1>6, <1>9
  <2> QED BY <2>1, <2>2, <2>3 DEF Balance
<1>10. CASE Enters(t)
  <2>1. ~ Adds(t) /\ Adds(t)' /\ ~ Drops(t) /\ ~ Drops(t)'
    BY <1>10 DEF Enters, Adds, Drops, Inserts
  <2>2. /\ live' = live \cup {Node(t)} /\ Dropping' = Dropping
        /\ Adding' = Adding \cup {t}
    BY <1>1, <1>5, <1>10, <2>1 DEF Enters, Becomes
  <2>3. Cardinality(Adding \cup {t}) = Cardinality(Adding) + 1
    BY <1>0, <1>3, <2>1, FS_AddElement
  <2>4. Cardinality(live \cup {Node(t)}) = Cardinality(live) + 1
    BY <1>0, <1>10, FS_AddElement DEF Enters
  <2>5. length' = (Cardinality(live) + 1) - (Cardinality(Adding) + 1)
                  + Cardinality(Dropping)
    BY <1>0, <1>6, <1>10 DEF Enters
  <2> QED BY <2>2, <2>3, <2>4, <2>5 DEF Balance
<1>11. CASE Takes(t)
  <2>1. ~ Adds(t) /\ ~ Adds(t)' /\ ~ Drops(t) /\ Drops(t)'
    BY <1>11 DEF Takes, Adds, Drops
  <2>2. /\ live' = live \ {loc[t].node} /\ Adding' = Adding
        /\ Dropping' = Dropping \cup {t}
    BY <1>2, <1>4, <1>11, <2>1 DEF Takes, Becomes
  <2>3. Cardinality(Dropping \cup {t}) = Cardinality(Dropping) + 1
    BY <1>0, <1>3, <2>1, FS_AddElement
  <2>4. Cardinality(live \ {loc[t].node}) = Cardinality(live) - 1
    BY <1>0, <1>11, FS_RemoveElement DEF Takes
  <2>5. length' = (Cardinality(live) - 1) - Cardinality(Adding)
                  + (Cardinality(Dropping) + 1)
    BY <1>0, <1>6, <1>11 DEF Takes
  <2> QED BY <2>2, <2>3, <2>4, <2>5 DEF Balance
<1> QED BY <1>7, <1>8, <1>9, <1>10, <1>11 DEF Counts

LEMMA BalanceInit == ASSUME Init PROVE Balance
<1>1. Adding = {} /\ Dropping = {}
  BY DEF Init, Adding, Dropping, Adds, Drops, Took, Linked, Removed, Locating
<1>2. IsFiniteSet(DOMAIN Built) BY FS_Subset, SkipListAssumption
<1>3. Cardinality(DOMAIN Built) \in Nat BY <1>2, FS_CardinalityType
<1>4. Cardinality({}) = 0 BY FS_EmptySet
<1>5. length = Cardinality(DOMAIN Built) /\ live = DOMAIN Built BY DEF Init
<1> QED BY <1>1, <1>3, <1>4, <1>5 DEF Balance

LEMMA BalanceNext ==
    ASSUME ListFull, Balance, [SplayNext]_vars
    PROVE  Balance'
<1>1. CASE UNCHANGED vars
  <2>1. UNCHANGED <<length, live, pc, loc>> BY <1>1 DEF vars, history
  <2>2. Adding' = Adding /\ Dropping' = Dropping
    BY <2>1 DEF Adding, Dropping, Adds, Drops, Took, Op
  <2> QED BY <2>1, <2>2 DEF Balance
<1>2. CASE \E t \in Threads :
              \/ Call(t) \/ CursorCall(t) \/ SplayCall(t)
              \/ Step(t) \/ CursorStep(t) \/ SplayStep(t)
  <2>1. PICK t \in Threads :
              \/ Call(t) \/ CursorCall(t) \/ SplayCall(t)
              \/ Step(t) \/ CursorStep(t) \/ SplayStep(t)
    BY <1>2
  <2>2. Here(t) /\ Only(t) /\ Words'
    BY <2>1, OneStepKeeps DEF ListFull, Tidy
  <2>3. Counts(t) \/ Begins(t) BY <2>1, <2>2, CallBegins, StepCounts
  <2> QED BY <2>2, <2>3, BalanceStep
<1> QED BY <1>1, <1>2, NextSteps

(* The length of the list is the number of nodes in the set, but for the   *)
(* inserts that have linked their node and not yet counted it and the      *)
(* removes that have marked theirs and not yet, in every behaviour.        *)
THEOREM SplayAccounted == SplaySpec => []Accounted
<1>1. Init => Balance BY BalanceInit
<1>2. ListFull /\ Balance /\ [SplayNext]_vars => Balance' BY BalanceNext
<1> QED BY <1>1, <1>2, BalanceMeans, ListCorrect, PTL DEF SplaySpec


-----------------------------------------------------------------------------
(* No call asks for a duplicate.                                           *)
LEMMA NoDupsCalled ==
    ASSUME NoDuplicates, NEW t \in Threads, Called(t), pc[t] # "idle"
    PROVE  Op(t) # "insert_dup"
BY DEF NoDuplicates, Called, Op

LEMMA NoDupsKept ==
    ASSUME NoDuplicates, NEW t \in Threads, Here(t), ~ hasDups,
           \/ Call(t) \/ CursorCall(t) \/ SplayCall(t)
           \/ Step(t) \/ CursorStep(t) \/ SplayStep(t)
    PROVE  ~ hasDups'
<1>1. CASE Toss(t)
  <2>1. pc[t] = "insert" BY <1>1 DEF Toss
  <2>2. loc[t].found = Nil
    BY <1>1, <2>1, NoDupsCalled DEF Toss, Here, Locals, Op
  <2>3. hasDups' = (hasDups \/ loc[t].found # Nil) BY <1>1 DEF Toss
  <2> QED BY <2>2, <2>3
<1>2. CASE Call(t) \/ CursorCall(t) \/ SplayCall(t)
  BY <1>2 DEF Call, CursorCall, SplayCall, Begin
<1>3. CASE Locate(t)
  BY <1>3 DEF Locate, LocStart, LocPred, LocMarked, LocHelp, LocAdvance, LocRecord
<1>4. CASE Insert(t) /\ ~ Toss(t)
  BY <1>4 DEF Insert, Exists, Grow, GrowTail, Link, Help, HelpNext, HelpCas,
     Raise, RaiseSet, RaiseCas, RaiseAgain, Relink, Prev, PrevSucc, PrevCas,
     Count
<1>5. CASE Remove(t)
  BY <1>5 DEF Remove, NoEntry, Found, Mark, Mark0, Unlink, Sweep, SweepHead,
     SweepCurr, SweepCas, VerifyHead, VerifyCurr, UnPrev, UnPrevCas, UnCount,
     Shrink, ShrinkCas, ShrinkTail, Retire, Adjust
<1>6. CASE Lookup(t)
  BY <1>6 DEF Lookup, LookStart, LookPred, LookCurr, LookDups
<1>7. CASE CursorStep(t)
  BY <1>7 DEF CursorStep, PositionLow, PositionHigh, Scan, ScanTest, ScanHead,
     Forward, ScanTail, Follow, Hint, CheckHint, Rescan, Rehint
<1>8. CASE SplayStep(t)
  BY <1>8 DEF SplayStep, FoundAt, Rebalance, RebNode, RebNext, RebHeight,
     DemotePred, DemoteSucc, DemoteCas, DemoteLow, ReRead, Promote, GrowHead,
     InitHead, Bump, PromotePred, PromoteSucc, PromoteSet, PromoteCas, Revert,
     Recheck, Undo, UndoCas
<1> QED BY <1>1, <1>2, <1>3, <1>4, <1>5, <1>6, <1>7, <1>8 DEF Step

-----------------------------------------------------------------------------
(* What a thread's own step does to what its call has seen.                *)
LEMMA QuietSeen ==
    ASSUME NEW t \in Threads, SeenOf(t), Quiet(t),
           pc'[t] = "loccurr" /\ loc'[t].lvl = 0 /\ After(loc'[t].curr, Key(t)) =>
              FALSE \in seen[t],
           pc'[t] \in Placed =>
              IF loc'[t].found = Nil THEN FALSE \in seen[t] ELSE TRUE \in seen[t],
           pc'[t] \in Marking /\ loc'[t].found # Nil
              /\ <<loc'[t].found, 0>> \in marked' => FALSE \in seen[t],
           pc'[t] = "mark" => loc'[t].found # Nil /\ loc'[t].node = loc'[t].found,
           pc'[t] \in {"lookpred", "lookcurr", "lookdups"} =>
              Before(loc'[t].pred, Key(t)),
           pc'[t] = "lookcurr" /\ loc'[t].lvl = 0 =>
              loc'[t].curr # Nil
              /\ (FALSE \in seen[t] \/ Ahead(loc[t].curr, Key(t))')
    PROVE  SeenOf(t)'
<1>1. Key(t)' = Key(t) /\ seen' = seen /\ live' = live BY DEF Quiet, Key
<1>2. seen[t] \subseteq BOOLEAN /\ Has(live, Key(t)) \in seen[t]
  BY DEF SeenOf, Quiet
<1> HIDE DEF After, Before, Has, Ahead, Placed, Key
<1> QED BY <1>1, <1>2 DEF SeenOf, Marked

LEMMA GoingSeen ==
    ASSUME NEW t \in Threads, Here(t), SeenOf(t), Quiet(t), Onto(t), Words'
    PROVE  SeenOf(t)'
<1>1. pc'[t] \notin {"remove", "loccurr", "lookcurr", "lookdups"} BY DEF Onto
<1>2. pc'[t] \in Placed =>
         IF loc'[t].found = Nil THEN FALSE \in seen[t] ELSE TRUE \in seen[t]
  BY DEF Onto, SeenOf
<1>3. pc'[t] = "mark" => loc'[t].found # Nil /\ loc'[t].node = loc'[t].found
  BY DEF Onto, SeenOf
<1>4. ASSUME pc'[t] = "mark", <<loc'[t].found, 0>> \in marked'
      PROVE  FALSE \in seen[t]
  <2>1. /\ pc[t] \in Marking /\ loc'[t].found = loc[t].found /\ loc[t].found # Nil
    BY <1>3, <1>4 DEF Onto, Marking
  <2>2. loc[t].found \in Known BY <2>1 DEF Here, Locals, Values
  <2>3. loc[t].found \notin live
    BY <1>4, <2>1 DEF Words, Quiet, Marked
  <2>4. Marked(loc[t].found, 0) BY <2>2, <2>3 DEF Known
  <2> QED BY <2>1, <2>4 DEF SeenOf
<1>5. pc'[t] = "lookpred" => Before(loc'[t].pred, Key(t)) BY DEF Onto, Before
<1> QED BY <1>1, <1>2, <1>3, <1>4, <1>5, QuietSeen DEF Marking

LEMMA ReadPast ==
    ASSUME NEW t \in Threads, Here(t), SeenOf(t), ~ hasDups, pc[t] # "idle",
           NEW c \in Known \cup {Tail}, After(c, Key(t)), Ahead(c, Key(t))
    PROVE  FALSE \in seen[t]
<1>1. Key(t) \in Nat /\ Words BY KeyNumber DEF Here, Locals
<1>2. ~ Has(live, Key(t)) BY <1>1, PastAhead
<1>3. Has(live, Key(t)) \in seen[t] BY DEF SeenOf
<1> QED BY <1>2, <1>3, SeenFalse

LEMMA UnreadPast ==
    ASSUME NEW t \in Threads, Here(t), ~ hasDups, NEW c,
           Before(c, Key(t)), c \in Before0 \cup {Tail, Nil}, ~ Marked(c, 0)
    PROVE  /\ Ahead(next[c, 0], Key(t)) /\ c \in live \cup {Head}
           /\ next[c, 0] \in Known \cup {Tail} /\ next[c, 0] # Nil
<1>1. c \in live \cup {Head}
  BY ConstantFacts DEF Before, Before0, Known
<1>2. Ahead(next[c, 0], Key(t)) BY <1>1, StartAhead DEF Here
<1>3. c \in Before0 BY <1>1 DEF Before0, Known
<1>4. next[c, 0] \in Beyond /\ next[c, 0] # Nil
  BY <1>3, LinkedWord, ConstantFacts DEF Here
<1> QED BY <1>1, <1>2, <1>4 DEF Beyond

LEMMA LocPredSeen ==
    ASSUME NEW t \in Threads, Here(t), SeenOf(t), ~ hasDups, LocPred(t)
    PROVE  SeenOf(t)'
<1>1. pc[t] = "locpred" /\ Quiet(t) BY LocPredQuiet DEF LocPred
<1>2. \/ pc'[t] = "locate"
      \/ /\ pc'[t] = "loccurr" /\ ~ Marked(loc[t].pred, loc[t].lvl)
         /\ \E v : v = Word(loc[t].pred, loc[t].lvl)
                   /\ loc' = [loc EXCEPT ![t].curr = v]
  BY DEF LocPred, Goto, Here, LocalsKept, Word
<1>3. CASE pc'[t] = "locate"
  BY <1>1, <1>3, QuietSeen DEF Placed, Placing, Moving, Demoting, Unlinking, Marking
<1>4. CASE /\ pc'[t] = "loccurr" /\ ~ Marked(loc[t].pred, loc[t].lvl)
           /\ \E v : v = Word(loc[t].pred, loc[t].lvl)
                     /\ loc' = [loc EXCEPT ![t].curr = v]
  <2>1. /\ loc'[t].lvl = loc[t].lvl
        /\ loc'[t].curr = Word(loc[t].pred, loc[t].lvl)
    BY <1>4 DEF Here, LocalsKept, NoLocals
  <2>2. ASSUME loc[t].lvl = 0, After(Word(loc[t].pred, 0), Key(t))
        PROVE  FALSE \in seen[t]
    <3>1. Before(loc[t].pred, Key(t)) /\ loc[t].pred \in Before0 \cup {Tail, Nil}
      BY <1>1 DEF Here, Locals, Walking, Values
    <3>2. ~ Marked(loc[t].pred, 0) BY <1>4, <2>2
    <3>3. /\ Ahead(Word(loc[t].pred, 0), Key(t))
          /\ Word(loc[t].pred, 0) \in Known \cup {Tail}
      BY <3>1, <3>2, UnreadPast DEF Word
    <3> QED BY <1>1, <2>2, <3>3, ReadPast
  <2> QED
    BY <1>1, <1>4, <2>1, <2>2, QuietSeen
       DEF Placed, Placing, Moving, Demoting, Unlinking, Marking
<1> QED BY <1>2, <1>3, <1>4

LEMMA LocAdvanceSeen ==
    ASSUME NEW t \in Threads, Here(t), SeenOf(t), ~ hasDups, LocAdvance(t)
    PROVE  SeenOf(t)'
<1>1. /\ pc[t] = "loccurr" /\ pc'[t] = "loccurr" /\ Quiet(t)
      /\ ~ Marked(loc[t].curr, loc[t].lvl) /\ Before(loc[t].curr, Key(t))
  BY LocAdvanceQuiet DEF LocAdvance
<1>2. \E v, w : w = Word(loc[t].curr, loc[t].lvl)
                /\ loc' = [loc EXCEPT ![t].pred = v, ![t].curr = w]
  BY DEF LocAdvance, Word
<1>3. /\ loc'[t].lvl = loc[t].lvl
      /\ loc'[t].curr = Word(loc[t].curr, loc[t].lvl)
  BY <1>2 DEF Here, LocalsKept, NoLocals
<1>4. ASSUME loc[t].lvl = 0, After(Word(loc[t].curr, 0), Key(t))
      PROVE  FALSE \in seen[t]
  <2>1. loc[t].curr \in Before0 \cup {Tail, Nil} BY DEF Here, Locals, Values
  <2>2. ~ Marked(loc[t].curr, 0) BY <1>1, <1>4
  <2>3. /\ Ahead(Word(loc[t].curr, 0), Key(t))
        /\ Word(loc[t].curr, 0) \in Known \cup {Tail}
    BY <1>1, <2>1, <2>2, UnreadPast DEF Word
  <2> QED BY <1>1, <1>4, <2>3, ReadPast
<1> QED
  BY <1>1, <1>3, <1>4, QuietSeen
     DEF Placed, Placing, Moving, Demoting, Unlinking, Marking

(* The helper goes on to what follows the node it has spliced out.         *)
LEMMA LocHelpSeen ==
    ASSUME NEW t \in Threads, Here(t), SeenOf(t), ~ hasDups, LocHelp(t)
    PROVE  SeenOf(t)'
<1>1. pc[t] = "lochelp" /\ Quiet(t) BY LocHelpQuiet DEF LocHelp
<1>2. \/ pc'[t] = "locate"
      \/ /\ pc'[t] = "loccurr" /\ Holds(loc[t].pred, loc[t].lvl, loc[t].curr)
         /\ \E v : v = loc[t].succ /\ loc' = [loc EXCEPT ![t].curr = v]
  BY DEF LocHelp, Goto, Here, LocalsKept
<1>3. CASE pc'[t] = "locate"
  BY <1>1, <1>3, QuietSeen DEF Placed, Placing, Moving, Demoting, Unlinking, Marking
<1>4. CASE /\ pc'[t] = "loccurr" /\ Holds(loc[t].pred, loc[t].lvl, loc[t].curr)
           /\ \E v : v = loc[t].succ /\ loc' = [loc EXCEPT ![t].curr = v]
  <2>1. loc'[t].lvl = loc[t].lvl /\ loc'[t].curr = loc[t].succ
    BY <1>4 DEF Here, LocalsKept, NoLocals
  <2>2. ASSUME loc[t].lvl = 0, After(loc[t].succ, Key(t))
        PROVE  FALSE \in seen[t]
    <3>1. Before(loc[t].pred, Key(t)) /\ loc[t].pred \in Before0 \cup {Tail, Nil}
      BY <1>1 DEF Here, Locals, Walking, Values
    <3>2. ~ Marked(loc[t].pred, 0) /\ Word(loc[t].pred, 0) = loc[t].curr
      BY <1>4, <2>2 DEF Holds, Word
    <3>3. Ahead(loc[t].curr, Key(t)) BY <3>1, <3>2, UnreadPast DEF Word
    <3>4. /\ loc[t].curr \in Known /\ Marked(loc[t].curr, 0)
          /\ loc[t].succ = Word(loc[t].curr, 0)
      BY <1>1, <2>2 DEF Here, Locals, Dead, Word
    <3>5. Words BY DEF Here
    <3>6. loc[t].curr \notin live BY <3>4, <3>5 DEF Words
    <3>7. Ahead(Word(loc[t].curr, 0), Key(t))
      BY <3>3, <3>4, <3>5, <3>6, StepAhead DEF Word
    <3>8. Word(loc[t].curr, 0) \in Known \cup {Tail}
      BY <3>4, <3>5, LinkedWord, ConstantFacts DEF Word, Beyond, Before0
    <3> QED BY <1>1, <2>2, <3>4, <3>7, <3>8, ReadPast
  <2> QED
    BY <1>1, <1>4, <2>1, <2>2, QuietSeen
       DEF Placed, Placing, Moving, Demoting, Unlinking, Marking
<1> QED BY <1>2, <1>3, <1>4

(* The walk's answer: the first node that is not before the key.           *)
LEMMA LocRecordSeen ==
    ASSUME NEW t \in Threads, Here(t), SeenOf(t), ~ hasDups, LocRecord(t)
    PROVE  SeenOf(t)'
<1>1. /\ pc[t] = "loccurr" /\ Quiet(t) /\ marked' = marked
      /\ ~ Marked(loc[t].curr, loc[t].lvl) /\ ~ Before(loc[t].curr, Key(t))
  BY LocRecordQuiet DEF LocRecord, shape
<1>2. CASE pc'[t] = "locpred"
  BY <1>1, <1>2, QuietSeen DEF Placed, Placing, Moving, Demoting, Unlinking, Marking
<1>3. CASE /\ pc'[t] = loc[t].ret /\ loc[t].lvl = 0
           /\ loc'[t].found =
                 IF Equal(loc[t].curr, Key(t)) THEN loc[t].curr ELSE Nil
  <2>1. pc'[t] \in Entries BY <1>1, <1>3 DEF Here, PlaceInv, InCall
  <2>2. /\ loc[t].curr \in Known \cup {Tail} /\ Words /\ Key(t) \in Nat
    BY <1>1, <1>3, KeyNumber DEF Here, Locals, Values, Walking, Before0
  <2>3. CASE Equal(loc[t].curr, Key(t))
    <3>1. loc[t].curr \in live /\ KeyOf[loc[t].curr] = Key(t)
      BY <1>1, <1>3, <2>2, <2>3, ConstantFacts DEF Known, Equal
    <3>2. Has(live, Key(t)) BY <3>1 DEF Has
    <3>3. TRUE \in seen[t] BY <1>1, <3>2, SeenTrue DEF SeenOf
    <3>4. loc'[t].found = loc[t].curr BY <1>3, <2>3
    <3>5. loc[t].curr # Nil BY <2>2, KnownNodes, ConstantFacts
    <3>6. <<loc'[t].found, 0>> \notin marked'
      BY <1>1, <1>3, <3>4 DEF Marked
    <3> QED BY <1>1, <2>1, <3>3, <3>4, <3>5, <3>6, QuietSeen DEF Entries
  <2>4. CASE ~ Equal(loc[t].curr, Key(t))
    <3>1. loc[t].curr \in Known => loc[t].curr \in Nodes /\ KeyOf[loc[t].curr] \in Nat
      BY <2>2, KnownNodes, SkipListAssumption
    <3>2. After(loc[t].curr, Key(t))
      BY <1>1, <2>2, <2>4, <3>1 DEF After, Before, Equal
    <3>3. FALSE \in seen[t] BY <1>1, <1>3, <3>2 DEF SeenOf
    <3>4. loc'[t].found = Nil BY <1>3, <2>4
    <3> QED BY <1>1, <2>1, <3>3, <3>4, QuietSeen DEF Entries
  <2> QED BY <2>3, <2>4
<1> QED BY <1>2, <1>3, LocRecordMoves

-----------------------------------------------------------------------------
(* A lookup's walk.                                                        *)
LEMMA LookPredSeen ==
    ASSUME NEW t \in Threads, Here(t), SeenOf(t), ~ hasDups, LookPred(t)
    PROVE  SeenOf(t)'
<1>1. /\ pc[t] = "lookpred" /\ Quiet(t) /\ next' = next
      /\ Before(loc[t].pred, Key(t))
  BY LookPredQuiet DEF LookPred, SeenOf, shape
<1>2. \/ pc'[t] = "lookup"
      \/ /\ pc'[t] = "lookcurr" /\ ~ Marked(loc[t].pred, loc[t].lvl)
         /\ \E v : v = Word(loc[t].pred, loc[t].lvl)
                   /\ loc' = [loc EXCEPT ![t].curr = v]
  BY DEF LookPred, Goto, Here, LocalsKept, Word
<1>3. CASE pc'[t] = "lookup"
  BY <1>1, <1>3, QuietSeen DEF Placed, Placing, Moving, Demoting, Unlinking, Marking
<1>4. CASE /\ pc'[t] = "lookcurr" /\ ~ Marked(loc[t].pred, loc[t].lvl)
           /\ \E v : v = Word(loc[t].pred, loc[t].lvl)
                     /\ loc' = [loc EXCEPT ![t].curr = v]
  <2>1. /\ loc'[t].lvl = loc[t].lvl /\ loc'[t].pred = loc[t].pred
        /\ loc'[t].curr = Word(loc[t].pred, loc[t].lvl)
        /\ loc'[t].call = loc[t].call
    BY <1>4 DEF Here, LocalsKept, NoLocals
  <2>2. ASSUME loc[t].lvl = 0
        PROVE  Word(loc[t].pred, 0) # Nil /\ Ahead(Word(loc[t].pred, 0), Key(t))
    <3>1. loc[t].pred \in Before0 \cup {Tail, Nil} BY DEF Here, Locals, Values
    <3>2. ~ Marked(loc[t].pred, 0) BY <1>4, <2>2
    <3> QED BY <1>1, <3>1, <3>2, UnreadPast DEF Word
  <2>3. ASSUME loc'[t].lvl = 0 PROVE loc'[t].curr # Nil /\ Ahead(loc[t].curr, Key(t))'
    <3>1. Ahead(loc'[t].curr, Key(t)) /\ loc'[t].curr # Nil BY <2>1, <2>2, <2>3
    <3>2. live' = live /\ next' = next /\ Key(t)' = Key(t)
      BY <1>1, <2>1 DEF Quiet, Key
    <3> QED BY <3>1, <3>2 DEF Ahead, From, Closed
  <2> QED
    BY <1>1, <1>4, <2>1, <2>3, QuietSeen
       DEF Placed, Placing, Moving, Demoting, Unlinking, Marking
<1> QED BY <1>2, <1>3, <1>4

LEMMA EndsSeen ==
    ASSUME NEW t \in Threads, Here(t), DOMAIN seen = Threads, Ends(t)
    PROVE  SeenOf(t)'
<1>1. pc'[t] = "idle" BY ReturnIdle
<1>2. seen'[t] = {} BY DEF Ends, Return
<1> HIDE DEF After, Before, Has, Ahead, Key
<1> QED
  BY <1>1, <1>2 DEF SeenOf, Placed, Placing, Moving, Demoting, Unlinking, Marking

LEMMA LookCurrSeen ==
    ASSUME NEW t \in Threads, Here(t), SeenOf(t), ~ hasDups, LookCurr(t),
           DOMAIN seen = Threads
    PROVE  SeenOf(t)'
<1>1. /\ pc[t] = "lookcurr" /\ next' = next /\ Before(loc[t].pred, Key(t))
  BY DEF LookCurr, SeenOf, shape
<1>2. CASE Ends(t) BY <1>2, EndsSeen
<1>3. CASE Quiet(t)
  <2>0. \/ /\ pc'[t] = "lookcurr" /\ Marked(loc[t].curr, loc[t].lvl)
           /\ \E v : v = Word(loc[t].curr, loc[t].lvl)
                     /\ loc' = [loc EXCEPT ![t].curr = v]
        \/ /\ pc'[t] = "lookcurr" /\ ~ Marked(loc[t].curr, loc[t].lvl)
           /\ Before(loc[t].curr, Key(t))
           /\ \E v, w : /\ v = loc[t].curr /\ w = Word(loc[t].curr, loc[t].lvl)
                        /\ loc' = [loc EXCEPT ![t].pred = v, ![t].curr = w]
        \/ /\ pc'[t] \in {"lookdups", "lookpred"}
           /\ \E v : \/ loc' = [loc EXCEPT ![t].found = v]
                     \/ loc' = [loc EXCEPT ![t].lvl = v]
    BY <1>3 DEF LookCurr, LookDown, Return, Goto, Here, LocalsKept, Quiet, Word
  <2>1. CASE /\ pc'[t] \in {"lookdups", "lookpred"}
             /\ \E v : \/ loc' = [loc EXCEPT ![t].found = v]
                       \/ loc' = [loc EXCEPT ![t].lvl = v]
    <3>1. loc'[t].pred = loc[t].pred BY <2>1 DEF Here, LocalsKept, NoLocals
    <3> QED
      BY <1>1, <1>3, <2>1, <3>1, QuietSeen
         DEF Placed, Placing, Moving, Demoting, Unlinking, Marking
  <2>2. ASSUME loc[t].lvl = 0, pc'[t] = "lookcurr",
               \/ Marked(loc[t].curr, 0)
               \/ Before(loc[t].curr, Key(t))
        PROVE  /\ Word(loc[t].curr, 0) # Nil
               /\ FALSE \in seen[t] \/ Ahead(Word(loc[t].curr, 0), Key(t))
    <3>1. FALSE \in seen[t] \/ Ahead(loc[t].curr, Key(t))
      BY <1>1, <2>2 DEF SeenOf
    <3>2. Words /\ Key(t) \in Nat /\ loc[t].curr # Head
          /\ loc[t].curr \in Before0 \cup {Tail, Nil}
      BY <1>1, KeyNumber DEF Here, Locals, Values, Walking
    <3>3. loc[t].curr \in Known
      BY <2>2, <3>2, MarkedWord, ConstantFacts DEF Before, Before0, Known
    <3>4. loc[t].curr \notin live \/ KeyOf[loc[t].curr] # Key(t)
      <4>1. KeyOf[loc[t].curr] \in Nat BY <3>2, <3>3, KnownNodes, SkipListAssumption
      <4>2. CASE Marked(loc[t].curr, 0) BY <3>2, <4>2 DEF Words
      <4>3. CASE Before(loc[t].curr, Key(t)) BY <3>2, <4>1, <4>3 DEF Before
      <4> QED BY <2>2, <4>2, <4>3
    <3>5. Word(loc[t].curr, 0) # Nil
      BY <3>2, <3>3, LinkedWord, ConstantFacts DEF Word, Before0
    <3> QED BY <3>1, <3>2, <3>3, <3>4, <3>5, StepAhead DEF Word
  <2>3. ASSUME /\ loc'[t].lvl = loc[t].lvl /\ loc'[t].call = loc[t].call
               /\ loc'[t].curr = Word(loc[t].curr, loc[t].lvl)
               /\ Before(loc'[t].pred, Key(t)) /\ pc'[t] = "lookcurr",
               \/ Marked(loc[t].curr, loc[t].lvl)
               \/ Before(loc[t].curr, Key(t))
        PROVE  SeenOf(t)'
    <3>1. ASSUME loc'[t].lvl = 0
          PROVE  /\ loc'[t].curr # Nil
                 /\ FALSE \in seen[t] \/ Ahead(loc[t].curr, Key(t))'
      <4>1. /\ loc'[t].curr # Nil
            /\ FALSE \in seen[t] \/ Ahead(loc'[t].curr, Key(t))
        BY <2>2, <2>3, <3>1
      <4>2. live' = live /\ next' = next /\ Key(t)' = Key(t)
        BY <1>1, <1>3, <2>3 DEF Quiet, Key
      <4>3. Ahead(loc'[t].curr, Key(t)) => Ahead(loc[t].curr, Key(t))'
        BY <4>2 DEF Ahead, From, Closed
      <4> QED BY <4>1, <4>3
    <3> QED
      BY <1>3, <2>3, <3>1, QuietSeen
         DEF Placed, Placing, Moving, Demoting, Unlinking, Marking
  <2>4. CASE /\ pc'[t] = "lookcurr" /\ Marked(loc[t].curr, loc[t].lvl)
             /\ \E v : v = Word(loc[t].curr, loc[t].lvl)
                       /\ loc' = [loc EXCEPT ![t].curr = v]
    <3>1. /\ loc'[t].lvl = loc[t].lvl /\ loc'[t].call = loc[t].call
          /\ loc'[t].curr = Word(loc[t].curr, loc[t].lvl)
          /\ loc'[t].pred = loc[t].pred
      BY <2>4 DEF Here, LocalsKept, NoLocals
    <3> QED BY <1>1, <2>3, <2>4, <3>1
  <2>5. CASE /\ pc'[t] = "lookcurr" /\ ~ Marked(loc[t].curr, loc[t].lvl)
             /\ Before(loc[t].curr, Key(t))
             /\ \E v, w : /\ v = loc[t].curr /\ w = Word(loc[t].curr, loc[t].lvl)
                          /\ loc' = [loc EXCEPT ![t].pred = v, ![t].curr = w]
    <3>1. /\ loc'[t].lvl = loc[t].lvl /\ loc'[t].call = loc[t].call
          /\ loc'[t].curr = Word(loc[t].curr, loc[t].lvl)
          /\ loc'[t].pred = loc[t].curr
      BY <2>5 DEF Here, LocalsKept, NoLocals
    <3> QED BY <1>1, <2>3, <2>5, <3>1
  <2> QED BY <2>0, <2>1, <2>4, <2>5
<1> QED BY <1>2, <1>3, LookCurrGoes

-----------------------------------------------------------------------------
(* The steps that change the set, and a call's first.                      *)
LEMMA BeginsSeen ==
    ASSUME NEW t \in Threads, DOMAIN seen = Threads, Begins(t)
    PROVE  SeenOf(t)'
<1>1. pc'[t] \in Begun /\ live' = live BY DEF Begins
<1>2. seen'[t] = {Has(live, Key(t)')} BY DEF Begins, Key
<1>3. Has(live, Key(t)') \in BOOLEAN BY DEF Has
<1>4. Has(live, Key(t))' = Has(live, Key(t)') BY <1>1 DEF Has
<1> HIDE DEF After, Before, Has, Ahead, Key
<1> QED
  BY <1>1, <1>2, <1>3, <1>4
     DEF SeenOf, Begun, Placed, Placing, Moving, Demoting, Unlinking, Marking

LEMMA BecomesSeen ==
    ASSUME NEW u \in Threads, NEW S, Becomes(S), pc[u] # "idle",
           loc'[u].call = loc[u].call
    PROVE  /\ seen'[u] = seen[u] \cup {Has(live, Key(u))'}
           /\ Has(live, Key(u))' \in BOOLEAN
<1>1. seen'[u] = seen[u] \cup {Has(S, Key(u))} BY DEF Becomes
<1>2. Has(live, Key(u))' = Has(S, Key(u)) BY DEF Becomes, Key, Has
<1>3. Has(S, Key(u)) \in BOOLEAN BY DEF Has
<1> QED BY <1>1, <1>2, <1>3

LEMMA EntersSeen ==
    ASSUME NEW t \in Threads, SeenOf(t), Enters(t)
    PROVE  SeenOf(t)'
<1>1. seen'[t] = seen[t] \cup {Has(live, Key(t))'} /\ Has(live, Key(t))' \in BOOLEAN
  BY BecomesSeen DEF Enters
<1>2. seen[t] \subseteq BOOLEAN /\ pc'[t] = "help" BY DEF SeenOf, Enters
<1> HIDE DEF After, Before, Has, Ahead, Key
<1> QED
  BY <1>1, <1>2 DEF SeenOf, Placed, Placing, Moving, Demoting, Unlinking, Marking

LEMMA TakesSeen ==
    ASSUME NEW t \in Threads, SeenOf(t), Takes(t)
    PROVE  SeenOf(t)'
<1>1. seen'[t] = seen[t] \cup {Has(live, Key(t))'} /\ Has(live, Key(t))' \in BOOLEAN
  BY BecomesSeen DEF Takes
<1>2. seen[t] \subseteq BOOLEAN /\ pc'[t] = "unlink" /\ loc'[t] = loc[t]
  BY DEF SeenOf, Takes
<1>3. loc[t].found # Nil /\ TRUE \in seen[t]
  BY DEF SeenOf, Takes, Placed
<1> HIDE DEF After, Before, Has, Ahead, Key
<1> QED BY <1>1, <1>2, <1>3 DEF SeenOf, Marking

(* Every step of a call, as its own answers see it.                        *)
SeesOn(t) == SeenOf(t) /\ ~ hasDups /\ DOMAIN seen = Threads

LEMMA LocateSeen ==
    ASSUME NEW t \in Threads, Here(t), SeesOn(t), Words', Locate(t)
    PROVE  SeenOf(t)'
BY GoingSeen, LocStartGoes, LocPredSeen, LocMarkedGoes, LocHelpSeen,
   LocAdvanceSeen, LocRecordSeen DEF Locate, Going, SeesOn

LEMMA InsertSeen ==
    ASSUME NEW t \in Threads, Here(t), SeesOn(t), Words', Insert(t)
    PROVE  SeenOf(t)'
BY GoingSeen, EndsSeen, EntersSeen, ExistsEnds, TossGoes, GrowGoes, GrowTailGoes,
   LinkEnters, HelpGoes, HelpNextGoes, HelpCasGoes, RaiseGoes, RaiseSetGoes,
   RaiseCasGoes, RaiseAgainGoes, RelinkGoes, PrevGoes, PrevSuccGoes, PrevCasGoes,
   CountEnds DEF Insert, Going, SeesOn

LEMMA RemoveSeen ==
    ASSUME NEW t \in Threads, Here(t), SeesOn(t), Words', Remove(t)
    PROVE  SeenOf(t)'
BY GoingSeen, EndsSeen, TakesSeen, NoEntryEnds, FoundGoes, MarkGoes, Mark0Takes,
   UnlinkGoes, SweepGoes, SweepHeadGoes, SweepCurrGoes, SweepCasGoes,
   VerifyHeadGoes, VerifyCurrGoes, UnPrevGoes, UnPrevCasGoes, UnCountGoes,
   ShrinkGoes, ShrinkCasGoes, ShrinkTailGoes, RetireGoes, AdjustEnds
   DEF Remove, Going, SeesOn

LEMMA LookupSeen ==
    ASSUME NEW t \in Threads, Here(t), SeesOn(t), Words', Lookup(t)
    PROVE  SeenOf(t)'
BY GoingSeen, EndsSeen, LookStartGoes, LookPredSeen, LookCurrSeen, LookDupsGoes
   DEF Lookup, Going, SeesOn

LEMMA CursorStepSeen ==
    ASSUME NEW t \in Threads, Here(t), SeesOn(t), Words', CursorStep(t)
    PROVE  SeenOf(t)'
BY GoingSeen, EndsSeen, PositionLowEnds, PositionHighGoes, ScanGoes, ScanTestGoes,
   ScanHeadGoes, ForwardGoes, ScanTailGoes, FollowGoes, HintGoes, CheckHintGoes,
   RescanGoes, RehintEnds DEF CursorStep, Going, SeesOn

LEMMA SplayStepSeen ==
    ASSUME NEW t \in Threads, Here(t), SeesOn(t), Words', SplayStep(t)
    PROVE  SeenOf(t)'
BY GoingSeen, EndsSeen, FoundAtEnds, RebalanceGoes, RebNodeGoes, RebNextGoes,
   RebHeightGoes, DemotePredGoes, DemoteSuccGoes, DemoteCasGoes, DemoteLowGoes,
   ReReadGoes, PromoteGoes, GrowHeadGoes, InitHeadGoes, BumpGoes, PromotePredGoes,
   PromoteSuccGoes, PromoteSetGoes, PromoteCasGoes, RevertGoes, RecheckGoes,
   UndoGoes, UndoCasGoes DEF SplayStep, Going, SeesOn

LEMMA StepSeen ==
    ASSUME NEW t \in Threads, Here(t), SeesOn(t), Words',
           \/ Call(t) \/ CursorCall(t) \/ SplayCall(t)
           \/ Step(t) \/ CursorStep(t) \/ SplayStep(t)
    PROVE  SeenOf(t)'
BY LocateSeen, InsertSeen, RemoveSeen, LookupSeen, CursorStepSeen, SplayStepSeen,
   CallBegins, BeginsSeen DEF Step, SeesOn

-----------------------------------------------------------------------------
(* A walk of another thread: what was ahead of it and stays in the set     *)
(* stays ahead.                                                            *)
Passes ==
    Words /\ Reach /\ ~ hasDups =>
       \A x \in live, c \in live : KeyOf[c] < KeyOf[x] => x \in From(c, 0)
Leads ==
    Words => \A c \in Known : /\ next[c, 0] \in From(c, 0) \cup {Tail}
                              /\ next[c, 0] \in Known =>
                                    From(next[c, 0], 0) \subseteq From(c, 0)

LEMMA PassesHolds == Passes
BY LiveInOrder DEF Passes

LEMMA PassesNext == Passes'
BY PassesHolds, PTL

LEMMA LeadsHolds == Leads
<1> SUFFICES ASSUME Words, NEW c \in Known
             PROVE  /\ next[c, 0] \in From(c, 0) \cup {Tail}
                    /\ next[c, 0] \in Known =>
                          From(next[c, 0], 0) \subseteq From(c, 0)
  BY DEF Leads
<1>1. c \in Before0 /\ c # Tail BY KnownNodes DEF Before0
<1>2. next[c, 0] \in Known \cup {Tail} BY <1>1, LinkedWord, ConstantFacts DEF Beyond
<1>3. Closed(c, 0, From(c, 0)) BY <1>1, FromClosed
<1>4. next[c, 0] # Nil BY <1>2, KnownNodes, ConstantFacts
<1>5. next[c, 0] \in From(c, 0) BY <1>1, <1>3, <1>4 DEF Closed
<1>6. ASSUME next[c, 0] \in Known, NEW x \in From(next[c, 0], 0)
      PROVE  x \in From(c, 0)
  <2>1. x \in Nodes \cup {Tail} BY <1>6 DEF From
  <2>2. ASSUME NEW S \in SUBSET (Nodes \cup {Tail}), Closed(c, 0, S)
        PROVE  x \in S
    <3>1. next[c, 0] \in S BY <1>1, <1>4, <2>2 DEF Closed
    <3>2. Closed(next[c, 0], 0, S) BY <2>2, <3>1 DEF Closed
    <3> QED BY <1>6, <2>2, <3>2 DEF From
  <2> QED BY <2>1, <2>2 DEF From
<1> QED BY <1>5, <1>6

LEMMA LeadsNext == Leads'
BY LeadsHolds, PTL

(* A node that leaves the set keeps its word in that step.                 *)
Leaves == \A d \in live \ live' : next'[d, 0] = next[d, 0]

LEMMA FromKept ==
    ASSUME Words, ~ hasDups, Words', Reach', ~ hasDups', Monotone, Leaves,
           NEW x \in live, x \in live'
    PROVE  \A c \in Known : x \in From(c, 0) => x \in From(c, 0)'
<1> DEFINE B == {c \in Known : x \in From(c, 0) /\ ~ (x \in From(c, 0)')}
<1>1. SUFFICES B = {} OBVIOUS
<1>2. SUFFICES ASSUME B # {} PROVE FALSE OBVIOUS
<1>3. B \in SUBSET Nodes BY KnownNodes
<1>4. Last(B) \in B /\ \A m \in B : KeyOf[Last(B)] >= KeyOf[m]
  BY <1>2, <1>3, LastKey
<1>5. PICK d \in B : \A m \in B : KeyOf[d] >= KeyOf[m] BY <1>4
<1>6. d \in Known /\ x \in From(d, 0) /\ ~ (x \in From(d, 0)') BY <1>5
<1>7. x # Tail /\ KeyOf[d] < KeyOf[x] BY <1>6, LiveNodes, FromAbove
<1>8. CASE d \in live' BY <1>6, <1>7, <1>8, PassesNext DEF Passes
<1>9. CASE d \notin live'
  <2>0. PICK e : e = next[d, 0] OBVIOUS
  <2>1. next'[d, 0] = e
    BY <1>6, <1>9, <2>0, KnownNodes DEF Known, Monotone, Leaves
  <2>2. x \in {e} \cup From(e, 0)
    BY <1>6, <2>0, NextAhead, LiveNodes DEF Before0
  <2>3. d \in Known' BY <1>6 DEF Monotone
  <2>4. e \in From(d, 0)' \cup {Tail}
    BY <2>1, <2>3, LeadsNext DEF Leads
  <2>5. x # e BY <1>6, <1>7, <2>4
  <2>6. e \in Known
    <3>1. e \in Known \cup {Tail}
      BY <1>6, <2>0, LinkedWord, ConstantFacts DEF Beyond, Before0
    <3>2. CASE e = Tail
      <4>1. Closed(Tail, 0, {}) /\ {} \in SUBSET (Nodes \cup {Tail}) BY DEF Closed
      <4> QED BY <2>2, <2>5, <3>2, <4>1 DEF From
    <3> QED BY <3>1, <3>2
  <2>7. KeyOf[d] < KeyOf[e]
    <3>1. d \in Nodes /\ e \in Nodes BY <1>6, <2>6, KnownNodes
    <3> QED BY <2>0, <3>1 DEF Words, Ordered
  <2>8. x \in From(e, 0)'
    <3>1. e \in B => KeyOf[d] >= KeyOf[e] BY <1>5
    <3>2. KeyOf[d] \in Nat /\ KeyOf[e] \in Nat
      BY <1>6, <2>6, KnownNodes, SkipListAssumption
    <3> HIDE DEF B
    <3>3. e \notin B BY <2>7, <3>1, <3>2
    <3> QED BY <2>2, <2>5, <2>6, <3>3 DEF B
  <2>9. e \in Known' BY <2>6 DEF Monotone
  <2>10. From(next[d, 0], 0)' = From(e, 0)' BY <2>1 DEF From, Closed
  <2> QED BY <1>6, <2>1, <2>3, <2>8, <2>9, <2>10, LeadsNext DEF Leads
<1> QED BY <1>8, <1>9

-----------------------------------------------------------------------------
(* What a step of one thread does to what the calls of the others saw.     *)
Comes == \A x \in live' \ live : ~ Has(live, KeyOf[x])

LEMMA UniqueNext == (Words /\ Reach => UniqueKeys)'
<1>1. Words /\ Reach => UniqueKeys BY KeysUnique
<1> QED BY <1>1, PTL

(* A node of its key has left the set: the key is missing now.             *)
LEMMA GoneMissing ==
    ASSUME Words, Reach, ~ hasDups, Comes, NEW f \in live, f \notin live'
    PROVE  ~ \E y \in live' : KeyOf[y] = KeyOf[f]
<1> SUFFICES ASSUME NEW y \in live', KeyOf[y] = KeyOf[f] PROVE FALSE OBVIOUS
<1>1. UniqueKeys BY KeysUnique
<1>2. y \notin live BY <1>1 DEF UniqueKeys
<1>3. ~ Has(live, KeyOf[y]) BY <1>2 DEF Comes
<1> QED BY <1>3 DEF Has

LEMMA AheadKept ==
    ASSUME Words, ~ hasDups, Words', Reach', ~ hasDups', Monotone, Leaves, Comes,
           NEW k, Has(live, k), NEW c \in Known \cup {Tail}, Ahead(c, k)
    PROVE  Ahead(c, k)'
<1> SUFFICES ASSUME NEW x \in live', KeyOf[x] = k
             PROVE  x \in {c} \cup From(c, 0)'
  BY DEF Ahead
<1>1. x \in live BY DEF Comes
<1>2. x \in {c} \cup From(c, 0) BY <1>1 DEF Ahead
<1>3. CASE c \in Known BY <1>1, <1>2, <1>3, FromKept
<1>4. CASE c = Tail
  <2>1. Closed(c, 0, {}) /\ {} \in SUBSET (Nodes \cup {Tail})
    BY <1>4 DEF Closed
  <2>2. From(c, 0) = {} BY <2>1 DEF From
  <2> QED BY <1>2, <2>2
<1> QED BY <1>3, <1>4

Hears(u) ==
    /\ pc[u] = "idle" => seen'[u] = {}
    /\ pc[u] # "idle" => seen'[u] = seen[u] \cup {Has(live, Key(u))'}

LEMMA OthersSeen ==
    ASSUME Words, Reach, ~ hasDups, Words', Reach', ~ hasDups', Monotone,
           Leaves, Comes, NEW u \in Threads, Locals(u), SeenOf(u),
           loc'[u] = loc[u], pc'[u] = pc[u], Hears(u)
    PROVE  SeenOf(u)'
<1>1. Key(u)' = Key(u) BY DEF Key
<1>2. Has(live, Key(u))' \in BOOLEAN BY DEF Has
<1>3. seen'[u] \subseteq BOOLEAN /\ (pc[u] # "idle" => seen[u] \subseteq seen'[u])
  BY <1>2 DEF Hears, SeenOf
<1>4. pc[u] # "idle" => Has(live, Key(u))' \in seen'[u] BY DEF Hears
<1>5. ASSUME pc[u] \in Marking, loc[u].found # Nil, <<loc[u].found, 0>> \in marked'
      PROVE  FALSE \in seen'[u]
  <2>1. pc[u] # "idle" BY <1>5 DEF Marking
  <2>2. loc[u].found \in Known /\ KeyOf[loc[u].found] = Key(u)
    BY <1>5, <2>1 DEF Locals, Values, Walking
  <2>3. CASE Marked(loc[u].found, 0) BY <1>3, <1>5, <2>1, <2>3 DEF SeenOf
  <2>4. CASE loc[u].found \in live
    <3>1. loc[u].found \notin live' BY <1>5 DEF Words, Marked
    <3>2. ~ Has(live, Key(u))' BY <1>1, <2>2, <2>4, <3>1, GoneMissing DEF Has
    <3>3. Has(live, Key(u))' = FALSE BY <3>2 DEF Has
    <3> QED BY <1>4, <2>1, <3>3
  <2> QED BY <2>2, <2>3, <2>4 DEF Known
<1>6. ASSUME pc[u] = "lookcurr", loc[u].lvl = 0, FALSE \notin seen'[u]
      PROVE  loc[u].curr # Nil /\ Ahead(loc[u].curr, Key(u))'
  <2>1. loc[u].curr # Nil /\ Ahead(loc[u].curr, Key(u))
    BY <1>3, <1>6 DEF SeenOf
  <2>2. Has(live, Key(u)) BY <1>3, <1>6, SeenFalse DEF SeenOf
  <2>3. loc[u].curr \in Known \cup {Tail}
    BY <1>6, <2>1 DEF Locals, Values, Walking, Before0
  <2>4. \A k \in {Key(u)}, c \in {loc[u].curr} : Ahead(c, k)'
    BY <2>1, <2>2, <2>3, AheadKept
  <2> QED BY <1>1, <2>1, <2>4 DEF Ahead, From, Closed
<1>7. SeenOf(u) OBVIOUS
<1> HIDE DEF After, Before, Has, Ahead, Key, Placed
<1>8. pc[u] # "idle" \/ pc[u] = "idle" OBVIOUS
<1>9. pc[u] \in Placed \cup Marking => pc[u] # "idle"
  BY DEF Placed, Placing, Moving, Demoting, Unlinking, Marking
<1> QED BY <1>1, <1>3, <1>4, <1>5, <1>6, <1>7, <1>9 DEF SeenOf, Marked

-----------------------------------------------------------------------------
(* The invariant behind the answers.                                       *)
AnswerInv ==
    /\ ~ hasDups /\ DOMAIN seen = Threads /\ DOMAIN result = Threads
    /\ \A t \in Threads :
          Kind(t) /\ SeenOf(t) /\ (pc[t] = "idle" => seen[t] = {})

LEMMA HearsSame ==
    ASSUME NEW u \in Threads, SeenOf(u), pc[u] = "idle" => seen[u] = {},
           loc'[u] = loc[u], live' = live, seen'[u] = seen[u]
    PROVE  Hears(u)
<1>1. Has(live, Key(u))' = Has(live, Key(u)) BY DEF Has, Key
<1>2. pc[u] # "idle" => Has(live, Key(u)) \in seen[u] BY DEF SeenOf
<1> HIDE DEF Has, Key
<1> QED BY <1>1, <1>2 DEF Hears

LEMMA HearsNew ==
    ASSUME NEW u \in Threads, loc'[u] = loc[u], NEW S, Becomes(S)
    PROVE  Hears(u)
<1>1. pc[u] = "idle" => seen'[u] = {} BY DEF Becomes
<1> QED BY <1>1, BecomesSeen DEF Hears

LEMMA SetSteps ==
    ASSUME NEW t \in Threads, Only(t), AnswerInv, Words', Reach', ~ hasDups',
           Counts(t) \/ Begins(t)
    PROVE  /\ Leaves /\ Comes /\ \A u \in Threads \ {t} : Hears(u)
           /\ DOMAIN seen' = Threads /\ DOMAIN result' = Threads
<1>1. CASE Quiet(t)
  <2>1. live' = live /\ seen' = seen /\ result' = result BY <1>1 DEF Quiet
  <2>2. \A u \in Threads \ {t} : Hears(u) BY <2>1, HearsSame DEF AnswerInv, Only
  <2> QED BY <2>1, <2>2 DEF AnswerInv, Leaves, Comes
<1>2. CASE Ends(t) \/ Begins(t)
  <2>1. /\ live' = live /\ DOMAIN seen' = Threads /\ DOMAIN result' = Threads
        /\ \A u \in Threads \ {t} : seen'[u] = seen[u]
    BY <1>2 DEF Ends, Return, Begins, AnswerInv
  <2>2. \A u \in Threads \ {t} : Hears(u) BY <2>1, HearsSame DEF AnswerInv, Only
  <2> QED BY <2>1, <2>2 DEF Leaves, Comes
<1>3. CASE Enters(t)
  <2>1. Becomes(live \cup {Node(t)}) /\ Node(t) \notin live BY <1>3 DEF Enters
  <2>2. live' = live \cup {Node(t)} BY <2>1 DEF Becomes
  <2>3. UniqueKeys' BY UniqueNext
  <2>4. \A m, n \in live' : KeyOf[m] = KeyOf[n] => m = n BY <2>3 DEF UniqueKeys
  <2>5. Comes BY <2>1, <2>2, <2>4 DEF Comes, Has
  <2>6. Leaves BY <2>2 DEF Leaves
  <2>7. \A u \in Threads \ {t} : Hears(u) BY <2>1, HearsNew DEF Only
  <2>8. DOMAIN seen' = Threads /\ DOMAIN result' = Threads
    BY <2>1 DEF Becomes, AnswerInv
  <2> QED BY <2>5, <2>6, <2>7, <2>8
<1>4. CASE Takes(t)
  <2>1. Becomes(live \ {loc[t].node}) /\ next' = next BY <1>4 DEF Takes
  <2>2. live' = live \ {loc[t].node} BY <2>1 DEF Becomes
  <2>3. Comes BY <2>2 DEF Comes
  <2>4. Leaves BY <2>1 DEF Leaves
  <2>5. \A u \in Threads \ {t} : Hears(u) BY <2>1, HearsNew DEF Only
  <2>6. DOMAIN seen' = Threads /\ DOMAIN result' = Threads
    BY <2>1 DEF Becomes, AnswerInv
  <2> QED BY <2>3, <2>4, <2>5, <2>6
<1> QED BY <1>1, <1>2, <1>3, <1>4 DEF Counts, Rests

LEMMA KindOn ==
    ASSUME NEW t \in Threads, Here(t), Kind(t), Counts(t) \/ Begins(t)
    PROVE  Kind(t)' /\ (pc'[t] = "idle" => Ends(t))
<1>1. CASE Begins(t) BY <1>1 DEF Begins, Begun
<1>2. CASE Ends(t) BY <1>2, ReturnIdle DEF Kind
<1>3. CASE Quiet(t) /\ (Kind(t) => Kind(t)') BY <1>3 DEF Quiet
<1>4. CASE (Enters(t) \/ Takes(t)) /\ (Kind(t) => Kind(t)')
  BY <1>4 DEF Enters, Takes
<1> QED BY <1>1, <1>2, <1>3, <1>4 DEF Counts, Rests

LEMMA KindElse ==
    ASSUME NEW u \in Threads, Kind(u), loc'[u] = loc[u], pc'[u] = pc[u]
    PROVE  Kind(u)'
BY DEF Kind, Op

LEMMA AnswerStep ==
    ASSUME NoDuplicates, ListFull, AnswerInv, NEW t \in Threads,
           \/ Call(t) \/ CursorCall(t) \/ SplayCall(t)
           \/ Step(t) \/ CursorStep(t) \/ SplayStep(t)
    PROVE  AnswerInv' /\ Here(t) /\ Only(t) /\ (Counts(t) \/ Begins(t))
<1>1. ListInv' /\ Tidy(t) /\ Here(t) /\ Only(t)
  BY OneStepKeeps DEF ListFull
<1>2. Words' /\ Reach' /\ Monotone BY <1>1 DEF Tidy
<1>3. ~ hasDups' BY <1>1, NoDupsKept DEF AnswerInv
<1>4. Counts(t) \/ Begins(t) BY <1>1, CallBegins, StepCounts
<1>5. /\ Leaves /\ Comes /\ \A u \in Threads \ {t} : Hears(u)
      /\ DOMAIN seen' = Threads /\ DOMAIN result' = Threads
  BY <1>1, <1>2, <1>3, <1>4, SetSteps
<1>6. SeenOf(t)' BY <1>1, <1>2, StepSeen DEF AnswerInv, SeesOn
<1>7. Kind(t)' /\ (pc'[t] = "idle" => Ends(t)) BY <1>1, <1>4, KindOn DEF AnswerInv
<1>8. pc'[t] = "idle" => seen'[t] = {}
  BY <1>7 DEF Ends, Return, AnswerInv
<1>9. ASSUME NEW u \in Threads \ {t}
      PROVE  Kind(u)' /\ SeenOf(u)' /\ (pc'[u] = "idle" => seen'[u] = {})
  <2>1. loc'[u] = loc[u] /\ pc'[u] = pc[u] BY <1>1 DEF Only
  <2>2. Kind(u)' BY <2>1, KindElse DEF AnswerInv
  <2>3. SeenOf(u)'
    BY <1>2, <1>3, <1>5, <2>1, OthersSeen DEF ListFull, ListInv, AnswerInv
  <2>4. pc'[u] = "idle" => seen'[u] = {} BY <1>5, <2>1 DEF Hears
  <2> QED BY <2>2, <2>3, <2>4
<1>10. AnswerInv' BY <1>3, <1>5, <1>6, <1>7, <1>8, <1>9 DEF AnswerInv
<1> QED BY <1>1, <1>4, <1>10

LEMMA AnswerInit == ASSUME Init PROVE AnswerInv
<1>1. /\ ~ hasDups /\ DOMAIN seen = Threads /\ DOMAIN result = Threads
      /\ \A t \in Threads : pc[t] = "idle" /\ seen[t] = {}
  BY DEF Init
<1>2. \A t \in Threads : Kind(t) BY <1>1 DEF Kind
<1>3. ASSUME NEW t \in Threads PROVE SeenOf(t)
  <2>1. pc[t] = "idle" /\ seen[t] = {} BY <1>1
  <2> HIDE DEF After, Before, Has, Ahead, Key
  <2> QED
    BY <2>1 DEF SeenOf, Placed, Placing, Moving, Demoting, Unlinking, Marking
<1> QED BY <1>1, <1>2, <1>3 DEF AnswerInv

LEMMA AnswerSame == ASSUME AnswerInv, UNCHANGED vars PROVE AnswerInv'
<1>1. UNCHANGED <<hasDups, seen, result, pc, loc, live, next, marked>>
  BY DEF vars, shape, history
<1>2. \A t \in Threads : Kind(t)' BY <1>1, KindElse DEF AnswerInv
<1>3. ASSUME NEW t \in Threads PROVE SeenOf(t)'
  <2>1. SeenOf(t) BY DEF AnswerInv
  <2>2. Key(t)' = Key(t) /\ Has(live, Key(t))' = Has(live, Key(t))
    BY <1>1 DEF Key, Has
  <2>3. Ahead(loc[t].curr, Key(t))' <=> Ahead(loc[t].curr, Key(t))
    BY <1>1, <2>2 DEF Ahead, From, Closed
  <2> HIDE DEF After, Before, Has, Ahead, Key, Placed
  <2> QED BY <1>1, <2>1, <2>2, <2>3 DEF SeenOf, Marked
<1> QED BY <1>1, <1>2, <1>3 DEF AnswerInv

-----------------------------------------------------------------------------
(* The steps of the ordered set that the steps of the list are.            *)
CallOf == [t \in Threads |-> loc[t].call]

LEMMA TookSet == TookEffect = {t \in Threads : Took(t)}
BY DEF TookEffect, Took, Locating, Op

LEMMA TookNext == (TookEffect = {t \in Threads : Took(t)})'
BY TookSet, PTL

LEMMA OthersTook ==
    ASSUME NEW t \in Threads, Only(t)
    PROVE  /\ TookEffect' = IF Took(t)' THEN TookEffect \cup {t}
                            ELSE TookEffect \ {t}
           /\ t \in TookEffect <=> Took(t)
           /\ CallOf' = [CallOf EXCEPT ![t] = loc'[t].call]
<1>1. \A u \in Threads \ {t} : Took(u)' <=> Took(u) BY DEF Only, Took, Op
<1>2. TookEffect' = {u \in Threads : Took(u)'} BY TookNext
<1>3. CallOf' = [CallOf EXCEPT ![t] = loc'[t].call] BY DEF CallOf, Only
<1> QED BY <1>1, <1>2, <1>3, TookSet

LEMMA QuietStep ==
    ASSUME NEW t \in Threads, Only(t), Quiet(t)
    PROVE  UNCHANGED Updates!osVars
<1>1. TookEffect' = TookEffect BY OthersTook DEF Quiet
<1>2. CallOf' = CallOf BY OthersTook DEF Quiet, CallOf
<1>3. UNCHANGED <<live, seen, result>> BY DEF Quiet
<1> QED BY <1>1, <1>2, <1>3 DEF Updates!osVars, CallOf

LEMMA BeginStep ==
    ASSUME NEW t \in Threads, Only(t), Begins(t)
    PROVE  Updates!Invoke(t)
<1>1. TookEffect' = TookEffect BY OthersTook DEF Begins
<1>2. CallOf' = [CallOf EXCEPT ![t] = loc'[t].call] /\ CallOf[t] = Nil
  BY OthersTook DEF CallOf, Begins
<1>3. /\ loc'[t].call \in Invocations \ {Nil}
      /\ seen' = [seen EXCEPT ![t] = {Has(live, loc'[t].call.key)}]
      /\ result' = [result EXCEPT ![t] = "none"]
      /\ live' = live
  BY DEF Begins
<1> QED BY <1>1, <1>2, <1>3 DEF Updates!Invoke, Updates!Has, Has, CallOf

LEMMA CallInProgress ==
    ASSUME NEW t \in Threads, Called(t)
    PROVE  pc[t] # "idle" <=> loc[t].call # Nil
BY CallsAssumption DEF Called, NoLocals

LEMMA BecomesWith ==
    ASSUME LocalsKept, \A u \in Threads : Called(u),
           \A u \in Threads : pc[u] = "idle" => seen[u] = {},
           NEW S, Becomes(S)
    PROVE  seen' = Updates!SeenWith(S)
<1>1. ASSUME NEW u \in Threads
      PROVE  (IF pc[u] = "idle" THEN {} ELSE seen[u] \cup {Has(S, Key(u))})
             = seen[u] \cup {Has(S, CallOf[u].key) : x \in {CallOf[u]} \ {Nil}}
  <2>1. CASE pc[u] = "idle"
    <3>1. {CallOf[u]} \ {Nil} = {} BY <2>1, CallInProgress DEF CallOf
    <3> QED BY <2>1, <3>1
  <2>2. CASE pc[u] # "idle"
    <3>1. {CallOf[u]} \ {Nil} = {CallOf[u]} BY <2>2, CallInProgress DEF CallOf
    <3>2. CallOf[u].key = Key(u) BY DEF CallOf, Key
    <3> QED BY <2>2, <3>1, <3>2
  <2> QED BY <2>1, <2>2
<1>2. Updates!SeenWith(S) =
         [u \in Threads |->
             seen[u] \cup {Has(S, CallOf[u].key) : x \in {CallOf[u]} \ {Nil}}]
  BY DEF Updates!SeenWith, Updates!Has, Has, CallOf
<1>3. seen' = [u \in Threads |->
                  IF pc[u] = "idle" THEN {} ELSE seen[u] \cup {Has(S, Key(u))}]
  BY DEF Becomes
<1> QED BY <1>1, <1>2, <1>3

LEMMA EnterStep ==
    ASSUME NoDuplicates, NEW t \in Threads, Here(t), Only(t), Enters(t),
           \A u \in Threads : Called(u),
           \A u \in Threads : pc[u] = "idle" => seen[u] = {},
           ~ Has(live, Key(t))
    PROVE  Updates!Add(t)
<1>1. TookEffect' = TookEffect \cup {t} /\ t \notin TookEffect
  BY OthersTook DEF Enters
<1>2. CallOf' = CallOf BY OthersTook DEF Enters, CallOf
<1>3. CallOf[t] # Nil /\ CallOf[t].op \in {"insert", "insert_dup"}
  BY CallInProgress DEF CallOf, Enters, Op, Inserts
<1>4. /\ live' = live \cup {CallOf[t].node} /\ CallOf[t].node \notin live
      /\ result' = result /\ seen' = Updates!SeenWith(live')
  <2>1. Becomes(live \cup {Node(t)}) BY DEF Enters
  <2>2. seen' = Updates!SeenWith(live \cup {Node(t)})
    BY <2>1, BecomesWith DEF Here
  <2>3. live' = live \cup {Node(t)} /\ result' = result BY <2>1 DEF Becomes
  <2>4. CallOf[t].node = Node(t) BY DEF CallOf, Node
  <2> QED BY <2>2, <2>3, <2>4 DEF Enters
<1>5. ~ Updates!Has(live, CallOf[t].key) BY DEF Updates!Has, Has, CallOf, Key
<1> QED BY <1>1, <1>2, <1>3, <1>4, <1>5 DEF Updates!Add, CallOf

LEMMA TakeStep ==
    ASSUME NEW t \in Threads, Here(t), Only(t), Takes(t), SeenOf(t),
           \A u \in Threads : Called(u),
           \A u \in Threads : pc[u] = "idle" => seen[u] = {}
    PROVE  Updates!Take(t)
<1>1. TookEffect' = TookEffect \cup {t} /\ t \notin TookEffect
  BY OthersTook DEF Takes
<1>2. CallOf' = CallOf BY OthersTook DEF Takes, CallOf
<1>3. CallOf[t] # Nil /\ CallOf[t].op = "remove"
  BY CallInProgress DEF CallOf, Takes, Op
<1>4. /\ live' = live \ {loc[t].node} /\ loc[t].node \in live
      /\ result' = result /\ seen' = Updates!SeenWith(live')
  <2>1. Becomes(live \ {loc[t].node}) BY DEF Takes
  <2>2. seen' = Updates!SeenWith(live \ {loc[t].node})
    BY <2>1, BecomesWith DEF Here
  <2>3. live' = live \ {loc[t].node} /\ result' = result BY <2>1 DEF Becomes
  <2> QED BY <2>2, <2>3 DEF Takes
<1>5. KeyOf[loc[t].node] = CallOf[t].key BY DEF Takes, CallOf, Key
<1> QED BY <1>1, <1>2, <1>3, <1>4, <1>5 DEF Updates!Take, CallOf

LEMMA EndStep ==
    ASSUME NEW t \in Threads, Here(t), Only(t), Ends(t), AnswerInv,
           pc[t] # "idle"
    PROVE  Updates!Return(t)
<1>1. PICK r : Return(t, r) /\ Fits(t, r) BY DEF Ends, AnswerInv
<1>2. /\ result' = [result EXCEPT ![t] = r]
      /\ seen' = [seen EXCEPT ![t] = {}] /\ live' = live
  BY <1>1 DEF Return
<1>3. result'[t] = r BY <1>2 DEF AnswerInv
<1>4. TookEffect' = TookEffect \ {t} /\ (t \in TookEffect <=> Took(t))
  BY OthersTook, ReturnIdle
<1>5. CallOf' = [CallOf EXCEPT ![t] = Nil]
  BY OthersTook, ReturnIdle DEF NoLocals
<1>6. CallOf[t] # Nil /\ CallOf[t].op = Op(t)
  BY CallInProgress DEF CallOf, Op, Here, Locals
<1>7. \/ CallOf[t].op \in CursorOps \cup {"found"} \/ r \in CursorOps \cup {"found"}
      \/ Updates!Justified(t, r)
  BY <1>1, <1>4, <1>6 DEF Fits, Updates!Justified, CallOf
<1> QED
  BY <1>2, <1>3, <1>4, <1>5, <1>6, <1>7 DEF Updates!Return, CallOf

LEMMA StepPinned ==
    ASSUME NEW t \in Threads, Here(t), Inv,
           Step(t) \/ CursorStep(t) \/ SplayStep(t)
    PROVE  pc[t] # "idle"
<1>1. CASE Mark0(t) \/ Retire(t) BY <1>1 DEF Mark0, Retire
<1>2. CASE ~ Mark0(t) /\ ~ Retire(t)
  BY <1>2, StepEffect DEF Effect, Pinned, Inv
<1> QED BY <1>1, <1>2

(* The step of a call that enters the set is Link.                         *)
LEMMA EntersNew ==
    ASSUME NEW t \in Threads, Words', Reach', ~ hasDups', Enters(t),
           KeyOf[Node(t)] = Key(t)
    PROVE  ~ Has(live, Key(t))
<1>1. Becomes(live \cup {Node(t)}) /\ Node(t) \notin live BY DEF Enters
<1>2. live' = live \cup {Node(t)} BY <1>1 DEF Becomes
<1>3. UniqueKeys' BY UniqueNext
<1>4. \A m, n \in live' : KeyOf[m] = KeyOf[n] => m = n BY <1>3 DEF UniqueKeys
<1> QED BY <1>1, <1>2, <1>4 DEF Has

LEMMA UpdatesStep ==
    ASSUME NoDuplicates, ListFull, AnswerInv, NEW t \in Threads,
           \/ Call(t) \/ CursorCall(t) \/ SplayCall(t)
           \/ Step(t) \/ CursorStep(t) \/ SplayStep(t)
    PROVE  Updates!Next \/ UNCHANGED Updates!osVars
<1>1. AnswerInv' /\ Here(t) /\ Only(t) /\ (Counts(t) \/ Begins(t))
  BY AnswerStep
<1>2. /\ \A u \in Threads : Called(u)
      /\ \A u \in Threads : pc[u] = "idle" => seen[u] = {}
  BY DEF ListFull, ListInv, Locals, AnswerInv
<1>3. CASE Begins(t) BY <1>1, <1>3, BeginStep DEF Updates!Next
<1>4. CASE Quiet(t) BY <1>1, <1>4, QuietStep
<1>5. CASE Enters(t)
  <2>1. ListInv' BY OneStepKeeps DEF ListFull
  <2>2. Words' /\ Reach' /\ ~ hasDups' BY <1>1, <2>1 DEF ListInv, AnswerInv
  <2>3. KeyOf[Node(t)] = Key(t)
    BY <1>2, <1>5, CallsAssumption DEF Called, Enters, Op, Node, Key
  <2>4. ~ Has(live, Key(t)) BY <1>5, <2>2, <2>3, EntersNew
  <2> QED BY <1>1, <1>2, <1>5, <2>4, EnterStep DEF Updates!Next
<1>6. CASE Takes(t) BY <1>1, <1>2, <1>6, TakeStep DEF Updates!Next, AnswerInv
<1>7. CASE Ends(t) /\ ~ Begins(t)
  <2>1. pc[t] # "idle"
    <3>1. CASE Call(t) \/ CursorCall(t) \/ SplayCall(t)
      BY <1>1, <1>7, <3>1, CallBegins
    <3>2. CASE Step(t) \/ CursorStep(t) \/ SplayStep(t)
      BY <1>1, <3>2, StepPinned DEF ListFull
    <3> QED BY <3>1, <3>2
  <2> QED BY <1>1, <1>7, <2>1, EndStep DEF Updates!Next
<1> QED BY <1>1, <1>3, <1>4, <1>5, <1>6, <1>7 DEF Counts, Rests

LEMMA UpdatesInit == ASSUME Init PROVE Updates!Init
<1>1. /\ live = DOMAIN Built /\ loc = [t \in Threads |-> NoLocals]
      /\ seen = [t \in Threads |-> {}] /\ result = [t \in Threads |-> "none"]
      /\ pc = [t \in Threads |-> "idle"]
  BY DEF Init
<1>2. TookEffect = {} BY <1>1 DEF TookEffect, Linked, Removed
<1>3. [t \in Threads |-> loc[t].call] = [t \in Threads |-> Nil]
  BY <1>1 DEF NoLocals
<1>4. live \in SUBSET Nodes BY <1>1, SkipListAssumption
<1> QED BY <1>1, <1>2, <1>3, <1>4 DEF Updates!Init

(* In a list whose calls ask for no duplicate, with splay, cursors and     *)
(* all, every insert and every remove takes effect at one moment between   *)
(* its invocation and its return (the CAS of level 0, the mark of level    *)
(* 0); one that changes nothing, and a lookup that finds nothing, is       *)
(* justified by what the set held at some moment while it ran: the list    *)
(* implements an ordered set, its positions and found nodes apart.         *)
THEOREM SplayUpdatesLinear ==
    ASSUME NoDuplicates
    PROVE  SplaySpec => UpdatesLinear
<1>1. Init => AnswerInv /\ Updates!Init BY AnswerInit, UpdatesInit
<1>2. ListFull /\ AnswerInv /\ [SplayNext]_vars =>
         AnswerInv' /\ [Updates!Next]_(Updates!osVars)
  <2> SUFFICES ASSUME ListFull, AnswerInv, [SplayNext]_vars
               PROVE  AnswerInv' /\ [Updates!Next]_(Updates!osVars)
    OBVIOUS
  <2>1. CASE UNCHANGED vars
    <3>1. UNCHANGED <<live, seen, result, pc, loc>> BY <2>1 DEF vars, history
    <3>2. TookEffect' = TookEffect BY <3>1 DEF TookEffect
    <3>3. UNCHANGED Updates!osVars BY <3>1, <3>2 DEF Updates!osVars
    <3> QED BY <2>1, <3>3, AnswerSame
  <2>2. CASE \E t \in Threads :
                \/ Call(t) \/ CursorCall(t) \/ SplayCall(t)
                \/ Step(t) \/ CursorStep(t) \/ SplayStep(t)
    BY <2>2, AnswerStep, UpdatesStep
  <2> QED BY <2>1, <2>2, NextSteps
<1> QED
  BY <1>1, <1>2, ListCorrect, PTL DEF SplaySpec, UpdatesLinear, Updates!Spec
=============================================================================
