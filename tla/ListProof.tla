----------------------------- MODULE ListProof -----------------------------
(***************************************************************************)
(* Theorems about the list at level 0, with splay, cursors and all, from   *)
(* the invariant of ListSteps: the calls' first steps, the whole next-     *)
(* state relation, the initial list, and what the invariant says of the    *)
(* set the list stands for.                                                *)
(***************************************************************************)
EXTENDS ListSteps, FiniteSetTheorems, WellFoundedInduction

(* A call begins with one of the calls the thread still has to make.       *)
LEMMA BeginGood ==
    ASSUME NEW t \in Threads, Here(t), NEW c, NEW start \in Begun,
           NEW located \in Entries \ {"relink"},
           located = "insert" => c.op \in Inserts,
           Begin(t, c, start, located)
    PROVE  /\ Good(t) /\ DOMAIN todo' = Threads
           /\ \A u \in Threads \ {t} : todo'[u] = todo[u]
<1>1. PICK C \in todo[t] : c \in C /\ todo' = [todo EXCEPT ![t] = @ \ {C}]
  BY DEF Begin
<1>2. /\ DOMAIN todo' = Threads /\ todo'[t] = todo[t] \ {C}
      /\ \A u \in Threads \ {t} : todo'[u] = todo[u]
  BY <1>1 DEF Here
<1>3. Calmly /\ pc[t] = "idle" BY DEF Begin, Calmly, Still, shape, heights
<1>4. pc'[t] = start BY DEF Begin, Goto, Here, LocalsKept
<1>5. loc[t] = NoLocals BY <1>3 DEF Here, Locals, Called
<1>6. /\ Keep(t, {"call", "ret"})
      /\ loc'[t].call = c /\ loc'[t].ret = located
  BY DEF Begin, Keep, Here, LocalsKept, NoLocals
<1>7. ~ Entered(t)'
  BY <1>4, <1>6 DEF Entered, Linked, Begun, Entries
<1>8. /\ Known' = Known /\ Before0' = Before0 /\ Beyond' = Beyond
      /\ next' = next /\ marked' = marked /\ hasDups' = hasDups
  BY <1>3, CalmlySame
<1>9. Values(t)' BY <1>6, <1>8 DEF Here, Locals, Values, Keep
<1>10. Depths(t)'
  BY <1>4, <1>6, <1>7
     DEF Here, Locals, Depths, Keep, AtLevel, Rising, Placing, Begun
<1>11. Walking(t)'
  BY <1>4, <1>5, <1>6, <1>8
     DEF Here, Locals, Walking, Keep, Begun, NoLocals
<1>12. Dead(t)' BY <1>4 DEF Dead, Begun, Unlinking
<1>13. Path(t)'
  BY <1>4 DEF Path, Begun, Placed, Placing, Moving, Demoting, Unlinking
<1>14. Called(t)'
  <2>1. todo'[t] \subseteq Calls[t] /\ C \in Calls[t] \ todo'[t]
    BY <1>1, <1>2 DEF Here, Locals, Called
  <2>2. pc'[t] # "idle" /\ pc'[t] \notin {"insert"} \cup Placing \cup Linked
    BY <1>4 DEF Begun, Placing, Linked
  <2>3. loc'[t].ret \in {"insert", "relink"} => c.op \in Inserts
    BY <1>6
  <2> QED BY <1>1, <1>6, <2>1, <2>2, <2>3 DEF Called, Op
<1>15. Own(t)'
  <2>1. c.op \in Inserts => c.node \notin Known
    BY <1>1 DEF Here, Locals, Own
  <2>2. \A D \in todo'[t] : \A d \in D : d.op \in Inserts => d.node \notin Known
    BY <1>2 DEF Here, Locals, Own
  <2>3. (Node(t))' = c.node /\ (Op(t))' = c.op BY <1>6 DEF Node, Op
  <2> QED BY <1>7, <1>8, <2>1, <2>2, <2>3 DEF Own, Inserting
<1> QED
  BY <1>2, <1>3, <1>9, <1>10, <1>11, <1>12, <1>13, <1>14, <1>15, CalmlyGood

LEMMA CallGood ==
    ASSUME NEW t \in Threads, Here(t), Call(t) \/ CursorCall(t) \/ SplayCall(t)
    PROVE  /\ Good(t) /\ DOMAIN todo' = Threads
           /\ \A u \in Threads \ {t} : todo'[u] = todo[u]
<1>1. CASE Call(t)
  <2>1. PICK c : c.op \in DOMAIN Start /\ Begin(t, c, Start[c.op], Located[c.op])
    BY <1>1 DEF Call
  <2>2. /\ Start[c.op] \in Begun /\ Located[c.op] \in Entries \ {"relink"}
        /\ Located[c.op] = "insert" => c.op \in Inserts
    BY <2>1 DEF Start, Located, Begun, Entries, Inserts
  <2> QED BY <2>1, <2>2, BeginGood
<1>2. CASE CursorCall(t)
  <2>1. PICK c : /\ c.op \in CursorOps
                 /\ Begin(t, c, CursorStart[c.op], CursorLocated[c.op])
    BY <1>2 DEF CursorCall
  <2>2. /\ CursorStart[c.op] \in Begun
        /\ CursorLocated[c.op] \in Entries \ {"relink"}
        /\ CursorLocated[c.op] # "insert"
    BY <2>1 DEF CursorStart, CursorLocated, CursorOps, Begun, Entries
  <2> QED BY <2>1, <2>2, BeginGood
<1>3. CASE SplayCall(t)
  <2>1. PICK c : c.op = "contains" /\ Begin(t, c, "locate", "found")
    BY <1>3 DEF SplayCall
  <2> QED BY <2>1, BeginGood DEF Begun, Entries
<1> QED BY <1>1, <1>2, <1>3

(* The steps of a call, together.                                          *)
LEMMA LocateGood ==
    ASSUME NEW t \in Threads, Here(t), Locate(t)
    PROVE  Good(t) /\ todo' = todo
<1>1. Good(t)
  BY LocStartGood, LocPredGood, LocMarkedGood, LocHelpGood, LocAdvanceGood,
     LocRecordGood DEF Locate
<1>2. todo' = todo
  BY DEF Locate, LocStart, LocPred, LocMarked, LocHelp, LocAdvance, LocRecord
<1> QED BY <1>1, <1>2

LEMMA InsertGood ==
    ASSUME NEW t \in Threads, Here(t), Insert(t)
    PROVE  Good(t) /\ todo' = todo
<1>1. Good(t)
  BY ExistsGood, TossGood, GrowGood, GrowTailGood, LinkGood, HelpGood,
     HelpNextGood, HelpCasGood, RaiseGood, RaiseSetGood, RaiseCasGood,
     RaiseAgainGood, RelinkGood, PrevGood, PrevSuccGood, PrevCasGood, CountGood
     DEF Insert
<1>2. todo' = todo
  BY DEF Insert, Exists, Toss, Grow, GrowTail, Link, Help, HelpNext, HelpCas,
     Raise, RaiseSet, RaiseCas, RaiseAgain, Relink, Prev, PrevSucc, PrevCas,
     Count
<1> QED BY <1>1, <1>2

LEMMA RemoveGood ==
    ASSUME NEW t \in Threads, Here(t), Remove(t)
    PROVE  Good(t) /\ todo' = todo
<1>1. Good(t)
  BY NoEntryGood, FoundGood, MarkGood, Mark0Good, UnlinkGood, SweepGood,
     SweepHeadGood, SweepCurrGood, SweepCasGood, VerifyHeadGood,
     VerifyCurrGood, UnPrevGood, UnPrevCasGood, UnCountGood, ShrinkGood,
     ShrinkCasGood, ShrinkTailGood, RetireGood, AdjustGood DEF Remove
<1>2. todo' = todo
  BY DEF Remove, NoEntry, Found, Mark, Mark0, Unlink, Sweep, SweepHead,
     SweepCurr, SweepCas, VerifyHead, VerifyCurr, UnPrev, UnPrevCas, UnCount,
     Shrink, ShrinkCas, ShrinkTail, Retire, Adjust
<1> QED BY <1>1, <1>2

LEMMA LookupGood ==
    ASSUME NEW t \in Threads, Here(t), Lookup(t)
    PROVE  Good(t) /\ todo' = todo
<1>1. Good(t)
  BY LookStartGood, LookPredGood, LookCurrGood, LookDupsGood DEF Lookup
<1>2. todo' = todo
  BY DEF Lookup, LookStart, LookPred, LookCurr, LookDups
<1> QED BY <1>1, <1>2

LEMMA CursorStepGood ==
    ASSUME NEW t \in Threads, Here(t), CursorStep(t)
    PROVE  Good(t) /\ todo' = todo
<1>1. Good(t)
  BY PositionLowGood, PositionHighGood, ScanGood, ScanTestGood, ScanHeadGood,
     ForwardGood, ScanTailGood, FollowGood, HintGood, CheckHintGood,
     RescanGood, RehintGood DEF CursorStep
<1>2. todo' = todo
  BY DEF CursorStep, PositionLow, PositionHigh, Scan, ScanTest, ScanHead,
     Forward, ScanTail, Follow, Hint, CheckHint, Rescan, Rehint
<1> QED BY <1>1, <1>2

LEMMA SplayStepGood ==
    ASSUME NEW t \in Threads, Here(t), SplayStep(t)
    PROVE  Good(t) /\ todo' = todo
<1>1. Good(t)
  BY FoundAtGood, RebalanceGood, RebNodeGood, RebNextGood, RebHeightGood,
     DemotePredGood, DemoteSuccGood, DemoteCasGood, DemoteLowGood, ReReadGood,
     PromoteGood, GrowHeadGood, InitHeadGood, BumpGood, PromotePredGood,
     PromoteSuccGood, PromoteSetGood, PromoteCasGood, RevertGood, RecheckGood,
     UndoGood, UndoCasGood DEF SplayStep
<1>2. todo' = todo
  BY DEF SplayStep, FoundAt, Rebalance, RebNode, RebNext, RebHeight,
     DemotePred, DemoteSucc, DemoteCas, DemoteLow, ReRead, Promote, GrowHead,
     InitHead, Bump, PromotePred, PromoteSucc, PromoteSet, PromoteCas, Revert,
     Recheck, Undo, UndoCas
<1> QED BY <1>1, <1>2

(* The next-state relation, by the calls' steps.                           *)
LEMMA NextSteps ==
    ASSUME [SplayNext]_vars
    PROVE  \/ UNCHANGED vars
           \/ \E t \in Threads :
                 \/ Call(t) \/ CursorCall(t) \/ SplayCall(t)
                 \/ Step(t) \/ CursorStep(t) \/ SplayStep(t)
<1>1. \A t \in Threads : Mark0(t) \/ Retire(t) => Step(t) BY DEF Step, Remove
<1> QED BY <1>1, NextCases

(* One step of a call keeps the list's invariant.                          *)
LEMMA OneStepKeeps ==
    ASSUME Inv, DOMAIN todo = Threads, ListInv, NEW t \in Threads,
           \/ Call(t) \/ CursorCall(t) \/ SplayCall(t)
           \/ Step(t) \/ CursorStep(t) \/ SplayStep(t)
    PROVE  ListInv' /\ DOMAIN todo' = Threads /\ Tidy(t) /\ Here(t) /\ Only(t)
<1>1. LocalsKept /\ Typed /\ PlaceInv(t) BY DEF Inv
<1>2. Here(t) BY <1>1 DEF Here, ListInv
<1>3. /\ Good(t) /\ DOMAIN todo' = Threads
      /\ \A u \in Threads \ {t} : todo'[u] = todo[u]
  <2>1. CASE Call(t) \/ CursorCall(t) \/ SplayCall(t) BY <1>2, <2>1, CallGood
  <2>2. CASE Locate(t) BY <1>2, <2>2, LocateGood DEF Here
  <2>3. CASE Insert(t) BY <1>2, <2>3, InsertGood DEF Here
  <2>4. CASE Remove(t) BY <1>2, <2>4, RemoveGood DEF Here
  <2>5. CASE Lookup(t) BY <1>2, <2>5, LookupGood DEF Here
  <2>6. CASE CursorStep(t) BY <1>2, <2>6, CursorStepGood DEF Here
  <2>7. CASE SplayStep(t) BY <1>2, <2>7, SplayStepGood DEF Here
  <2> QED BY <2>1, <2>2, <2>3, <2>4, <2>5, <2>6, <2>7 DEF Step
<1>4. Only(t)
  <2>1. CASE Call(t) \/ CursorCall(t) \/ SplayCall(t)
    BY <1>1, <2>1, CallEffect DEF Frame
  <2>2. CASE Mark0(t) BY <1>1, <2>2, Mark0Effect DEF Frame
  <2>3. CASE Retire(t) BY <1>1, <2>3, RetireEffect DEF Frame
  <2>4. CASE /\ Step(t) \/ CursorStep(t) \/ SplayStep(t)
             /\ ~ Mark0(t) /\ ~ Retire(t)
    BY <1>1, <2>4, StepEffect DEF Effect, Frame
  <2> QED BY <2>1, <2>2, <2>3, <2>4
<1> QED BY <1>2, <1>3, <1>4, StepKeeps DEF Good

LEMMA ListInvNext ==
    ASSUME Inv, DOMAIN todo = Threads, ListInv, [SplayNext]_vars
    PROVE  ListInv' /\ DOMAIN todo' = Threads
<1>1. CASE UNCHANGED vars
  <2>1. /\ Still /\ UNCHANGED <<heights, height, prev, todo, pc, loc>>
    BY <1>1 DEF vars, shape, history, Still
  <2>2. Known' = Known /\ Before0' = Before0 /\ Beyond' = Beyond
    BY <2>1, StillKnown
  <2>3. Words' BY <2>1, <2>2 DEF ListInv, Words, Still, Marked, Ordered
  <2>4. Reach' BY <2>1 DEF ListInv, Reach, Still, Closed
  <2>5. Sizes' BY <2>1 DEF ListInv, Sizes, heights
  <2>6. Hints' BY <2>1, <2>2 DEF ListInv, Hints
  <2>7. ASSUME NEW t \in Threads PROVE Locals(t)'
    <3>1. Locals(t) BY DEF ListInv
    <3>2. Values(t)' BY <2>1, <2>2, <3>1 DEF Locals, Values
    <3>3. Depths(t)' BY <2>1, <3>1 DEF Locals, Depths, Entered
    <3>4. Called(t)' BY <2>1, <3>1 DEF Locals, Called, Op
    <3>5. Walking(t)' BY <2>1, <2>2, <3>1 DEF Locals, Walking, Key
    <3>6. Dead(t)' BY <2>1, <2>2, <3>1 DEF Locals, Dead, Still, Marked
    <3>7. Path(t)' BY <2>1, <3>1 DEF Locals, Path, Still, Key, Node
    <3>8. Own(t)'
      BY <2>1, <2>2, <3>1 DEF Locals, Own, Inserting, Op, Node, Entered
    <3> QED BY <3>2, <3>3, <3>4, <3>5, <3>6, <3>7, <3>8 DEF Locals
  <2>8. DOMAIN todo' = Threads BY <2>1
  <2> QED BY <2>3, <2>4, <2>5, <2>6, <2>7, <2>8 DEF ListInv
<1>2. CASE \E t \in Threads :
              \/ Call(t) \/ CursorCall(t) \/ SplayCall(t)
              \/ Step(t) \/ CursorStep(t) \/ SplayStep(t)
  BY <1>2, OneStepKeeps
<1> QED BY <1>1, <1>2, NextSteps

-----------------------------------------------------------------------------
(* The least and the greatest of a set of numbers, the first and the last  *)
(* of a set of nodes.                                                      *)
LEMMA LeastNumber ==
    ASSUME NEW S \in SUBSET Nat, S # {}
    PROVE  \E m \in S : \A x \in S : m <= x
<1>1. PICK m \in S : \A x \in S : <<x, m>> \notin OpToRel(<, Nat)
  BY NatLessThanWellFounded, WFMin
<1>2. \A x \in S : ~ (x < m) BY <1>1 DEF OpToRel
<1>3. \A x \in S : x \in Nat /\ m \in Nat OBVIOUS
<1> QED BY <1>2, <1>3

LEMMA GreatestNumber ==
    ASSUME NEW b \in Nat, NEW S \in SUBSET (0 .. b), S # {}
    PROVE  \E m \in S : \A x \in S : m >= x
<1> DEFINE R == {y \in Nat : b - y \in S}
<1>1. \A x \in S : x \in Nat /\ x <= b /\ b - x \in Nat /\ b - (b - x) = x
  OBVIOUS
<1>2. \A x \in S : b - x \in R BY <1>1
<1>3. R # {} BY <1>2
<1>4. PICK y \in R : \A x \in R : y <= x BY <1>3, LeastNumber
<1>5. b - y \in S /\ y \in Nat BY <1>4
<1>6. ASSUME NEW x \in S PROVE b - y >= x
  <2>1. y <= b - x BY <1>2, <1>4
  <2>2. x \in Nat /\ b \in Nat /\ y \in Nat BY <1>1, <1>5
  <2> QED BY <2>1, <2>2
<1> QED BY <1>5, <1>6

LEMMA FirstKey ==
    ASSUME NEW S \in SUBSET Nodes, S # {}
    PROVE  First(S) \in S /\ \A m \in S : KeyOf[First(S)] <= KeyOf[m]
<1> DEFINE K == {KeyOf[n] : n \in S}
<1>1. \A n \in S : KeyOf[n] \in Nat BY SkipListAssumption
<1>2. K \in SUBSET Nat /\ K # {} BY <1>1
<1>3. PICK k \in K : \A x \in K : k <= x BY <1>2, LeastNumber
<1>4. PICK n \in S : k = KeyOf[n] BY <1>3
<1>5. \A m \in S : KeyOf[n] <= KeyOf[m] BY <1>3, <1>4
<1> QED BY <1>5 DEF First

LEMMA LastKey ==
    ASSUME NEW S \in SUBSET Nodes, S # {}
    PROVE  Last(S) \in S /\ \A m \in S : KeyOf[Last(S)] >= KeyOf[m]
<1> DEFINE Over(n) == {m \in S : KeyOf[m] > KeyOf[n]}
           K == {Cardinality(Over(n)) : n \in S}
<1>1. \A n \in S : KeyOf[n] \in Nat BY SkipListAssumption
<1>2. IsFiniteSet(S) BY SkipListAssumption, FS_Subset
<1>3. \A n \in S : IsFiniteSet(Over(n)) /\ Cardinality(Over(n)) \in Nat
  <2> TAKE n \in S
  <2>1. Over(n) \in SUBSET S OBVIOUS
  <2>2. IsFiniteSet(Over(n)) BY <1>2, <2>1, FS_Subset
  <2> QED BY <2>2, FS_CardinalityType
<1>4. K \in SUBSET Nat /\ K # {} BY <1>3
<1>5. PICK k \in K : \A x \in K : k <= x BY <1>4, LeastNumber
<1>6. PICK n \in S : k = Cardinality(Over(n)) BY <1>5
<1>7. ASSUME NEW m \in S PROVE KeyOf[n] >= KeyOf[m]
  <2> SUFFICES ASSUME KeyOf[m] > KeyOf[n] PROVE FALSE BY <1>1
  <2>1. Over(m) \in SUBSET Over(n) BY <1>1
  <2>2. m \in Over(n) /\ m \notin Over(m) BY <1>1
  <2>3. Cardinality(Over(m)) <= Cardinality(Over(n))
        /\ Cardinality(Over(m)) # Cardinality(Over(n))
    BY <1>3, <2>1, <2>2, FS_Subset
  <2>4. Cardinality(Over(m)) \in Nat /\ k \in Nat BY <1>3, <1>6
  <2>5. k <= Cardinality(Over(m)) BY <1>5
  <2> HIDE DEF Over
  <2> QED BY <1>6, <2>3, <2>4, <2>5
<1> QED BY <1>7 DEF Last

-----------------------------------------------------------------------------
(* The initial list: after a built node comes the first of those after it. *)
Bottom    == DOMAIN Built
After0(n) == {m \in Bottom : KeyOf[m] > KeyOf[n]}

LEMMA BuiltNodes ==
    /\ Bottom \in SUBSET Nodes
    /\ \A n \in Bottom : Built[n] \in 0 .. MaxHeight - 2 /\ KeyOf[n] \in Nat
    /\ \A l \in Levels : InUse(l) \in SUBSET Bottom
    /\ InUse(0) = Bottom
BY SkipListAssumption DEF Bottom, InUse, Levels

LEMMA FirstIn ==
    ASSUME NEW S \in SUBSET Bottom
    PROVE  First(S) \in S \cup {Tail}
BY FirstKey, BuiltNodes DEF First

LEMMA LastIn ==
    ASSUME NEW S \in SUBSET Bottom
    PROVE  Last(S) \in S \cup {Head}
BY LastKey, BuiltNodes DEF Last

LEMMA InitNext ==
    ASSUME Init
    PROVE  /\ next \in [Cells \X Levels -> Bottom \cup {Tail, Nil}]
           /\ next[Head, 0] = First(Bottom)
           /\ \A n \in Bottom : next[n, 0] = First(After0(n))
           /\ \A n \in Nodes \ Bottom : next[n, 0] = Nil
<1>1. next = [w \in Cells \X Levels |->
          IF w[1] = Head THEN First(InUse(w[2]))
          ELSE IF w[1] \in InUse(w[2])
               THEN First({m \in InUse(w[2]) : KeyOf[m] > KeyOf[w[1]]})
               ELSE Nil]
  BY DEF Init
<1>2. ASSUME NEW w \in Cells \X Levels PROVE next[w] \in Bottom \cup {Tail, Nil}
  <2>1. InUse(w[2]) \in SUBSET Bottom BY BuiltNodes
  <2>2. First(InUse(w[2])) \in Bottom \cup {Tail} BY <2>1, FirstIn
  <2>3. First({m \in InUse(w[2]) : KeyOf[m] > KeyOf[w[1]]}) \in Bottom \cup {Tail}
    <3> DEFINE S == {m \in InUse(w[2]) : KeyOf[m] > KeyOf[w[1]]}
    <3>1. S \in SUBSET Bottom BY <2>1
    <3>2. First(S) \in S \cup {Tail} BY <3>1, FirstIn
    <3> QED BY <3>1, <3>2
  <2> QED BY <1>1, <2>2, <2>3
<1>3. next[Head, 0] = First(Bottom)
  BY <1>1, BuiltNodes, ConstantFacts
<1>4. ASSUME NEW n \in Bottom PROVE next[n, 0] = First(After0(n))
  <2>1. <<n, 0>> \in Cells \X Levels /\ n # Head
    BY BuiltNodes, ConstantFacts
  <2> QED BY <1>1, <2>1, BuiltNodes DEF After0
<1>5. ASSUME NEW n \in Nodes \ Bottom PROVE next[n, 0] = Nil
  <2>1. <<n, 0>> \in Cells \X Levels /\ n # Head BY ConstantFacts
  <2> QED BY <1>1, <2>1, BuiltNodes
<1> QED BY <1>1, <1>2, <1>3, <1>4, <1>5

LEMMA InitKnown ==
    ASSUME Init
    PROVE  Known = Bottom /\ Before0 = Bottom \cup {Head}
           /\ Beyond = Bottom \cup {Tail, Nil}
           /\ live = Bottom /\ marked = {} /\ hasDups = FALSE
BY DEF Init, Known, Before0, Beyond, Bottom, Marked

LEMMA WordsInit == ASSUME Init PROVE Words
<1>1. ASSUME NEW c \in Before0 PROVE next[c, 0] # Nil
  <2>1. First(Bottom) \in Bottom \cup {Tail} BY FirstIn
  <2>2. CASE c = Head BY <2>1, <2>2, InitNext, BuiltNodes, ConstantFacts
  <2>3. CASE c \in Bottom
    <3>1. After0(c) \in SUBSET Bottom BY DEF After0
    <3>2. First(After0(c)) \in Bottom \cup {Tail} BY <3>1, FirstIn
    <3> QED BY <2>3, <3>2, InitNext, BuiltNodes, ConstantFacts
  <2> QED BY <2>2, <2>3, InitKnown
<1>2. ASSUME NEW n \in Nodes, next[n, 0] \in Nodes PROVE Ordered(n, next[n, 0])
  <2>1. n \in Bottom BY <1>2, InitNext, ConstantFacts
  <2>2. After0(n) \in SUBSET Bottom BY DEF After0
  <2>3. next[n, 0] \in After0(n)
    BY <1>2, <2>1, <2>2, FirstIn, InitNext, ConstantFacts
  <2> QED BY <2>3 DEF After0, Ordered
<1>3. live \subseteq Nodes /\ \A n \in live : ~ Marked(n, 0)
  BY InitKnown, BuiltNodes DEF Marked
<1>4. marked \subseteq Nodes \X Levels /\ hasDups \in BOOLEAN BY InitKnown
<1>5. next \in [Cells \X Levels -> Beyond] BY InitNext, InitKnown
<1> QED BY <1>1, <1>2, <1>3, <1>4, <1>5 DEF Words

(* A closed set leaves no built node out: the node after the last one      *)
(* before the least that is left out would be that one.                    *)
LEMMA ReachInit == ASSUME Init PROVE Reach
<1> SUFFICES ASSUME NEW S \in SUBSET (Nodes \cup {Tail}), Closed(Head, 0, S)
             PROVE  Bottom \cup {Tail} \subseteq S
  BY InitKnown DEF Reach
<1>0. \A n \in Bottom : KeyOf[n] \in Nat /\ n \in Nodes BY BuiltNodes
<1>1. Bottom \subseteq S
  <2> SUFFICES ASSUME Bottom \ S # {} PROVE FALSE OBVIOUS
  <2> DEFINE n == First(Bottom \ S)
             P == {m \in Bottom : KeyOf[m] < KeyOf[n]}
  <2>1. n \in Bottom \ S /\ \A m \in Bottom \ S : KeyOf[n] <= KeyOf[m]
    BY FirstKey, BuiltNodes
  <2> HIDE DEF n
  <2>2. P \subseteq S BY <1>0, <2>1
  <2>3. CASE P = {}
    <3>1. \A m \in Bottom : KeyOf[n] <= KeyOf[m] BY <1>0, <2>1, <2>3
    <3>2. First(Bottom) \in Bottom
          /\ \A m \in Bottom : KeyOf[First(Bottom)] <= KeyOf[m]
      BY <2>1, FirstKey, BuiltNodes
    <3>3. KeyOf[First(Bottom)] = KeyOf[n]
      BY <1>0, <2>1, <3>1, <3>2
    <3>4. First(Bottom) = n
      BY <2>1, <3>2, <3>3, CallsAssumption DEF Bottom
    <3>5. next[Head, 0] \in S \cup {Nil} BY ConstantFacts DEF Closed
    <3> QED BY <1>0, <2>1, <3>4, <3>5, InitNext, ConstantFacts
  <2>4. CASE P # {}
    <3> DEFINE p == Last(P)
    <3>1. p \in P /\ \A m \in P : KeyOf[p] >= KeyOf[m]
      BY <2>4, LastKey, BuiltNodes
    <3> HIDE DEF p
    <3>2. p \in Bottom /\ p \in S /\ KeyOf[p] < KeyOf[n] BY <2>2, <3>1
    <3>3. n \in After0(p) /\ After0(p) \in SUBSET Nodes
      BY <1>0, <2>1, <3>2 DEF After0
    <3> DEFINE f == First(After0(p))
    <3>4. f \in After0(p) /\ KeyOf[f] <= KeyOf[n]
      BY <3>3, FirstKey
    <3> HIDE DEF f
    <3>5. f \in Bottom /\ KeyOf[f] > KeyOf[p] BY <3>4 DEF After0
    <3>6. f \notin P BY <1>0, <3>1, <3>2, <3>5
    <3>7. KeyOf[f] = KeyOf[n] BY <1>0, <2>1, <3>4, <3>5, <3>6
    <3>8. f = n BY <2>1, <3>5, <3>7, CallsAssumption DEF Bottom
    <3>9. next[p, 0] = n BY <3>2, <3>8, InitNext DEF f
    <3>10. next[p, 0] \in S \cup {Nil} BY <1>0, <3>2, ConstantFacts DEF Closed
    <3> QED BY <1>0, <2>1, <3>9, <3>10, ConstantFacts
  <2> QED BY <2>3, <2>4
<1>2. Tail \in S
  <2>1. CASE Bottom = {}
    <3>1. next[Head, 0] = Tail BY <2>1, InitNext DEF First
    <3> QED BY <3>1, ConstantFacts DEF Closed
  <2>2. CASE Bottom # {}
    <3> DEFINE p == Last(Bottom)
    <3>1. p \in Bottom /\ \A m \in Bottom : KeyOf[p] >= KeyOf[m]
      BY <2>2, LastKey, BuiltNodes
    <3> HIDE DEF p
    <3>2. After0(p) = {} BY <1>0, <3>1 DEF After0
    <3>3. next[p, 0] = Tail BY <3>1, <3>2, InitNext DEF First
    <3> QED BY <1>0, <1>1, <3>1, <3>3, ConstantFacts DEF Closed
  <2> QED BY <2>1, <2>2
<1> QED BY <1>1, <1>2

LEMMA SizesInit == ASSUME Init PROVE Sizes
<1> DEFINE H == {1} \cup {Built[n] + 1 : n \in Bottom}
<1>1. MaxHeight \in Nat /\ MaxHeight >= 2 BY SkipListAssumption
<1>2. \A n \in Bottom : Built[n] \in Nat /\ Built[n] <= MaxHeight - 2
  BY <1>1, BuiltNodes
<1>3. H \in SUBSET (0 .. MaxHeight - 1) /\ H # {} /\ 0 \notin H
  BY <1>1, <1>2
<1>4. \E m \in H : \A x \in H : m >= x
  <2>1. MaxHeight - 1 \in Nat BY <1>1
  <2> QED BY <1>3, <2>1, GreatestNumber
<1>5. Larger(H) \in H BY <1>4 DEF Larger
<1>6. InitHeight \in Levels \ {0} BY <1>3, <1>5 DEF InitHeight, Levels, Bottom
<1>7. height \in [Nodes -> Levels]
  <2>1. \A n \in Bottom : Built[n] \in Levels BY <1>1, <1>2 DEF Levels
  <2> QED BY <2>1, ConstantFacts DEF Init, Bottom
<1> QED BY <1>6, <1>7 DEF Sizes, Init

LEMMA HintsInit == ASSUME Init PROVE Hints
<1>1. \A S \in SUBSET Bottom : Last(S) \in Bottom \cup {Head} BY LastIn
<1>2. ASSUME NEW c \in Cells PROVE prev[c] \in Before0 \cup {Nil}
  <2>1. Last(Bottom) \in Before0 BY <1>1, InitKnown
  <2>2. Last({m \in Bottom : KeyOf[m] < KeyOf[c]}) \in Before0
    <3>1. {m \in Bottom : KeyOf[m] < KeyOf[c]} \in SUBSET Bottom OBVIOUS
    <3> QED BY <1>1, <3>1, InitKnown
  <2> QED BY <2>1, <2>2 DEF Init, Bottom
<1>3. DOMAIN prev = Cells BY DEF Init
<1>4. prev = [c \in Cells |-> prev[c]] BY DEF Init
<1> QED BY <1>2, <1>3, <1>4 DEF Hints

LEMMA LocalsInit == ASSUME Init, NEW t \in Threads PROVE Locals(t)
<1>1. /\ pc[t] = "idle" /\ loc[t] = NoLocals /\ todo[t] = Calls[t]
  BY DEF Init
<1>2. Values(t)
  <2>1. /\ {loc[t].pred, loc[t].hint, loc[t].curr, loc[t].succ, loc[t].found,
            loc[t].node} = {Nil}
        /\ loc[t].met = {}
        /\ loc[t].preds = [l \in Levels |-> Nil]
        /\ loc[t].succs = [l \in Levels |-> Nil]
    BY <1>1 DEF NoLocals
  <2>2. /\ loc[t].preds \in [Levels -> Before0 \cup {Nil}]
        /\ loc[t].succs \in [Levels -> Beyond]
    BY <2>1 DEF Beyond
  <2> QED BY <2>1, <2>2 DEF Values, Beyond
<1>3. Depths(t)
  BY <1>1, ConstantFacts, SkipListAssumption
     DEF Depths, NoLocals, AtLevel, Rising, Placing, Entered, Linked, Locating
<1>4. Called(t) BY <1>1 DEF Called
<1>5. Walking(t) BY <1>1 DEF Walking
<1>6. Dead(t) BY <1>1 DEF Dead, Unlinking
<1>7. Path(t) BY <1>1 DEF Path, Placed, Placing, Moving, Demoting, Unlinking
<1>8. Own(t)
  <2>1. \A C \in Calls[t] : \A c \in C : c.op \in Inserts => c.node \notin Bottom
    BY CallsAssumption DEF Bottom
  <2> QED BY <1>1, <2>1, InitKnown DEF Own, Inserting
<1> QED BY <1>2, <1>3, <1>4, <1>5, <1>6, <1>7, <1>8 DEF Locals

LEMMA ListInvInit == ASSUME Init PROVE ListInv /\ DOMAIN todo = Threads
<1>1. DOMAIN todo = Threads BY CallsAssumption DEF Init
<1> QED
  BY <1>1, WordsInit, ReachInit, SizesInit, HintsInit, LocalsInit DEF ListInv

-----------------------------------------------------------------------------
(* The invariant, of every behaviour.                                      *)
ListFull == Inv /\ DOMAIN todo = Threads /\ ListInv

(* The words of level 0 hold every live node and no node that was never    *)
(* linked, and every thread's locals name linked nodes, in every behaviour *)
(* of the list with splay and cursors.                                     *)
THEOREM ListCorrect == SplaySpec => []ListFull
<1>1. Init => ListFull BY InvInit, ListInvInit DEF ListFull
<1>2. ListFull /\ [SplayNext]_vars => ListFull'
  BY InvNext, ListInvNext DEF ListFull
<1> QED BY <1>1, <1>2, PTL DEF SplaySpec

LEMMA WalkLive ==
    ASSUME Words, Reach
    PROVE  LiveReachable
<1>1. live \cup {Tail} \subseteq Walk(0) /\ Walk(0) \subseteq Known \cup {Tail}
  BY ReachedLive
<1>2. live \subseteq Nodes /\ \A n \in live : ~ Marked(n, 0) BY DEF Words
<1> QED BY <1>1, <1>2, ConstantFacts DEF LiveReachable, Chain, Known

(* Walking level 0 from the head meets every node whose insert has taken   *)
(* effect and whose remove has not, and no other that is unmarked, however *)
(* inserts, removes, helpers and splays interleave.                        *)
THEOREM SplayLiveReachable == SplaySpec => []LiveReachable
<1>1. ListFull => LiveReachable BY WalkLive DEF ListFull, ListInv
<1> QED BY <1>1, ListCorrect, PTL

LEMMA WalkSorted ==
    ASSUME Words, Reach
    PROVE  SortedAt(0)
<1>1. live \cup {Tail} \subseteq Walk(0) /\ Walk(0) \subseteq Known \cup {Tail}
  BY ReachedLive
<1>2. \A n \in Known : next[n, 0] \in Nodes => Ordered(n, next[n, 0])
  BY KnownNodes DEF Words
<1> QED BY <1>1, <1>2 DEF SortedAt

(* Level 0 ends in the tail and its keys ascend, strictly so until a       *)
(* duplicate is asked for.                                                 *)
THEOREM BottomSorted == SplaySpec => []SortedAt(0)
<1>1. ListFull => SortedAt(0) BY WalkSorted DEF ListFull, ListInv
<1> QED BY <1>1, ListCorrect, PTL

-----------------------------------------------------------------------------
(* From two nodes on the walk one leads to the other.                      *)
LEMMA FromClosed ==
    ASSUME Words, NEW c \in Before0
    PROVE  /\ Closed(c, 0, From(c, 0))
           /\ From(c, 0) \subseteq Known \cup {Tail}
<1>1. ASSUME NEW d \in (Known \cup {Tail} \cup {c}) \ {Tail}
      PROVE  next[d, 0] \in Known \cup {Tail} \cup {Nil}
  <2>1. d \in Cells BY KnownNodes, ConstantFacts DEF Before0, Cells
  <2> QED BY <2>1, WordIn, ConstantFacts DEF Beyond
<1>2. Closed(c, 0, Known \cup {Tail}) BY <1>1 DEF Closed
<1>3. Known \cup {Tail} \in SUBSET (Nodes \cup {Tail}) BY KnownNodes
<1>4. From(c, 0) \subseteq Known \cup {Tail} BY <1>2, <1>3 DEF From
<1>5. ASSUME NEW d \in (From(c, 0) \cup {c}) \ {Tail}
      PROVE  next[d, 0] \in From(c, 0) \cup {Nil}
  <2>1. d \in Before0 /\ d # Tail BY <1>4 DEF Before0
  <2>2. next[d, 0] \in Known \cup {Tail}
    BY <2>1, LinkedWord, ConstantFacts DEF Beyond
  <2>3. next[d, 0] \in Nodes \cup {Tail} /\ next[d, 0] # Nil
    BY <2>2, KnownNodes, ConstantFacts
  <2>4. ASSUME NEW S \in SUBSET (Nodes \cup {Tail}), Closed(c, 0, S)
        PROVE  next[d, 0] \in S
    <3>1. d \in (S \cup {c}) \ {Tail} BY <2>4 DEF From
    <3> QED BY <2>3, <2>4, <3>1 DEF Closed
  <2> QED BY <2>3, <2>4 DEF From
<1> QED BY <1>4, <1>5 DEF Closed

LEMMA FromNext ==
    ASSUME Words, NEW c \in Before0, NEW x \in Known, next[c, 0] = x
    PROVE  From(c, 0) \subseteq {x} \cup From(x, 0)
<1>0. x \in Before0 /\ x \in Nodes BY KnownNodes DEF Before0
<1>1. Closed(x, 0, From(x, 0)) /\ From(x, 0) \subseteq Known \cup {Tail}
  BY <1>0, FromClosed
<1>2. Closed(c, 0, {x} \cup From(x, 0))
  BY <1>1 DEF Closed
<1>3. {x} \cup From(x, 0) \in SUBSET (Nodes \cup {Tail})
  BY <1>0, <1>1, KnownNodes
<1> QED BY <1>2, <1>3 DEF From

LEMMA Linear ==
    ASSUME Words, NEW m \in Known, NEW n \in Walk(0), m \in Walk(0), n \in Known
    PROVE  m = n \/ m \in From(n, 0) \/ n \in From(m, 0)
<1> DEFINE S == {x \in Known \cup {Tail} :
                    x = m \/ m \in From(x, 0) \/ x \in From(m, 0)}
<1>0. m \in Before0 /\ m \in Nodes /\ m # Tail
  BY KnownNodes, ConstantFacts DEF Before0
<1>1. Closed(m, 0, From(m, 0)) /\ From(m, 0) \subseteq Known \cup {Tail}
  BY <1>0, FromClosed
<1>2. next[m, 0] \in From(m, 0)
  BY <1>0, <1>1, LinkedWord, ConstantFacts DEF Closed
<1>3. ASSUME NEW d \in Before0, m \in From(d, 0)
      PROVE  next[d, 0] \in S
  <2>1. next[d, 0] \in Known \cup {Tail}
    BY LinkedWord, ConstantFacts DEF Beyond
  <2>2. CASE next[d, 0] = Tail
    <3>1. Closed(d, 0, {Tail}) /\ {Tail} \in SUBSET (Nodes \cup {Tail})
      BY <2>2 DEF Closed
    <3> QED BY <1>0, <1>3, <3>1 DEF From
  <2>3. CASE next[d, 0] \in Known
    <3>1. m \in {next[d, 0]} \cup From(next[d, 0], 0) BY <1>3, <2>3, FromNext
    <3> QED BY <2>3, <3>1
  <2> QED BY <2>1, <2>2, <2>3
<1>4. ASSUME NEW d \in (S \cup {Head}) \ {Tail} PROVE next[d, 0] \in S
  <2>1. CASE d = Head
    <3>1. m \in From(Head, 0) BY DEF Walk
    <3> QED BY <1>3, <2>1, <3>1 DEF Before0
  <2>2. CASE d = m BY <1>1, <1>2, <2>2
  <2>3. CASE d \in Known /\ m \in From(d, 0) BY <1>3, <2>3 DEF Before0
  <2>4. CASE d \in Known /\ d \in From(m, 0)
    <3>1. next[d, 0] \in From(m, 0) \cup {Nil}
      BY <1>1, <2>4, KnownNodes, ConstantFacts DEF Closed
    <3>2. next[d, 0] # Nil BY <2>4, LinkedWord, ConstantFacts DEF Before0
    <3> QED BY <1>1, <3>1, <3>2
  <2> QED BY <2>1, <2>2, <2>3, <2>4
<1>5. Closed(Head, 0, S) BY <1>4 DEF Closed
<1>6. S \in SUBSET (Nodes \cup {Tail}) BY KnownNodes
<1>7. n \in S BY <1>5, <1>6 DEF Walk, From
<1> QED BY <1>7

(* Until a duplicate is asked for, keys grow along the walk.               *)
LEMMA FromAbove ==
    ASSUME Words, ~ hasDups, NEW m \in Known, NEW n \in From(m, 0), n # Tail
    PROVE  n \in Nodes /\ KeyOf[m] < KeyOf[n]
<1> DEFINE S == {x \in Known : KeyOf[m] < KeyOf[x]} \cup {Tail}
<1>0. \A x \in Known : x \in Nodes /\ KeyOf[x] \in Nat
  BY KnownNodes, SkipListAssumption
<1>1. ASSUME NEW d \in (S \cup {m}) \ {Tail} PROVE next[d, 0] \in S
  <2>1. d \in Known /\ (d = m \/ KeyOf[m] < KeyOf[d]) OBVIOUS
  <2>2. next[d, 0] \in Known \cup {Tail}
    BY <2>1, LinkedWord, ConstantFacts DEF Beyond, Before0
  <2>3. CASE next[d, 0] \in Known
    <3>1. KeyOf[d] < KeyOf[next[d, 0]] BY <1>0, <2>1, <2>3 DEF Words, Ordered
    <3> DEFINE e == next[d, 0]
    <3>2. e \in Known /\ KeyOf[d] < KeyOf[e] BY <2>3, <3>1
    <3> HIDE DEF e
    <3>3. KeyOf[m] < KeyOf[e] BY <1>0, <2>1, <3>2
    <3>4. e \in S BY <3>2, <3>3
    <3> QED BY <3>4 DEF e
  <2> QED BY <2>2, <2>3
<1>2. Closed(m, 0, S) BY <1>1 DEF Closed
<1>3. S \in SUBSET (Nodes \cup {Tail}) BY KnownNodes
<1>4. n \in S BY <1>2, <1>3 DEF From
<1> QED BY <1>0, <1>4

LEMMA KeysUnique ==
    ASSUME Words, Reach
    PROVE  UniqueKeys
<1> SUFFICES ASSUME ~ hasDups, NEW m \in live, NEW n \in live,
                    KeyOf[m] = KeyOf[n], m # n
             PROVE  FALSE
  BY DEF UniqueKeys
<1>1. m \in Known /\ n \in Known /\ m \in Walk(0) /\ n \in Walk(0)
  BY ReachedLive DEF Known
<1>2. m \in Nodes /\ n \in Nodes /\ m # Tail /\ n # Tail
  BY <1>1, KnownNodes, ConstantFacts
<1>3. KeyOf[m] \in Nat /\ KeyOf[n] \in Nat BY <1>2, SkipListAssumption
<1>4. m \in From(n, 0) \/ n \in From(m, 0) BY <1>1, Linear
<1>5. CASE m \in From(n, 0) BY <1>1, <1>2, <1>3, <1>5, FromAbove
<1>6. CASE n \in From(m, 0) BY <1>1, <1>2, <1>3, <1>6, FromAbove
<1> QED BY <1>4, <1>5, <1>6

(* However many inserts of one key run at once, beside removes and splays, *)
(* no two nodes of one key are in the set unless a duplicate was asked for *)
(* (_skip_insert_, phase 5).                                               *)
THEOREM SplayUniqueKeys == SplaySpec => []UniqueKeys
<1>1. ListFull => UniqueKeys BY KeysUnique DEF ListFull, ListInv
<1> QED BY <1>1, ListCorrect, PTL

-----------------------------------------------------------------------------
LEMMA MonotoneStep ==
    ASSUME ListFull, [SplayNext]_vars
    PROVE  Monotone
<1>1. CASE UNCHANGED vars
  <2>1. Still BY <1>1 DEF vars, shape, history, Still
  <2> QED BY <2>1, StillTidy DEF Tidy, ListFull, ListInv
<1>2. CASE \E t \in Threads :
              \/ Call(t) \/ CursorCall(t) \/ SplayCall(t)
              \/ Step(t) \/ CursorStep(t) \/ SplayStep(t)
  BY <1>2, OneStepKeeps DEF Tidy, ListFull
<1> QED BY <1>1, <1>2, NextSteps

(* The word of level 0 of a removed node never changes again: neither the  *)
(* plain stores of insert and splay nor any helper reach it, so the node   *)
(* stays a way out for the threads that stand on it.                       *)
THEOREM SplayFrozen == SplaySpec => Frozen
<1>1. ListFull /\ [SplayNext]_vars =>
         [\A n \in Nodes :
             Marked(n, 0) => Marked(n, 0)' /\ next'[n, 0] = next[n, 0]]_vars
  BY MonotoneStep DEF Monotone
<1> QED BY <1>1, ListCorrect, PTL DEF SplaySpec, Frozen

(* The same of the list by itself, the behaviours the runs check.          *)
THEOREM ListGood ==
    Spec => [](LiveReachable /\ UniqueKeys /\ SortedAt(0)) /\ Frozen
<1>1. [Next]_vars => [SplayNext]_vars BY DEF SplayNext, CursorNext
<1>2. Spec => SplaySpec BY <1>1, PTL DEF Spec, SplaySpec
<1> QED
  BY <1>2, SplayLiveReachable, SplayUniqueKeys, BottomSorted, SplayFrozen, PTL
=============================================================================
