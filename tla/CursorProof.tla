---------------------------- MODULE CursorProof ----------------------------
(***************************************************************************)
(* What the cursors answer, beside inserts, removes and splays of other    *)
(* threads: Positions, Traverses and StepsBack, whether or not the list    *)
(* holds duplicates.                                                       *)
(*                                                                         *)
(* The argument is about the nodes that stay in the list during the call.  *)
(* A walk that stands on a cell it found unmarked has every such node of   *)
(* a larger key ahead of it, whatever is linked or spliced out meanwhile,  *)
(* and what is ahead is no smaller than what the walk has reached.         *)
(***************************************************************************)
EXTENDS SetProof

(* The cells met walking level 0 of the words nx from c.                   *)
Way(nx, c) ==
    {d \in Nodes \cup {Tail} : \A S \in SUBSET (Nodes \cup {Tail}) :
        (c # Tail => nx[c, 0] \in S \cup {Nil})
        /\ (\A e \in S \ {Tail} : nx[e, 0] \in S \cup {Nil}) => d \in S}

LEMMA WayFrom == \A c : Way(next, c) = From(c, 0)
BY DEF Way, From, Closed

LEMMA WayFromNext == \A c : Way(next', c) = From(c, 0)'
BY DEF Way, From, Closed

(* The cells ahead of c are its successor and those ahead of that.         *)
LEMMA WayOn ==
    ASSUME Words, NEW c \in Before0, NEW x \in Nodes, x \in Way(next, c)
    PROVE  x \in {Word(c, 0)} \cup Way(next, Word(c, 0))
<1>1. x \in From(c, 0) BY WayFrom
<1>2. x \in {next[c, 0]} \cup From(next[c, 0], 0) BY <1>1, NextAhead
<1> QED BY <1>2, WayFrom DEF Word

LEMMA WayNone == \A x \in Nodes : x \notin Way(next, Tail)
<1> SUFFICES ASSUME NEW x \in Nodes, x \in Way(next, Tail) PROVE FALSE
  OBVIOUS
<1>1. Closed(Tail, 0, {}) /\ {} \in SUBSET (Nodes \cup {Tail}) BY DEF Closed
<1>2. x \in From(Tail, 0) BY WayFrom
<1> QED BY <1>1, <1>2 DEF From

(* What is ahead is no smaller, with duplicates too.                       *)
LEMMA WayLeast ==
    ASSUME Words, NEW m \in Known, NEW n \in Nodes, n \in Way(next, m)
    PROVE  KeyOf[m] <= KeyOf[n]
<1> DEFINE S == {x \in Known : KeyOf[m] <= KeyOf[x]} \cup {Tail}
<1>0. \A x \in Known : x \in Nodes /\ KeyOf[x] \in Nat
  BY KnownNodes, SkipListAssumption
<1>1. ASSUME NEW d \in (S \cup {m}) \ {Tail} PROVE next[d, 0] \in S
  <2>1. d \in Known /\ KeyOf[m] <= KeyOf[d] BY <1>0
  <2>2. next[d, 0] \in Known \cup {Tail}
    BY <2>1, LinkedWord, ConstantFacts DEF Beyond, Before0
  <2>3. CASE next[d, 0] \in Known
    <3>1. PICK e : e = next[d, 0] OBVIOUS
    <3>2. e \in Known /\ KeyOf[d] <= KeyOf[e]
      <4>1. Ordered(d, next[d, 0]) BY <1>0, <2>1, <2>3 DEF Words
      <4>2. Ordered(d, e) /\ e \in Known BY <2>3, <3>1, <4>1
      <4> QED BY <1>0, <2>1, <4>2 DEF Ordered
    <3>3. KeyOf[m] <= KeyOf[e] BY <1>0, <2>1, <3>2
    <3> QED BY <3>1, <3>2, <3>3
  <2> QED BY <2>2, <2>3
<1>2. Closed(m, 0, S) BY <1>1 DEF Closed
<1>3. S \in SUBSET (Nodes \cup {Tail}) BY KnownNodes
<1>4. n \in From(m, 0) BY WayFrom
<1>5. n \in S BY <1>2, <1>3, <1>4 DEF From
<1> QED BY <1>5, ConstantFacts

(* A live node is ahead of the head and of every live node of a smaller    *)
(* key.                                                                    *)
LEMMA WayLive ==
    ASSUME Words, Reach, NEW x \in live, NEW c \in live \cup {Head},
           Before(c, KeyOf[x])
    PROVE  x \in Way(next, c)
<1>1. \A n \in live : n \in Walk(0) BY ReachedLive
<1>2. CASE c = Head BY <1>1, <1>2, WayFrom DEF Walk
<1>3. CASE c \in live
  <2>1. /\ c \in Known /\ x \in Known /\ c \in Nodes /\ x \in Nodes
        /\ KeyOf[c] \in Nat /\ KeyOf[x] \in Nat
    BY <1>3, LiveNodes
  <2>2. KeyOf[c] < KeyOf[x] BY <2>1, ConstantFacts DEF Before
  <2>3. c # x BY <2>1, <2>2
  <2>4. c \in From(x, 0) \/ x \in From(c, 0) BY <1>1, <1>3, <2>1, <2>3, Linear
  <2>5. c \in Way(next, x) \/ x \in Way(next, c) BY <2>4, WayFrom
  <2>6. c \in Way(next, x) => KeyOf[x] <= KeyOf[c] BY <2>1, WayLeast
  <2> QED BY <2>1, <2>2, <2>5, <2>6
<1> QED BY <1>2, <1>3

(* What is ahead of a linked cell stays ahead of it while it is live.      *)
LEMMA WayKept ==
    ASSUME LeadsOn, NEW c \in Before0 \cup {Tail}, NEW x \in live \cap Nodes,
           x \in Way(next, c)
    PROVE  x \in Way(next', c)
<1>1. c # Tail BY WayNone
<1>2. c \in Before0 /\ x \in From(c, 0) BY <1>1, WayFrom
<1>3. ASSUME NEW S \in SUBSET (Nodes \cup {Tail}), Closed(c, 0, S)' PROVE x \in S
  BY <1>2, <1>3 DEF LeadsOn
<1>4. x \in From(c, 0)' BY <1>3 DEF From
<1> QED BY <1>4, WayFromNext


-----------------------------------------------------------------------------
(* What a call remembers of the list: the nodes that stayed in it and the  *)
(* nodes that were in it.                                                  *)
Learns(t) ==
    \/ UNCHANGED <<live, stay, was, result>>
    \/ \E r : Return(t, r)
    \/ \E S : Becomes(S)
Logged(t) == stay[t] \subseteq live /\ (Cursor(t) => live \subseteq was[t])
Logs ==
    /\ DOMAIN stay = Threads /\ DOMAIN was = Threads /\ DOMAIN result = Threads
    /\ \A t \in Threads : Logged(t)
Remembers(t) ==
    /\ stay'[t] \subseteq stay[t] \cap live'
    /\ was[t] \subseteq was'[t] /\ live' \subseteq was'[t]

LEMMA LocateLearns == ASSUME NEW t \in Threads, Locate(t) PROVE Learns(t)
BY DEF Learns, Locate, LocStart, LocPred, LocMarked, LocHelp, LocAdvance,
   LocRecord, history

LEMMA InsertLearns == ASSUME NEW t \in Threads, Insert(t) PROVE Learns(t)
BY DEF Learns, Insert, Exists, Toss, Grow, GrowTail, Link, Help, HelpNext,
   HelpCas, Raise, RaiseSet, RaiseCas, RaiseAgain, Relink, Prev, PrevSucc,
   PrevCas, Count, history

LEMMA RemoveLearns == ASSUME NEW t \in Threads, Remove(t) PROVE Learns(t)
BY DEF Learns, Remove, NoEntry, Found, Mark, Mark0, Unlink, Sweep, SweepHead,
   SweepCurr, SweepCas, VerifyHead, VerifyCurr, UnPrev, UnPrevCas, UnCount,
   Shrink, ShrinkCas, ShrinkTail, Retire, Adjust, history

LEMMA LookupLearns == ASSUME NEW t \in Threads, Lookup(t) PROVE Learns(t)
BY DEF Learns, Lookup, LookStart, LookPred, LookCurr, LookDups, LookDown,
   history

LEMMA CursorStepLearns == ASSUME NEW t \in Threads, CursorStep(t) PROVE Learns(t)
BY DEF Learns, CursorStep, PositionLow, PositionHigh, Scan, ScanTest, ScanHead,
   Forward, ScanTail, Follow, Hint, CheckHint, Rescan, Rehint, Answer, history

LEMMA SplayStepLearns == ASSUME NEW t \in Threads, SplayStep(t) PROVE Learns(t)
BY DEF Learns, SplayStep, FoundAt, Rebalance, RebNode, RebNext, RebHeight,
   DemotePred, DemoteSucc, DemoteCas, DemoteLow, ReRead, Promote, GrowHead,
   InitHead, Bump, PromotePred, PromoteSucc, PromoteSet, PromoteCas, Revert,
   Recheck, Undo, UndoCas, history

(* A step goes on with its call, or ends it.                               *)
Goes(t) ==
    /\ pc[t] # "idle" /\ pc'[t] # "idle"
    /\ loc'[t].call = loc[t].call /\ result' = result

LEMMA GoesOrEnds ==
    ASSUME NEW t \in Threads, Here(t), Counts(t)
    PROVE  Goes(t) \/ \E r : Return(t, r)
<1>1. Quiet(t) => Goes(t) BY DEF Quiet, Goes
<1>2. Enters(t) => Goes(t) BY DEF Enters, Goes, Becomes
<1>3. Takes(t) => Goes(t) BY DEF Takes, Goes, Becomes
<1>4. Ends(t) => \E r : Return(t, r) BY DEF Ends
<1> QED BY <1>1, <1>2, <1>3, <1>4 DEF Counts, Rests

LEMMA ReturnsIdle ==
    ASSUME NEW t \in Threads, Here(t), NEW r, Return(t, r)
    PROVE  pc'[t] = "idle" /\ loc'[t] = NoLocals /\ ~ Cursor(t)'
<1>1. pc'[t] = "idle" /\ loc'[t] = NoLocals
  BY DEF Return, Goto, Here, LocalsKept
<1> QED BY <1>1 DEF Cursor, NoLocals

LEMMA LogsOn ==
    ASSUME NEW t \in Threads, Here(t), Only(t), Logs, Learns(t),
           Goes(t) \/ \E r : Return(t, r)
    PROVE  /\ Logs'
           /\ \A u \in Threads : Cursor(u) /\ (u = t => Goes(t)) => Remembers(u)
<1>1. \A u \in Threads \ {t} : Cursor(u)' <=> Cursor(u)
  BY DEF Only, Cursor
<1>2. Goes(t) => (Cursor(t)' <=> Cursor(t)) BY DEF Goes, Cursor
<1>3. CASE UNCHANGED <<live, stay, was, result>>
  <2>1. Goes(t) \/ ~ Cursor(t)' BY ReturnsIdle
  <2>2. \A u \in Threads : Cursor(u) => Remembers(u)
    BY <1>3 DEF Logs, Logged, Remembers
  <2> QED BY <1>1, <1>2, <1>3, <2>1, <2>2 DEF Logs, Logged
<1>4. CASE \E r : Return(t, r)
  <2>1. ~ Cursor(t)' /\ ~ Goes(t) BY <1>4, ReturnsIdle DEF Goes
  <2>2. /\ live' = live /\ stay'[t] = {}
        /\ DOMAIN stay' = Threads /\ DOMAIN was' = Threads
        /\ DOMAIN result' = Threads
        /\ \A u \in Threads \ {t} : stay'[u] = stay[u] /\ was'[u] = was[u]
    BY <1>4 DEF Return, Logs
  <2>3. \A u \in Threads \ {t} : Cursor(u) => Remembers(u)
    BY <2>2 DEF Logs, Logged, Remembers
  <2> QED BY <1>1, <2>1, <2>2, <2>3 DEF Logs, Logged
<1>5. CASE \E S : Becomes(S)
  <2>1. PICK S : Becomes(S) BY <1>5
  <2>2. /\ live' = S /\ result' = result
        /\ DOMAIN stay' = Threads /\ DOMAIN was' = Threads
        /\ \A u \in Threads :
              /\ stay'[u] = stay[u] \cap S
              /\ Cursor(u) => was'[u] = was[u] \cup S
    BY <2>1 DEF Becomes
  <2>3. \A u \in Threads : Cursor(u) => Remembers(u)
    BY <2>2 DEF Remembers
  <2>4. Goes(t) \/ ~ Cursor(t)' BY ReturnsIdle
  <2> QED BY <1>1, <1>2, <2>2, <2>3, <2>4 DEF Logs, Logged
<1> QED BY <1>3, <1>4, <1>5 DEF Learns

(* The start of a call.                                                    *)
Opens(t) ==
    /\ pc[t] = "idle" /\ pc'[t] \in Begun
    /\ live' = live /\ loc'[t].met = {} /\ loc'[t].node = Nil
    /\ loc'[t].call.op \in {"forward", "array"} => pc'[t] = "head"
    /\ loc'[t].call.op = "previous" => pc'[t] = "locate"
    /\ DOMAIN stay = Threads => DOMAIN stay' = Threads /\ stay'[t] \subseteq live
    /\ DOMAIN was = Threads =>
          /\ DOMAIN was' = Threads
          /\ loc'[t].call.op \in CursorOps => was'[t] = live
    /\ DOMAIN result = Threads => DOMAIN result' = Threads
    /\ \A u \in Threads \ {t} : stay'[u] = stay[u] /\ was'[u] = was[u]

LEMMA BeginOpens ==
    ASSUME NEW t \in Threads, Here(t), NEW c, NEW start \in Begun, NEW located,
           c.op \in {"forward", "array"} => start = "head",
           c.op = "previous" => start = "locate",
           Begin(t, c, start, located)
    PROVE  Opens(t)
<1>1. pc[t] = "idle" /\ pc'[t] = start BY DEF Begin, Goto, Here, LocalsKept
<1>2. loc[t] = NoLocals BY <1>1 DEF Here, Locals, Called
<1>3. /\ loc'[t].call = c /\ loc'[t].met = loc[t].met
      /\ loc'[t].node = loc[t].node
  BY DEF Begin, Here, LocalsKept, NoLocals
<1>4. loc[t].met = {} /\ loc[t].node = Nil BY <1>2 DEF NoLocals
<1>5. PICK S : /\ S = IF c.op \in CursorOps THEN live ELSE {}
               /\ stay' = [stay EXCEPT ![t] = S] /\ was' = [was EXCEPT ![t] = S]
  BY DEF Begin
<1>6. live' = live /\ result' = [result EXCEPT ![t] = "none"] BY DEF Begin
<1> QED BY <1>1, <1>3, <1>4, <1>5, <1>6 DEF Opens

LEMMA CallOpens ==
    ASSUME NEW t \in Threads, Here(t), Call(t) \/ CursorCall(t) \/ SplayCall(t)
    PROVE  Opens(t)
<1>1. CASE Call(t)
  <2>1. PICK c : c.op \in DOMAIN Start /\ Begin(t, c, Start[c.op], Located[c.op])
    BY <1>1 DEF Call
  <2>2. Start[c.op] \in Begun /\ c.op \notin {"forward", "array", "previous"}
    BY <2>1 DEF Start, Begun
  <2> QED BY <2>1, <2>2, BeginOpens
<1>2. CASE CursorCall(t)
  <2>1. PICK c : /\ c.op \in CursorOps
                 /\ Begin(t, c, CursorStart[c.op], CursorLocated[c.op])
    BY <1>2 DEF CursorCall
  <2>2. /\ CursorStart[c.op] \in Begun
        /\ c.op \in {"forward", "array"} => CursorStart[c.op] = "head"
        /\ c.op = "previous" => CursorStart[c.op] = "locate"
    BY <2>1 DEF CursorStart, CursorOps, Begun
  <2> QED BY <2>1, <2>2, BeginOpens
<1>3. CASE SplayCall(t)
  <2>1. PICK c : c.op = "contains" /\ Begin(t, c, "locate", "found")
    BY <1>3 DEF SplayCall
  <2> QED BY <2>1, BeginOpens DEF Begun
<1> QED BY <1>1, <1>2, <1>3

LEMMA OpenLogs ==
    ASSUME NEW t \in Threads, Only(t), Logs, Opens(t)
    PROVE  Logs' /\ \A u \in Threads \ {t} : Cursor(u) => Remembers(u)
<1>1. \A u \in Threads \ {t} : Cursor(u)' <=> Cursor(u) BY DEF Only, Cursor
<1>2. Cursor(t)' => loc'[t].call.op \in CursorOps BY DEF Cursor
<1>3. \A u \in Threads \ {t} : Cursor(u) => Remembers(u)
  BY DEF Opens, Logs, Logged, Remembers
<1> QED BY <1>1, <1>2, <1>3 DEF Opens, Logs, Logged

-----------------------------------------------------------------------------
(* What a cursor knows of the nodes that stayed.                           *)
AtCurr(t) ==
    LET me == loc[t]
    IN pc[t] \in {"loccurr", "lochelp"} /\ me.lvl = 0 =>
          /\ me.pred \in was[t] \cup {Head}
          /\ \A n \in stay[t] : Before(me.pred, KeyOf[n]) =>
                /\ n \in Way(next, me.pred)
                /\ n \in {me.curr} \cup Way(next, me.curr)
AtPlace(t) ==
    LET me == loc[t]
    IN pc[t] \in Placed \ Placing =>
          /\ me.preds[0] \in was[t] \cup {Head}
          /\ me.found \in was[t] \cup {Nil}
          /\ \A n \in stay[t] : Before(me.preds[0], KeyOf[n]) =>
                /\ n \in Way(next, me.preds[0])
                /\ KeyOf[n] >= Key(t)
                /\ me.found = Nil => KeyOf[n] # Key(t)
AtScan(t) ==
    LET me == loc[t]
    IN /\ pc[t] = "scan" =>
             \A n \in stay[t] : Asked(t, n) => n \in Way(next, me.curr)
       /\ pc[t] = "scantest" =>
             \A n \in stay[t] : Asked(t, n) =>
                n \in {me.curr} \cup Way(next, me.curr)
AtWalk(t) ==
    LET me == loc[t]
    IN /\ pc[t] = "head" => me.met = {}
       /\ pc[t] = "forward" =>
             /\ \A n \in stay[t] : n \in me.met \cup Way(next, me.curr)
             /\ \A m \in me.met :
                   m = me.curr \/ (me.curr \in Nodes /\ Ordered(m, me.curr))
AtStep(t) ==
    LET me == loc[t]
    IN /\ pc[t] \in Locating \cup {"hint"} /\ Op(t) = "previous" => me.node = Nil
       /\ pc[t] = "rescan" /\ me.node \in stay[t] =>
             /\ me.node \in Way(next, me.curr)
             /\ \A n \in stay[t] :
                   \/ n \in Way(next, me.curr)
                   \/ me.curr \in Nodes /\ KeyOf[n] <= KeyOf[me.curr]
       /\ pc[t] = "rehint" /\ me.node \in stay[t] =>
             \A n \in stay[t] : KeyOf[n] < KeyOf[me.node] =>
                me.pred \in Nodes /\ KeyOf[n] <= KeyOf[me.pred]

(* Which calls walk from the head, and which step back.                    *)
AtWork(t) ==
    /\ Op(t) \in {"forward", "array"} => pc[t] \in {"head", "forward"}
    /\ Op(t) = "previous" =>
          pc[t] \in Locating \cup {"hint", "checkhint", "rescan", "rehint"}
Seeks(t) ==
    Cursor(t) =>
       AtCurr(t) /\ AtPlace(t) /\ AtScan(t) /\ AtWalk(t) /\ AtStep(t) /\ AtWork(t)
SeekInv == Logs /\ \A t \in Threads : Kind(t) /\ Seeks(t)

(* The words a step leaves ahead of a cell another thread stands on.       *)
WaysKept ==
    \A c \in Before0 \cup {Tail}, x \in live : x \in Way(next, c) => x \in Way(next', c)

LEMMA WaysKeep == ASSUME Words, LeadsOn PROVE WaysKept
BY WayKept DEF Words, WaysKept

LEMMA OthersSeek ==
    ASSUME NEW u \in Threads, Cursor(u) => Remembers(u), Logged(u), Seeks(u),
           Locals(u), loc'[u] = loc[u], pc'[u] = pc[u], WaysKept, Monotone,
           live \subseteq Nodes
    PROVE  Seeks(u)'
<1> SUFFICES ASSUME Cursor(u)
             PROVE  (/\ AtCurr(u) /\ AtPlace(u) /\ AtScan(u)
                     /\ AtWalk(u) /\ AtStep(u) /\ AtWork(u))'
  <2>1. Cursor(u)' <=> Cursor(u) BY DEF Cursor
  <2> QED BY <2>1 DEF Seeks
<1>1. /\ \A n \in stay'[u] : n \in stay[u] /\ n \in live
      /\ \A n \in was[u] : n \in was'[u]
  BY DEF Remembers, Logged
<1>2. \A n \in stay'[u], c \in Before0 \cup {Tail} :
         n \in Way(next, c) => n \in Way(next', c)
  BY <1>1 DEF WaysKept
<1>3. /\ AtCurr(u) /\ AtPlace(u) /\ AtScan(u) /\ AtWalk(u) /\ AtStep(u)
      /\ AtWork(u)
  BY DEF Seeks
<1>4. Op(u)' = Op(u) /\ Key(u)' = Key(u) BY DEF Op, Key
<1>5. AtCurr(u)'
  <2> SUFFICES ASSUME pc[u] \in {"loccurr", "lochelp"}, loc[u].lvl = 0
               PROVE  /\ loc[u].pred \in was'[u] \cup {Head}
                      /\ \A n \in stay'[u] : Before(loc[u].pred, KeyOf[n]) =>
                            /\ n \in Way(next', loc[u].pred)
                            /\ n \in {loc[u].curr} \cup Way(next', loc[u].curr)
    BY DEF AtCurr, Before
  <2>1. loc[u].pred \in Before0 /\ loc[u].curr \in Before0 \cup {Tail}
    BY ConstantFacts DEF Locals, Values, Walking, Dead, Before, Before0
  <2>2. loc[u].pred \in was[u] \cup {Head} BY <1>3 DEF AtCurr
  <2>3. \A n \in stay[u] : Before(loc[u].pred, KeyOf[n]) =>
            /\ n \in Way(next, loc[u].pred)
            /\ n \in {loc[u].curr} \cup Way(next, loc[u].curr)
    BY <1>3 DEF AtCurr
  <2> QED BY <1>1, <1>2, <2>1, <2>2, <2>3
<1>6. AtPlace(u)'
  <2> SUFFICES ASSUME pc[u] \in Placed \ Placing
               PROVE  /\ loc[u].preds[0] \in was'[u] \cup {Head}
                      /\ loc[u].found \in was'[u] \cup {Nil}
                      /\ \A n \in stay'[u] : Before(loc[u].preds[0], KeyOf[n]) =>
                            /\ n \in Way(next', loc[u].preds[0])
                            /\ KeyOf[n] >= Key(u)
                            /\ loc[u].found = Nil => KeyOf[n] # Key(u)
    BY <1>4 DEF AtPlace, Before
  <2>1. loc[u].preds[0] \in Before0
    BY ConstantFacts DEF Locals, Values, Path, Before
  <2>2. /\ loc[u].preds[0] \in was[u] \cup {Head}
        /\ loc[u].found \in was[u] \cup {Nil}
        /\ \A n \in stay[u] : Before(loc[u].preds[0], KeyOf[n]) =>
              /\ n \in Way(next, loc[u].preds[0])
              /\ KeyOf[n] >= Key(u)
              /\ loc[u].found = Nil => KeyOf[n] # Key(u)
    BY <1>3 DEF AtPlace
  <2> QED BY <1>1, <1>2, <2>1, <2>2
<1>7. AtScan(u)'
  <2>1. /\ pc[u] = "scan" => loc[u].curr \in Before0
        /\ pc[u] = "scantest" => loc[u].curr \in Before0
    BY DEF Locals, Walking, Before0
  <2>2. \A n : Asked(u, n)' <=> Asked(u, n) BY <1>4 DEF Asked
  <2>3. /\ pc[u] = "scan" =>
              \A n \in stay[u] : Asked(u, n) => n \in Way(next, loc[u].curr)
        /\ pc[u] = "scantest" =>
              \A n \in stay[u] : Asked(u, n) =>
                 n \in {loc[u].curr} \cup Way(next, loc[u].curr)
    BY <1>3 DEF AtScan
  <2> QED BY <1>1, <1>2, <2>1, <2>2, <2>3 DEF AtScan
<1>8. AtWalk(u)'
  <2>1. pc[u] = "forward" => loc[u].curr \in Before0 BY DEF Locals, Walking
  <2>2. \A m, n : Ordered(m, n) => Ordered(m, n)' BY DEF Ordered, Monotone
  <2>3. /\ pc[u] = "head" => loc[u].met = {}
        /\ pc[u] = "forward" =>
              /\ \A n \in stay[u] : n \in loc[u].met \cup Way(next, loc[u].curr)
              /\ \A m \in loc[u].met :
                    \/ m = loc[u].curr
                    \/ loc[u].curr \in Nodes /\ Ordered(m, loc[u].curr)
    BY <1>3 DEF AtWalk
  <2> QED BY <1>1, <1>2, <2>1, <2>2, <2>3 DEF AtWalk
<1>9. AtStep(u)'
  <2>1. pc[u] = "rescan" => loc[u].curr \in Before0 BY DEF Locals, Walking
  <2>2. AtStep(u) BY <1>3
  <2> QED BY <1>1, <1>2, <1>4, <2>1, <2>2 DEF AtStep
<1>10. AtWork(u)' BY <1>3, <1>4 DEF AtWork
<1> QED BY <1>5, <1>6, <1>7, <1>8, <1>9, <1>10

(* A call that begins, and one that has ended, know nothing.               *)
LEMMA OpensSeek ==
    ASSUME NEW t \in Threads, Opens(t)
    PROVE  Seeks(t)'
<1>1. pc'[t] \in Begun /\ loc'[t].met = {} /\ loc'[t].node = Nil BY DEF Opens
<1>2. AtCurr(t)' BY <1>1 DEF AtCurr, Begun
<1>3. AtPlace(t)'
  BY <1>1 DEF AtPlace, Begun, Placed, Placing, Moving, Demoting, Unlinking
<1>4. AtScan(t)' BY <1>1 DEF AtScan, Begun
<1>5. AtWalk(t)' BY <1>1 DEF AtWalk, Begun
<1>6. AtStep(t)' BY <1>1 DEF AtStep, Begun
<1>7. AtWork(t)' BY DEF AtWork, Opens, Op, Locating
<1> QED BY <1>2, <1>3, <1>4, <1>5, <1>6, <1>7 DEF Seeks

LEMMA EndsSeek ==
    ASSUME NEW t \in Threads, Here(t), \E r : Return(t, r)
    PROVE  Seeks(t)'
BY ReturnsIdle DEF Seeks

-----------------------------------------------------------------------------
(* The locate of a cursor.                                                 *)
Minds(t) == Here(t) /\ Cursor(t) /\ Kind(t) /\ Seeks(t) /\ Logged(t)

LEMMA LocatingSeeks ==
    ASSUME NEW t \in Threads, Minds(t), pc[t] \in Locating, pc'[t] \in Locating,
           Keep(t, {"pred", "curr", "succ", "lvl", "top", "found", "preds", "succs"}),
           AtCurr(t)'
    PROVE  Seeks(t)'
<1>1. loc'[t].call = loc[t].call /\ loc'[t].node = loc[t].node BY DEF Keep
<1>2. Op(t)' = Op(t) BY <1>1 DEF Op
<1>3. AtWork(t) /\ AtStep(t) BY DEF Minds, Seeks
<1>4. AtPlace(t)'
  BY DEF AtPlace, Locating, Placed, Placing, Moving, Demoting, Unlinking
<1>5. AtScan(t)' BY DEF AtScan, Locating
<1>6. AtWalk(t)' BY DEF AtWalk, Locating
<1>7. AtStep(t)' BY <1>1, <1>2, <1>3 DEF AtStep, Locating
<1>8. AtWork(t)' BY <1>2, <1>3 DEF AtWork, Locating
<1> QED BY <1>4, <1>5, <1>6, <1>7, <1>8 DEF Seeks

LEMMA LocStartSeeks ==
    ASSUME NEW t \in Threads, Minds(t), LocStart(t)
    PROVE  Seeks(t)'
<1>1. pc[t] = "locate" /\ pc'[t] = "locpred"
  BY DEF LocStart, Goto, Minds, Here, LocalsKept
<1>2. Keep(t, {"pred", "top", "lvl"})
  <2>1. \E u, v, w, x : loc' = [loc EXCEPT ![t].pred = u, ![t].top = v,
                                           ![t].lvl = w, ![t].splayed = x]
    BY DEF LocStart
  <2> QED BY <2>1 DEF Keep, Minds, Here, LocalsKept, NoLocals
<1>3. AtCurr(t)' BY <1>1 DEF AtCurr
<1> QED BY <1>1, <1>2, <1>3, LocatingSeeks DEF Keep, Locating

(* A cell that is not marked at level 0 is in the list.                    *)
LEMMA UnmarkedLive ==
    ASSUME NEW c \in Before0, ~ Marked(c, 0)
    PROVE  c \in live \cup {Head}
BY DEF Before0, Known

(* The nodes that stayed are nodes with a key, live and linked.            *)
LEMMA StayNodes ==
    ASSUME NEW t \in Threads, Here(t), Logged(t)
    PROVE  \A n \in stay[t] : /\ n \in live /\ n \in Nodes /\ n \in Known
                              /\ KeyOf[n] \in Nat /\ n # Tail /\ ~ Marked(n, 0)
BY LiveNodes DEF Here, Logged

(* Reading the word of an unmarked cell at level 0.                        *)
LEMMA AheadOf ==
    ASSUME NEW t \in Threads, Minds(t), NEW c \in Before0, ~ Marked(c, 0)
    PROVE  /\ c \in was[t] \cup {Head}
           /\ \A n \in stay[t] : Before(c, KeyOf[n]) =>
                 /\ n \in Way(next, c)
                 /\ n \in {Word(c, 0)} \cup Way(next, Word(c, 0))
<1>1. c \in live \cup {Head} BY UnmarkedLive
<1>2. c \in was[t] \cup {Head} BY <1>1 DEF Minds, Logged
<1>3. ASSUME NEW n \in stay[t], Before(c, KeyOf[n])
      PROVE  /\ n \in Way(next, c)
             /\ n \in {Word(c, 0)} \cup Way(next, Word(c, 0))
  <2>1. n \in live /\ n \in Nodes BY StayNodes DEF Minds
  <2>2. n \in Way(next, c) BY <1>1, <1>3, <2>1, WayLive DEF Minds, Here
  <2> QED BY <2>1, <2>2, WayOn DEF Minds, Here
<1> QED BY <1>2, <1>3

LEMMA LocPredSeeks ==
    ASSUME NEW t \in Threads, Minds(t), LocPred(t)
    PROVE  Seeks(t)'
<1>1. /\ pc[t] = "locpred" /\ next' = next /\ stay' = stay /\ was' = was
      /\ \/ pc'[t] = "locate" /\ loc' = loc
         \/ /\ pc'[t] = "loccurr" /\ ~ Marked(loc[t].pred, loc[t].lvl)
            /\ \E v : /\ loc' = [loc EXCEPT ![t].curr = v]
                      /\ v = Word(loc[t].pred, loc[t].lvl)
  BY DEF LocPred, shape, history, Goto, Minds, Here, LocalsKept, Word
<1>2. CASE pc'[t] = "locate" /\ loc' = loc
  <2>1. AtCurr(t)' BY <1>2 DEF AtCurr
  <2> QED BY <1>1, <1>2, <2>1, LocatingSeeks DEF Keep, Locating
<1>3. CASE /\ pc'[t] = "loccurr" /\ ~ Marked(loc[t].pred, loc[t].lvl)
           /\ \E v : /\ loc' = [loc EXCEPT ![t].curr = v]
                     /\ v = Word(loc[t].pred, loc[t].lvl)
  <2>1. Keep(t, {"curr"}) /\ loc'[t].curr = Word(loc[t].pred, loc[t].lvl)
    BY <1>3 DEF Keep, Minds, Here, LocalsKept, NoLocals
  <2>2. loc[t].pred \in Before0
    BY <1>1, ConstantFacts DEF Minds, Here, Locals, Walking, Values, Before,
       Before0
  <2>3. AtCurr(t)' BY <1>1, <1>3, <2>1, <2>2, AheadOf DEF AtCurr, Keep
  <2> QED BY <1>1, <1>3, <2>1, <2>3, LocatingSeeks DEF Keep, Locating
<1> QED BY <1>1, <1>2, <1>3

LEMMA LocMarkedSeeks ==
    ASSUME NEW t \in Threads, Minds(t), LocMarked(t)
    PROVE  Seeks(t)'
<1>1. /\ pc[t] = "loccurr" /\ next' = next /\ stay' = stay /\ was' = was
      /\ pc'[t] = "lochelp" /\ \E v : loc' = [loc EXCEPT ![t].succ = v]
  BY DEF LocMarked, shape, history, Goto, Minds, Here, LocalsKept
<1>2. Keep(t, {"succ"}) BY <1>1 DEF Keep, Minds, Here, LocalsKept, NoLocals
<1>3. AtCurr(t) BY DEF Minds, Seeks
<1>4. AtCurr(t)' BY <1>1, <1>2, <1>3 DEF AtCurr, Keep
<1> QED BY <1>1, <1>2, <1>4, LocatingSeeks DEF Keep, Locating

LEMMA LocHelpSeeks ==
    ASSUME NEW t \in Threads, Minds(t), WaysKept, LocHelp(t)
    PROVE  Seeks(t)'
<1>1. /\ pc[t] = "lochelp" /\ stay' = stay /\ was' = was
      /\ \/ pc'[t] = "locate" /\ loc' = loc
         \/ /\ pc'[t] = "loccurr"
            /\ \E v : loc' = [loc EXCEPT ![t].curr = v] /\ v = loc[t].succ
  BY DEF LocHelp, shape, history, Goto, Minds, Here, LocalsKept
<1>2. CASE pc'[t] = "locate" /\ loc' = loc
  <2>1. AtCurr(t)' BY <1>2 DEF AtCurr
  <2> QED BY <1>1, <1>2, <2>1, LocatingSeeks DEF Keep, Locating
<1>3. CASE /\ pc'[t] = "loccurr"
           /\ \E v : loc' = [loc EXCEPT ![t].curr = v] /\ v = loc[t].succ
  <2>1. Keep(t, {"curr"}) /\ loc'[t].curr = loc[t].succ
    BY <1>3 DEF Keep, Minds, Here, LocalsKept, NoLocals
  <2>2. loc[t].pred \in Before0 /\ loc[t].curr \in Known
    BY <1>1, ConstantFacts DEF Minds, Here, Locals, Walking, Values, Before,
       Before0, Dead
  <2>3. ASSUME loc[t].lvl = 0
        PROVE  /\ loc[t].pred \in was[t] \cup {Head}
               /\ \A n \in stay[t] : Before(loc[t].pred, KeyOf[n]) =>
                     /\ n \in Way(next', loc[t].pred)
                     /\ n \in {loc[t].succ} \cup Way(next', loc[t].succ)
    <3>1. /\ loc[t].pred \in was[t] \cup {Head}
          /\ \A n \in stay[t] : Before(loc[t].pred, KeyOf[n]) =>
                /\ n \in Way(next, loc[t].pred)
                /\ n \in {loc[t].curr} \cup Way(next, loc[t].curr)
      BY <1>1, <2>3 DEF Minds, Seeks, AtCurr
    <3>2. Marked(loc[t].curr, 0) /\ loc[t].succ = Word(loc[t].curr, 0)
      BY <1>1, <2>3 DEF Minds, Here, Locals, Dead, Word
    <3>3. loc[t].succ \in Before0 \cup {Tail}
      <4>1. loc[t].succ \in Beyond /\ loc[t].succ # Nil
        BY <2>2, <3>2, LinkedWord, ConstantFacts DEF Minds, Here, Word, Before0
      <4> QED BY <4>1 DEF Beyond, Before0
    <3>4. ASSUME NEW n \in stay[t], Before(loc[t].pred, KeyOf[n])
          PROVE  /\ n \in Way(next', loc[t].pred)
                 /\ n \in {loc[t].succ} \cup Way(next', loc[t].succ)
      <4>1. n \in live /\ n \in Nodes /\ ~ Marked(n, 0) BY StayNodes DEF Minds
      <4>2. n \in Way(next', loc[t].pred)
        BY <2>2, <3>1, <3>4, <4>1 DEF WaysKept
      <4>3. n \in Way(next, loc[t].curr) BY <3>1, <3>2, <3>4, <4>1
      <4>4. n \in {loc[t].succ} \cup Way(next, loc[t].succ)
        BY <2>2, <3>2, <4>1, <4>3, WayOn DEF Minds, Here, Before0
      <4> QED BY <3>3, <4>1, <4>2, <4>4 DEF WaysKept
    <3> QED BY <3>1, <3>4
  <2>4. AtCurr(t)' BY <1>1, <1>3, <2>1, <2>3 DEF AtCurr, Keep
  <2> QED BY <1>1, <1>3, <2>1, <2>4, LocatingSeeks DEF Keep, Locating
<1> QED BY <1>1, <1>2, <1>3

LEMMA LocAdvanceSeeks ==
    ASSUME NEW t \in Threads, Minds(t), LocAdvance(t)
    PROVE  Seeks(t)'
<1>1. /\ pc[t] = "loccurr" /\ next' = next /\ stay' = stay /\ was' = was
      /\ pc'[t] = "loccurr" /\ ~ Marked(loc[t].curr, loc[t].lvl)
      /\ \E u, v : /\ loc' = [loc EXCEPT ![t].pred = u, ![t].curr = v]
                   /\ u = loc[t].curr /\ v = Word(loc[t].curr, loc[t].lvl)
  BY DEF LocAdvance, shape, history, Word
<1>2. /\ Keep(t, {"pred", "curr"}) /\ loc'[t].pred = loc[t].curr
      /\ loc'[t].curr = Word(loc[t].curr, loc[t].lvl)
  BY <1>1 DEF Keep, Minds, Here, LocalsKept, NoLocals
<1>3. loc[t].curr \in Before0
  BY <1>1, ConstantFacts DEF LocAdvance, Minds, Here, Locals, Values, Before,
     Before0
<1>4. ASSUME loc[t].lvl = 0
      PROVE  /\ loc'[t].pred \in was'[t] \cup {Head}
             /\ \A n \in stay'[t] : Before(loc'[t].pred, KeyOf[n]) =>
                   /\ n \in Way(next', loc'[t].pred)
                   /\ n \in {loc'[t].curr} \cup Way(next', loc'[t].curr)
  <2>1. ~ Marked(loc[t].curr, 0) /\ loc'[t].curr = Word(loc[t].curr, 0)
    BY <1>1, <1>2, <1>4
  <2>2. /\ loc[t].curr \in was[t] \cup {Head}
        /\ \A n \in stay[t] : Before(loc[t].curr, KeyOf[n]) =>
              /\ n \in Way(next, loc[t].curr)
              /\ n \in {Word(loc[t].curr, 0)} \cup Way(next, Word(loc[t].curr, 0))
    BY <1>3, <2>1, AheadOf
  <2> QED BY <1>1, <1>2, <2>1, <2>2
<1>5. loc'[t].lvl = loc[t].lvl BY <1>2 DEF Keep
<1>6. AtCurr(t)' BY <1>4, <1>5 DEF AtCurr, Before
<1> QED BY <1>1, <1>2, <1>6, LocatingSeeks DEF Keep, Locating

(* The end of a locate.                                                    *)
LEMMA LocRecordKeeps ==
    ASSUME NEW t \in Threads, Here(t), LocRecord(t)
    PROVE  /\ Keep(t, {"lvl", "found", "preds", "succs"})
           /\ loc[t].lvl = 0 => loc'[t].preds[0] = loc[t].pred
<1> DEFINE P == [loc[t].preds EXCEPT ![loc[t].lvl] = loc[t].pred]
           S == [loc[t].succs EXCEPT ![loc[t].lvl] = loc[t].curr]
<1>1. \/ loc' = [loc EXCEPT ![t].preds = P, ![t].succs = S,
                            ![t].lvl = loc[t].lvl - 1]
      \/ loc' = [loc EXCEPT ![t].preds = P, ![t].succs = S, ![t].found =
                       IF Equal(loc[t].curr, Key(t)) THEN loc[t].curr ELSE Nil]
  BY DEF LocRecord, Goto, Here, LocalsKept
<1>2. loc[t].preds \in [Levels -> Before0 \cup {Nil}] /\ 0 \in Levels
  BY ConstantFacts DEF Here, Locals, Values
<1>3. loc[t].lvl = 0 => P[0] = loc[t].pred BY <1>2
<1> HIDE DEF P, S
<1>4. Keep(t, {"lvl", "found", "preds", "succs"}) /\ loc'[t].preds = P
  <2>1. CASE loc' = [loc EXCEPT ![t].preds = P, ![t].succs = S,
                                ![t].lvl = loc[t].lvl - 1]
    BY <2>1 DEF Keep, Here, LocalsKept, NoLocals
  <2>2. CASE loc' = [loc EXCEPT ![t].preds = P, ![t].succs = S, ![t].found =
                       IF Equal(loc[t].curr, Key(t)) THEN loc[t].curr ELSE Nil]
    BY <2>2 DEF Keep, Here, LocalsKept, NoLocals
  <2> QED BY <1>1, <2>1, <2>2
<1> QED BY <1>3, <1>4

(* A place a locate of a cursor goes on to.                                *)
LEMMA CursorEntry ==
    ASSUME NEW t \in Threads, Minds(t), pc[t] \in Locating
    PROVE  /\ loc[t].ret \in {"position", "hint", "tail"}
           /\ Op(t) = "previous" => loc[t].ret = "hint"
           /\ Op(t) \notin {"forward", "array"}
<1>1. /\ pc[t] # "idle" /\ Op(t) \in CursorOps /\ Suits(loc[t].ret, Op(t))
      /\ AtWork(t)
  BY DEF Minds, Cursor, Op, Kind, Seeks, Locating
<1>2. Op(t) \notin {"forward", "array"} BY <1>1 DEF AtWork, Locating
<1>3. /\ loc[t].ret \in Entries
      /\ loc[t].ret = "remove" => Op(t) = "remove"
      /\ loc[t].ret \in {"insert", "relink"} => Op(t) \in Inserts
  BY <1>1 DEF Minds, Here, Locals, Called, PlaceInv, InCall
<1>4. /\ loc[t].ret \in {"lookup", "found"} => Op(t) = "contains"
      /\ loc[t].ret = "head" => Op(t) \in {"forward", "array"}
      /\ loc[t].ret = "position" => Op(t) # "previous"
      /\ loc[t].ret = "tail" => Op(t) # "previous"
  BY <1>1 DEF Suits, Looking
<1> QED BY <1>1, <1>2, <1>3, <1>4 DEF Entries, CursorOps, Inserts

LEMMA LocRecordPlace ==
    ASSUME NEW t \in Threads, Minds(t), LocRecord(t), loc[t].lvl = 0
    PROVE  AtPlace(t)'
<1>1. /\ pc[t] = "loccurr" /\ next' = next /\ stay' = stay /\ was' = was
      /\ ~ Marked(loc[t].curr, 0) /\ ~ Before(loc[t].curr, Key(t))
  BY DEF LocRecord, shape, history
<1>2. /\ loc'[t].preds[0] = loc[t].pred /\ loc'[t].call = loc[t].call
      /\ loc'[t].found = IF Equal(loc[t].curr, Key(t)) THEN loc[t].curr ELSE Nil
  BY LocRecordMoves, LocRecordKeeps DEF Minds
<1>3. Key(t)' = Key(t) BY <1>2 DEF Key
<1>4. /\ loc[t].pred \in was[t] \cup {Head}
      /\ \A n \in stay[t] : Before(loc[t].pred, KeyOf[n]) =>
            /\ n \in Way(next, loc[t].pred)
            /\ n \in {loc[t].curr} \cup Way(next, loc[t].curr)
  BY <1>1 DEF Minds, Seeks, AtCurr
<1>5. loc[t].curr \in Known \cup {Tail}
  BY <1>1, ConstantFacts DEF Minds, Here, Locals, Values, Walking, Before0
<1>6. Key(t) \in Nat
  <2>1. pc[t] # "idle" BY <1>1
  <2> QED BY <2>1, KeyNumber DEF Minds, Here, Locals
<1>7. loc'[t].found \in was'[t] \cup {Nil}
  <2>1. CASE Equal(loc[t].curr, Key(t))
    <3>1. loc[t].curr \in Nodes BY <2>1 DEF Equal
    <3>2. loc[t].curr \in Before0 /\ loc[t].curr # Head
      BY <1>5, <3>1, ConstantFacts DEF Before0
    <3>3. loc[t].curr \in live BY <1>1, <3>2, UnmarkedLive
    <3> QED BY <1>1, <1>2, <2>1, <3>3 DEF Minds, Logged
  <2>2. CASE ~ Equal(loc[t].curr, Key(t)) BY <1>2, <2>2
  <2> QED BY <2>1, <2>2
<1>8. ASSUME NEW n \in stay[t], Before(loc[t].pred, KeyOf[n])
      PROVE  /\ n \in Way(next, loc[t].pred)
             /\ KeyOf[n] >= Key(t)
             /\ loc'[t].found = Nil => KeyOf[n] # Key(t)
  <2>1. n \in Nodes /\ KeyOf[n] \in Nat /\ n # Tail BY StayNodes DEF Minds
  <2>2. /\ n \in Way(next, loc[t].pred)
        /\ n \in {loc[t].curr} \cup Way(next, loc[t].curr)
    BY <1>4, <1>8
  <2>3. loc[t].curr # Tail BY <2>1, <2>2, WayNone
  <2>4. loc[t].curr \in Known /\ loc[t].curr \in Nodes
    BY <1>5, <2>3, KnownNodes DEF Minds, Here
  <2>5. KeyOf[loc[t].curr] \in Nat BY <2>4, SkipListAssumption
  <2>6. KeyOf[loc[t].curr] <= KeyOf[n]
    BY <2>1, <2>2, <2>4, <2>5, WayLeast DEF Minds, Here
  <2>7. KeyOf[loc[t].curr] >= Key(t) BY <1>1, <1>6, <2>4, <2>5 DEF Before
  <2>8. KeyOf[n] >= Key(t) BY <1>6, <2>1, <2>5, <2>6, <2>7
  <2>9. loc'[t].found = Nil => KeyOf[n] # Key(t)
    <3>1. loc'[t].found = Nil => ~ Equal(loc[t].curr, Key(t))
      BY <1>2, <2>4, ConstantFacts
    <3>2. loc'[t].found = Nil => KeyOf[loc[t].curr] # Key(t)
      BY <2>4, <3>1 DEF Equal
    <3> QED BY <1>6, <2>1, <2>5, <2>6, <2>7, <3>2
  <2> QED BY <2>2, <2>8, <2>9
<1> QED BY <1>1, <1>2, <1>3, <1>4, <1>7, <1>8 DEF AtPlace, Before

LEMMA LocRecordSeeks ==
    ASSUME NEW t \in Threads, Minds(t), LocRecord(t)
    PROVE  Seeks(t)'
<1>1. pc[t] = "loccurr" BY DEF LocRecord
<1>2. Keep(t, {"lvl", "found", "preds", "succs"})
  BY LocRecordKeeps DEF Minds
<1>3. \/ pc'[t] = "locpred"
      \/ pc'[t] = loc[t].ret /\ loc[t].lvl = 0
  BY LocRecordMoves DEF Minds
<1>4. CASE pc'[t] = "locpred"
  <2>1. AtCurr(t)' BY <1>4 DEF AtCurr
  <2> QED BY <1>1, <1>2, <1>4, <2>1, LocatingSeeks DEF Keep, Locating
<1>5. CASE pc'[t] = loc[t].ret /\ loc[t].lvl = 0
  <2>1. /\ pc'[t] \in {"position", "hint", "tail"}
        /\ Op(t) = "previous" => pc'[t] = "hint"
        /\ Op(t) \notin {"forward", "array"}
    BY <1>1, <1>5, CursorEntry DEF Locating
  <2>2. Op(t)' = Op(t) /\ loc'[t].node = loc[t].node BY <1>2 DEF Keep, Op
  <2>3. AtPlace(t)' BY <1>5, LocRecordPlace
  <2>4. AtCurr(t)' BY <2>1 DEF AtCurr
  <2>5. AtScan(t)' BY <2>1 DEF AtScan
  <2>6. AtWalk(t)' BY <2>1 DEF AtWalk
  <2>7. AtStep(t)'
    <3>1. Op(t) = "previous" => loc[t].node = Nil
      BY <1>1 DEF Minds, Seeks, AtStep, Locating
    <3> QED BY <2>1, <2>2, <3>1 DEF AtStep
  <2>8. AtWork(t)' BY <2>1, <2>2 DEF AtWork
  <2> QED BY <2>3, <2>4, <2>5, <2>6, <2>7, <2>8 DEF Seeks
<1> QED BY <1>3, <1>4, <1>5

LEMMA LocateSeeks ==
    ASSUME NEW t \in Threads, Minds(t), WaysKept, Locate(t)
    PROVE  Seeks(t)'
BY LocStartSeeks, LocPredSeeks, LocMarkedSeeks, LocHelpSeeks, LocAdvanceSeeks,
   LocRecordSeeks DEF Locate

-----------------------------------------------------------------------------
(* A cursor's own steps.                                                   *)
Afoot == {"scan", "scantest", "forward", "backward", "checkhint", "rescan", "rehint"}

LEMMA WordOrder ==
    ASSUME Words, NEW c \in Before0
    PROVE  /\ Word(c, 0) \in Known \cup {Tail}
           /\ c \in Nodes /\ Word(c, 0) \in Nodes => Ordered(c, Word(c, 0))
<1>1. Word(c, 0) \in Beyond /\ Word(c, 0) # Nil
  BY LinkedWord, ConstantFacts DEF Word
<1> QED BY <1>1 DEF Words, Word, Beyond

LEMMA AfootSeeks ==
    ASSUME NEW t \in Threads, Kind(t)', pc'[t] \in Afoot,
           AtScan(t)', AtWalk(t)', AtStep(t)'
    PROVE  Seeks(t)'
<1>1. AtCurr(t)' BY DEF AtCurr, Afoot
<1>2. AtPlace(t)'
  BY DEF AtPlace, Afoot, Placed, Placing, Moving, Demoting, Unlinking
<1>3. pc'[t] # "idle" BY DEF Afoot
<1>4. Suits(pc'[t], Op(t)') BY <1>3 DEF Kind
<1>5. AtWork(t)' BY <1>4 DEF AtWork, Suits, Afoot
<1> QED BY <1>1, <1>2, <1>5 DEF Seeks

(* The keys asked for, on the way from a smaller one.                      *)
LEMMA AskedAbove ==
    ASSUME NEW t \in Threads, Op(t) \in {"gte", "gt"}, NEW n, Asked(t, n),
           KeyOf[n] \in Nat, Key(t) \in Nat
    PROVE  KeyOf[n] >= Key(t) /\ (Op(t) = "gt" => KeyOf[n] > Key(t))
<1>1. CASE Op(t) = "gte" BY <1>1 DEF Asked
<1>2. CASE Op(t) = "gt"
  <2>1. KeyOf[n] > Key(t) BY <1>2 DEF Asked
  <2> QED BY <2>1
<1> QED BY <1>1, <1>2

LEMMA SamePlace ==
    ASSUME NEW t \in Threads, loc'[t].call = loc[t].call
    PROVE  /\ Op(t)' = Op(t) /\ Key(t)' = Key(t)
           /\ \A n : Asked(t, n)' <=> Asked(t, n)
<1>1. Op(t)' = Op(t) /\ Key(t)' = Key(t) BY DEF Op, Key
<1> QED BY <1>1 DEF Asked

LEMMA PositionHighSeeks ==
    ASSUME NEW t \in Threads, Minds(t), PositionHigh(t)
    PROVE  Seeks(t)'
<1>1. /\ pc[t] = "position" /\ Op(t) \in {"gte", "gt"} /\ pc'[t] = "scan"
      /\ next' = next /\ stay' = stay
      /\ \E v : loc' = [loc EXCEPT ![t].curr = v] /\ v = loc[t].preds[0]
  BY DEF PositionHigh, Goto, Minds, Here, LocalsKept, shape, history
<1>2. loc'[t].curr = loc[t].preds[0] /\ loc'[t].call = loc[t].call
  BY <1>1 DEF Minds, Here, LocalsKept, NoLocals
<1>3. Kind(t)' BY PositionHighGoes DEF Minds
<1>4. /\ Before(loc[t].preds[0], Key(t)) /\ Key(t) \in Nat
      /\ loc[t].preds[0] \in Before0
      /\ \A n \in stay[t] : Before(loc[t].preds[0], KeyOf[n]) =>
            n \in Way(next, loc[t].preds[0])
  <2>1. Path(t) /\ AtPlace(t) /\ Called(t) /\ Values(t)
    BY DEF Minds, Here, Locals, Seeks
  <2>2. pc[t] \in Placed \ Placing /\ pc[t] # "idle"
    BY <1>1 DEF Placed, Placing
  <2>3. Before(loc[t].preds[0], Key(t)) BY <2>1, <2>2 DEF Path
  <2>4. loc[t].preds[0] \in Before0
    BY <2>1, <2>3, ConstantFacts DEF Values, Before
  <2> QED BY <2>1, <2>2, <2>3, <2>4, KeyNumber DEF AtPlace
<1>5. ASSUME NEW n \in stay[t], Asked(t, n)
      PROVE  n \in Way(next, loc[t].preds[0])
  <2>1. KeyOf[n] \in Nat BY StayNodes DEF Minds
  <2>2. KeyOf[n] >= Key(t) BY <1>1, <1>4, <1>5, <2>1, AskedAbove
  <2>3. loc[t].preds[0] \in Nodes => KeyOf[loc[t].preds[0]] \in Nat
    BY SkipListAssumption
  <2>4. Before(loc[t].preds[0], KeyOf[n]) BY <1>4, <2>1, <2>2, <2>3 DEF Before
  <2> QED BY <1>4, <2>4
<1>6. AtScan(t)' BY <1>1, <1>2, <1>5, SamePlace DEF AtScan
<1>7. AtWalk(t)' BY <1>1 DEF AtWalk
<1>8. AtStep(t)' BY <1>1 DEF AtStep, Locating
<1> QED BY <1>1, <1>3, <1>6, <1>7, <1>8, AfootSeeks DEF Afoot

LEMMA ScanSeeks ==
    ASSUME NEW t \in Threads, Minds(t), Scan(t)
    PROVE  Seeks(t)'
<1>1. /\ pc[t] = "scan" /\ next' = next
      /\ \/ \E r : Return(t, r)
         \/ /\ pc'[t] = "scantest" /\ stay' = stay
            /\ \E v : loc' = [loc EXCEPT ![t].curr = v] /\ v = Word(loc[t].curr, 0)
  BY DEF Scan, Answer, Goto, Minds, Here, LocalsKept, shape, history, Word
<1>2. CASE \E r : Return(t, r) BY <1>2, EndsSeek DEF Minds
<1>3. CASE /\ pc'[t] = "scantest" /\ stay' = stay
           /\ \E v : loc' = [loc EXCEPT ![t].curr = v] /\ v = Word(loc[t].curr, 0)
  <2>1. loc'[t].curr = Word(loc[t].curr, 0) /\ loc'[t].call = loc[t].call
    BY <1>3 DEF Minds, Here, LocalsKept, NoLocals
  <2>2. Kind(t)' BY KindOn, ScanGoes DEF Minds, Counts, Rests
  <2>3. loc[t].curr \in Before0 BY <1>1 DEF Minds, Here, Locals, Walking
  <2>4. ASSUME NEW n \in stay[t], Asked(t, n)
        PROVE  n \in {Word(loc[t].curr, 0)} \cup Way(next, Word(loc[t].curr, 0))
    <3>1. n \in Way(next, loc[t].curr)
      BY <1>1, <2>4 DEF Minds, Seeks, AtScan
    <3>2. n \in Nodes BY StayNodes DEF Minds
    <3> QED BY <2>3, <3>1, <3>2, WayOn DEF Minds, Here
  <2>5. AtScan(t)' BY <1>1, <1>3, <2>1, <2>4, SamePlace DEF AtScan
  <2>6. AtWalk(t)' BY <1>3 DEF AtWalk
  <2>7. AtStep(t)' BY <1>3 DEF AtStep, Locating
  <2> QED BY <1>3, <2>2, <2>5, <2>6, <2>7, AfootSeeks DEF Afoot
<1> QED BY <1>1, <1>2, <1>3

LEMMA ScanTestSeeks ==
    ASSUME NEW t \in Threads, Minds(t), ScanTest(t)
    PROVE  Seeks(t)'
<1>1. /\ pc[t] = "scantest" /\ next' = next
      /\ \/ \E r : Return(t, r)
         \/ /\ pc'[t] = "scan" /\ stay' = stay /\ loc' = loc
            /\ Marked(loc[t].curr, 0) \/ ~ Wanted(t, loc[t].curr)
  BY DEF ScanTest, Answer, Goto, Minds, Here, LocalsKept, shape, history
<1>2. CASE \E r : Return(t, r) BY <1>2, EndsSeek DEF Minds
<1>3. CASE /\ pc'[t] = "scan" /\ stay' = stay /\ loc' = loc
           /\ Marked(loc[t].curr, 0) \/ ~ Wanted(t, loc[t].curr)
  <2>1. Kind(t)' BY KindOn, ScanTestGoes DEF Minds, Counts, Rests
  <2>2. Op(t) \in {"gte", "gt"} /\ Key(t) \in Nat
    <3>1. pc[t] # "idle" BY <1>1
    <3>2. Op(t) \in {"gte", "gt"} BY <1>1, <3>1 DEF Minds, Kind, Suits
    <3> QED BY <3>1, <3>2, KeyNumber DEF Minds, Here, Locals
  <2>3. ASSUME NEW n \in stay[t], Asked(t, n)
        PROVE  n \in Way(next, loc[t].curr)
    <3>1. n \in {loc[t].curr} \cup Way(next, loc[t].curr)
      BY <1>1, <2>3 DEF Minds, Seeks, AtScan
    <3>2. n \in Nodes /\ KeyOf[n] \in Nat /\ ~ Marked(n, 0)
      BY StayNodes DEF Minds
    <3>3. KeyOf[n] >= Key(t) /\ (Op(t) = "gt" => KeyOf[n] > Key(t))
      BY <2>2, <2>3, <3>2, AskedAbove
    <3>4. ~ Before(n, Key(t)) BY <2>2, <3>2, <3>3, ConstantFacts DEF Before
    <3>5. Op(t) = "gt" => After(n, Key(t)) BY <3>2, <3>3 DEF After
    <3>6. Wanted(t, n) BY <2>2, <3>4, <3>5 DEF Wanted
    <3> QED BY <1>3, <3>1, <3>2, <3>6
  <2>4. AtScan(t)' BY <1>1, <1>3, <2>3, SamePlace DEF AtScan
  <2>5. AtWalk(t)' BY <1>3 DEF AtWalk
  <2>6. AtStep(t)' BY <1>3 DEF AtStep, Locating
  <2> QED BY <1>3, <2>1, <2>4, <2>5, <2>6, AfootSeeks DEF Afoot
<1> QED BY <1>1, <1>2, <1>3

LEMMA ScanHeadSeeks ==
    ASSUME NEW t \in Threads, Minds(t), ScanHead(t)
    PROVE  Seeks(t)'
<1>1. /\ pc[t] = "head" /\ pc'[t] = "forward" /\ next' = next /\ stay' = stay
      /\ \E v : loc' = [loc EXCEPT ![t].curr = Head, ![t].k = v]
  BY DEF ScanHead, Goto, Minds, Here, LocalsKept, shape, history
<1>2. loc'[t].curr = Head /\ loc'[t].met = loc[t].met
  BY <1>1 DEF Minds, Here, LocalsKept, NoLocals
<1>3. Kind(t)' BY ScanHeadGoes DEF Minds
<1>4. loc[t].met = {} BY <1>1 DEF Minds, Seeks, AtWalk
<1>5. \A n \in stay[t] : n \in Way(next, Head)
  BY StayNodes, WayLive DEF Minds, Here, Before
<1>6. AtWalk(t)' BY <1>1, <1>2, <1>4, <1>5 DEF AtWalk
<1>7. AtScan(t)' BY <1>1 DEF AtScan
<1>8. AtStep(t)' BY <1>1 DEF AtStep, Locating
<1> QED BY <1>1, <1>3, <1>6, <1>7, <1>8, AfootSeeks DEF Afoot

(* A loop meets the next node: what it has met is before it, and the nodes *)
(* that stayed are met or ahead.                                           *)
LEMMA ForwardMeets ==
    ASSUME NEW t \in Threads, Minds(t), pc[t] = "forward",
           Word(loc[t].curr, 0) # Tail
    PROVE  /\ Word(loc[t].curr, 0) \in Known
           /\ \A m \in loc[t].met : Ordered(m, Word(loc[t].curr, 0))
           /\ \A n \in stay[t] :
                 \/ n \in loc[t].met \cup {Word(loc[t].curr, 0)}
                 \/ n \in Way(next, Word(loc[t].curr, 0))
<1>1. /\ loc[t].curr \in Before0 /\ Words /\ loc[t].met \subseteq Known
      /\ AtWalk(t)
  BY DEF Minds, Seeks, Here, Locals, Walking, Values
<1>2. PICK c : c = Word(loc[t].curr, 0) OBVIOUS
<1>3. c \in Known /\ (loc[t].curr \in Nodes => Ordered(loc[t].curr, c))
  BY <1>1, <1>2, WordOrder, KnownNodes
<1>4. /\ \A n \in stay[t] : n \in loc[t].met \cup Way(next, loc[t].curr)
      /\ \A m \in loc[t].met :
            \/ m = loc[t].curr
            \/ loc[t].curr \in Nodes /\ Ordered(m, loc[t].curr)
  BY <1>1 DEF AtWalk
<1>5. ASSUME NEW m \in loc[t].met PROVE Ordered(m, c)
  <2>1. m \in Nodes /\ c \in Nodes BY <1>1, <1>3, KnownNodes
  <2>2. CASE m = loc[t].curr BY <1>3, <2>1, <2>2
  <2>3. CASE loc[t].curr \in Nodes /\ Ordered(m, loc[t].curr)
    BY <1>3, <2>1, <2>3, OrderedTrans
  <2> QED BY <1>4, <2>2, <2>3
<1>6. ASSUME NEW n \in stay[t]
      PROVE  n \in loc[t].met \cup {c} \/ n \in Way(next, c)
  <2>1. n \in Nodes BY StayNodes DEF Minds
  <2>2. n \in Way(next, loc[t].curr) => n \in {c} \cup Way(next, c)
    BY <1>1, <1>2, <2>1, WayOn
  <2> QED BY <1>4, <2>2
<1> QED BY <1>2, <1>3, <1>5, <1>6

LEMMA ForwardSeeks ==
    ASSUME NEW t \in Threads, Minds(t), Forward(t)
    PROVE  Seeks(t)'
<1>1. /\ pc[t] = "forward" /\ next' = next
      /\ \/ \E r : Return(t, r)
         \/ /\ pc'[t] = "forward" /\ UNCHANGED <<stay, hasDups>>
            /\ Word(loc[t].curr, 0) # Tail
            /\ \E v, w : /\ loc' = [loc EXCEPT ![t].curr = v, ![t].met = w]
                         /\ v = Word(loc[t].curr, 0)
                         /\ w = loc[t].met \cup {Word(loc[t].curr, 0)}
  BY DEF Forward, Goto, Minds, Here, LocalsKept, shape, history, Word
<1>2. CASE \E r : Return(t, r) BY <1>2, EndsSeek DEF Minds
<1>3. CASE /\ pc'[t] = "forward" /\ UNCHANGED <<stay, hasDups>>
           /\ Word(loc[t].curr, 0) # Tail
           /\ \E v, w : /\ loc' = [loc EXCEPT ![t].curr = v, ![t].met = w]
                        /\ v = Word(loc[t].curr, 0)
                        /\ w = loc[t].met \cup {Word(loc[t].curr, 0)}
  <2>1. /\ loc'[t].curr = Word(loc[t].curr, 0)
        /\ loc'[t].met = loc[t].met \cup {Word(loc[t].curr, 0)}
    BY <1>3 DEF Minds, Here, LocalsKept, NoLocals
  <2>2. Kind(t)' BY KindOn, ForwardGoes DEF Minds, Counts, Rests
  <2>3. PICK c : c = Word(loc[t].curr, 0) OBVIOUS
  <2>4. /\ c \in Nodes /\ \A m \in loc[t].met : Ordered(m, c)
        /\ \A n \in stay[t] : n \in loc[t].met \cup {c} \/ n \in Way(next, c)
    BY <1>1, <1>3, <2>3, ForwardMeets, KnownNodes DEF Minds, Here
  <2>5. \A m, n : Ordered(m, n)' <=> Ordered(m, n) BY <1>3 DEF Ordered
  <2>6. loc'[t].curr = c /\ loc'[t].met = loc[t].met \cup {c} BY <2>1, <2>3
  <2>7. AtWalk(t)' BY <1>1, <1>3, <2>4, <2>5, <2>6 DEF AtWalk
  <2>8. AtScan(t)' BY <1>3 DEF AtScan
  <2>9. AtStep(t)' BY <1>3 DEF AtStep, Locating
  <2> QED BY <1>3, <2>2, <2>7, <2>8, <2>9, AfootSeeks DEF Afoot
<1> QED BY <1>1, <1>2, <1>3

LEMMA BackwardSeeks ==
    ASSUME NEW t \in Threads, Minds(t), ScanTail(t) \/ Follow(t)
    PROVE  Seeks(t)'
<1>1. (\E r : Return(t, r)) \/ pc'[t] = "backward"
  BY DEF ScanTail, Follow, Goto, Minds, Here, LocalsKept
<1>2. CASE \E r : Return(t, r) BY <1>2, EndsSeek DEF Minds
<1>3. CASE pc'[t] = "backward"
  <2>1. Kind(t)'
    BY KindOn, FollowGoes, ScanTailGoes DEF Minds, Counts, Rests
  <2>2. AtScan(t)' BY <1>3 DEF AtScan
  <2>3. AtWalk(t)' BY <1>3 DEF AtWalk
  <2>4. AtStep(t)' BY <1>3 DEF AtStep, Locating
  <2> QED BY <1>3, <2>1, <2>2, <2>3, <2>4, AfootSeeks DEF Afoot
<1> QED BY <1>1, <1>2, <1>3

LEMMA HintSeeks ==
    ASSUME NEW t \in Threads, Minds(t), Hint(t)
    PROVE  Seeks(t)'
<1>1. (\E r : Return(t, r)) \/ pc'[t] = "checkhint"
  BY DEF Hint, Answer, Goto, Minds, Here, LocalsKept
<1>2. CASE \E r : Return(t, r) BY <1>2, EndsSeek DEF Minds
<1>3. CASE pc'[t] = "checkhint"
  <2>1. Kind(t)' BY KindOn, HintGoes DEF Minds, Counts, Rests
  <2>2. AtScan(t)' BY <1>3 DEF AtScan
  <2>3. AtWalk(t)' BY <1>3 DEF AtWalk
  <2>4. AtStep(t)' BY <1>3 DEF AtStep, Locating
  <2> QED BY <1>3, <2>1, <2>2, <2>3, <2>4, AfootSeeks DEF Afoot
<1> QED BY <1>1, <1>2, <1>3

LEMMA CheckHintSeeks ==
    ASSUME NEW t \in Threads, Minds(t), CheckHint(t)
    PROVE  Seeks(t)'
<1>1. /\ next' = next
      /\ \/ \E r : Return(t, r)
         \/ /\ pc'[t] = "rescan" /\ stay' = stay
            /\ loc' = [loc EXCEPT ![t].pred = Head, ![t].curr = Head]
  BY DEF CheckHint, Answer, Goto, Minds, Here, LocalsKept, shape, history
<1>2. CASE \E r : Return(t, r) BY <1>2, EndsSeek DEF Minds
<1>3. CASE /\ pc'[t] = "rescan" /\ stay' = stay
           /\ loc' = [loc EXCEPT ![t].pred = Head, ![t].curr = Head]
  <2>1. loc'[t].curr = Head /\ loc'[t].node = loc[t].node
    BY <1>3 DEF Minds, Here, LocalsKept, NoLocals
  <2>2. Kind(t)' BY KindOn, CheckHintGoes DEF Minds, Counts, Rests
  <2>3. \A n \in stay[t] : n \in Way(next, Head)
    BY StayNodes, WayLive DEF Minds, Here, Before
  <2>4. AtStep(t)' BY <1>1, <1>3, <2>1, <2>3 DEF AtStep, Locating
  <2>5. AtScan(t)' BY <1>3 DEF AtScan
  <2>6. AtWalk(t)' BY <1>3 DEF AtWalk
  <2> QED BY <1>3, <2>2, <2>4, <2>5, <2>6, AfootSeeks DEF Afoot
<1> QED BY <1>1, <1>2, <1>3

LEMMA RescanSeeks ==
    ASSUME NEW t \in Threads, Minds(t), Rescan(t)
    PROVE  Seeks(t)'
<1>1. /\ pc[t] = "rescan" /\ next' = next /\ stay' = stay
      /\ \/ /\ pc'[t] = "rehint" /\ loc' = loc /\ Word(loc[t].curr, 0) = Tail
         \/ /\ pc'[t] = "rehint" /\ loc' = [loc EXCEPT ![t].pred = loc[t].curr]
            /\ Word(loc[t].curr, 0) = loc[t].node
         \/ /\ pc'[t] = "rescan" /\ Word(loc[t].curr, 0) \notin {Tail, loc[t].node}
            /\ \E v : loc' = [loc EXCEPT ![t].curr = v] /\ v = Word(loc[t].curr, 0)
  BY DEF Rescan, Goto, Minds, Here, LocalsKept, shape, history, Word
<1>2. Kind(t)' BY RescanGoes DEF Minds
<1>3. AtScan(t)' BY <1>1 DEF AtScan
<1>4. AtWalk(t)' BY <1>1 DEF AtWalk
<1>5. pc'[t] \in Afoot BY <1>1 DEF Afoot
<1>6. loc[t].curr \in Before0 /\ Words
  BY <1>1 DEF Minds, Here, Locals, Walking
<1>7. PICK c : c = Word(loc[t].curr, 0) OBVIOUS
<1>8. /\ c \in Known \cup {Tail}
      /\ loc[t].curr \in Nodes /\ c \in Nodes => Ordered(loc[t].curr, c)
  BY <1>6, <1>7, WordOrder
<1>9. ASSUME loc[t].node \in stay[t]
      PROVE  /\ loc[t].node \in Way(next, loc[t].curr)
             /\ \A n \in stay[t] :
                   \/ n \in Way(next, loc[t].curr)
                   \/ loc[t].curr \in Nodes /\ KeyOf[n] <= KeyOf[loc[t].curr]
  BY <1>1, <1>9 DEF Minds, Seeks, AtStep
<1>10. \A n \in stay[t] : n \in Way(next, loc[t].curr) => n = c \/ n \in Way(next, c)
  <2>1. \A n \in stay[t] : n \in Nodes BY StayNodes DEF Minds
  <2> QED BY <1>6, <1>7, <2>1, WayOn
<1>11. CASE pc'[t] = "rehint" /\ loc' = loc /\ Word(loc[t].curr, 0) = Tail
  <2>1. loc[t].node \notin stay[t]
    <3> SUFFICES ASSUME loc[t].node \in stay[t] PROVE FALSE OBVIOUS
    <3>1. loc[t].node \in Nodes /\ loc[t].node # Tail BY StayNodes DEF Minds
    <3>2. loc[t].node \in Way(next, Tail) BY <1>7, <1>9, <1>10, <1>11, <3>1
    <3> QED BY <3>1, <3>2, WayNone
  <2>2. AtStep(t)' BY <1>1, <1>11, <2>1 DEF AtStep, Locating
  <2> QED BY <1>2, <1>3, <1>4, <1>5, <2>2, AfootSeeks
<1>12. CASE /\ pc'[t] = "rehint" /\ loc' = [loc EXCEPT ![t].pred = loc[t].curr]
            /\ Word(loc[t].curr, 0) = loc[t].node
  <2>1. loc'[t].pred = loc[t].curr /\ loc'[t].node = loc[t].node
    BY <1>12 DEF Minds, Here, LocalsKept, NoLocals
  <2>2. ASSUME loc[t].node \in stay[t], NEW n \in stay[t],
               KeyOf[n] < KeyOf[loc[t].node]
        PROVE  loc[t].curr \in Nodes /\ KeyOf[n] <= KeyOf[loc[t].curr]
    <3>1. /\ n \in Nodes /\ KeyOf[n] \in Nat /\ c \in Known /\ c \in Nodes
          /\ KeyOf[c] \in Nat /\ c = loc[t].node
      BY <1>7, <1>12, <2>2, StayNodes DEF Minds
    <3>2. n # c BY <2>2, <3>1
    <3>3. n \in Way(next, c) => KeyOf[c] <= KeyOf[n]
      BY <1>6, <3>1, WayLeast
    <3>4. n \notin Way(next, c) BY <2>2, <3>1, <3>3
    <3> QED BY <1>9, <1>10, <2>2, <3>2, <3>4
  <2>3. AtStep(t)' BY <1>1, <1>12, <2>1, <2>2 DEF AtStep, Locating
  <2> QED BY <1>2, <1>3, <1>4, <1>5, <2>3, AfootSeeks
<1>13. CASE /\ pc'[t] = "rescan" /\ Word(loc[t].curr, 0) \notin {Tail, loc[t].node}
            /\ \E v : loc' = [loc EXCEPT ![t].curr = v] /\ v = Word(loc[t].curr, 0)
  <2>1. loc'[t].curr = c /\ loc'[t].node = loc[t].node
    BY <1>7, <1>13 DEF Minds, Here, LocalsKept, NoLocals
  <2>2. c \in Known /\ c \in Nodes /\ KeyOf[c] \in Nat /\ c # loc[t].node
    BY <1>6, <1>7, <1>8, <1>13, KnownNodes, SkipListAssumption
  <2>3. loc[t].curr \in Nodes =>
           KeyOf[loc[t].curr] \in Nat /\ KeyOf[loc[t].curr] <= KeyOf[c]
    BY <1>8, <2>2, SkipListAssumption DEF Ordered
  <2>4. ASSUME loc[t].node \in stay[t], NEW n \in stay[t]
        PROVE  n \in Way(next, c) \/ KeyOf[n] <= KeyOf[c]
    <3>1. KeyOf[n] \in Nat BY StayNodes DEF Minds
    <3>2. CASE n \in Way(next, loc[t].curr) BY <1>10, <2>2, <3>1, <3>2
    <3>3. CASE loc[t].curr \in Nodes /\ KeyOf[n] <= KeyOf[loc[t].curr]
      BY <2>2, <2>3, <3>1, <3>3
    <3> QED BY <1>9, <2>4, <3>2, <3>3
  <2>5. loc[t].node \in stay[t] => loc[t].node \in Way(next, c)
    BY <1>9, <1>10, <2>2
  <2>6. AtStep(t)' BY <1>1, <1>13, <2>1, <2>2, <2>4, <2>5 DEF AtStep, Locating
  <2> QED BY <1>2, <1>3, <1>4, <1>5, <2>6, AfootSeeks
<1> QED BY <1>1, <1>11, <1>12, <1>13

LEMMA CursorStepSeeks ==
    ASSUME NEW t \in Threads, Minds(t), CursorStep(t)
    PROVE  Seeks(t)'
<1>1. CASE PositionLow(t) \/ Rehint(t)
  <2>1. \E r : Return(t, r) BY <1>1 DEF PositionLow, Rehint, Answer
  <2> QED BY <2>1, EndsSeek DEF Minds
<1> QED
  BY <1>1, PositionHighSeeks, ScanSeeks, ScanTestSeeks, ScanHeadSeeks,
     ForwardSeeks, BackwardSeeks, HintSeeks, CheckHintSeeks, RescanSeeks
     DEF CursorStep

-----------------------------------------------------------------------------
(* The other calls' steps are no cursor's; a splay keeps what was found.   *)
LEMMA InsertSeeks ==
    ASSUME NEW t \in Threads, Minds(t), Insert(t)
    PROVE  FALSE
<1>1. pc[t] \in {"insert"} \cup Placing \cup Linked
  BY DEF Insert, Exists, Toss, Grow, GrowTail, Link, Help, HelpNext, HelpCas,
     Raise, RaiseSet, RaiseCas, RaiseAgain, Relink, Prev, PrevSucc, PrevCas,
     Count, Placing, Linked
<1>2. pc[t] # "idle" BY <1>1 DEF Placing, Linked
<1>3. Op(t) \in Inserts BY <1>1, <1>2 DEF Minds, Here, Locals, Called
<1> QED BY <1>3 DEF Minds, Cursor, Op, Inserts, CursorOps

LEMMA LookupSeeks ==
    ASSUME NEW t \in Threads, Minds(t), Lookup(t) \/ FoundAt(t)
    PROVE  FALSE
<1>1. pc[t] \in Looking
  BY DEF Lookup, LookStart, LookPred, LookCurr, LookDups, FoundAt, Looking
<1>2. pc[t] # "idle" BY <1>1 DEF Looking
<1>3. Op(t) = "contains" BY <1>1, <1>2 DEF Minds, Kind, Suits
<1> QED BY <1>3 DEF Minds, Cursor, Op, CursorOps

LEMMA RemoveOnlySeeks ==
    ASSUME NEW t \in Threads, Minds(t), pc[t] \in RemoveOnly
    PROVE  FALSE
<1>1. pc[t] # "idle" BY DEF RemoveOnly, Marking, Retiring
<1>2. Op(t) = "remove" BY <1>1 DEF Minds, Here, PlaceInv, InCall
<1> QED BY <1>2 DEF Minds, Cursor, Op, CursorOps

(* The places of a splay, the unlinking it may do too.                     *)
Splaying ==
    {"insert", "position", "found", "rebnode", "rebnext", "rebheight"}
    \cup Moving \cup Unlinking

LEMMA SplayingSeeks ==
    ASSUME NEW t \in Threads, Minds(t), WaysKept, Going(t), Kind(t)',
           pc[t] \in Splaying, stay' = stay, was' = was,
           pc'[t] \in Splaying \cup Entries \cup {"unprev"}
    PROVE  Seeks(t)'
<1>1. pc[t] \in Placed \ Placing /\ pc[t] # "idle" /\ pc'[t] # "idle"
  BY DEF Splaying, Placed, Placing, Moving, Demoting, Unlinking, Going, Quiet
<1>2. /\ AtPlace(t) /\ Values(t) /\ Path(t) /\ Key(t)' = Key(t)
      /\ Op(t)' = Op(t) /\ AtWork(t)
  BY DEF Minds, Here, Locals, Seeks, Going, Quiet, Key, Op
<1>3. Op(t) \notin {"forward", "array", "previous"}
  BY <1>2 DEF AtWork, Splaying, Moving, Demoting, Unlinking, Locating
<1>4. Suits(pc'[t], Op(t)) BY <1>1, <1>2 DEF Kind
<1>5. pc'[t] \notin {"head", "scan", "scantest", "forward", "rescan", "rehint",
                     "loccurr", "lochelp"}
  BY <1>3, <1>4 DEF Suits, Splaying, Entries, Moving, Demoting, Unlinking
<1>6. AtPlace(t)'
  <2> SUFFICES ASSUME pc'[t] \in Placed \ Placing
               PROVE  /\ loc'[t].preds[0] \in was'[t] \cup {Head}
                      /\ loc'[t].found \in was'[t] \cup {Nil}
                      /\ \A n \in stay'[t] : Before(loc'[t].preds[0], KeyOf[n]) =>
                            /\ n \in Way(next', loc'[t].preds[0])
                            /\ KeyOf[n] >= Key(t)
                            /\ loc'[t].found = Nil => KeyOf[n] # Key(t)
    BY <1>2 DEF AtPlace, Before
  <2>1. loc'[t].preds = loc[t].preds /\ loc'[t].found = loc[t].found
    BY DEF Going, Onto
  <2>2. loc[t].preds[0] \in Before0
    BY <1>1, <1>2, ConstantFacts DEF Values, Path, Before
  <2>3. /\ loc[t].preds[0] \in was[t] \cup {Head}
        /\ loc[t].found \in was[t] \cup {Nil}
        /\ \A n \in stay[t] : Before(loc[t].preds[0], KeyOf[n]) =>
              /\ n \in Way(next, loc[t].preds[0])
              /\ KeyOf[n] >= Key(t)
              /\ loc[t].found = Nil => KeyOf[n] # Key(t)
    BY <1>1, <1>2 DEF AtPlace
  <2>4. \A n \in stay[t] : n \in live BY DEF Minds, Logged
  <2>5. \A n \in stay[t] : n \in Way(next, loc[t].preds[0]) =>
                               n \in Way(next', loc[t].preds[0])
    BY <2>2, <2>4 DEF WaysKept
  <2> QED BY <2>1, <2>3, <2>5
<1>7. AtCurr(t)' BY <1>5 DEF AtCurr
<1>8. AtScan(t)' BY <1>5 DEF AtScan
<1>9. AtWalk(t)' BY <1>5 DEF AtWalk
<1>10. AtStep(t)' BY <1>2, <1>3, <1>5 DEF AtStep
<1>11. AtWork(t)' BY <1>2, <1>3 DEF AtWork
<1> QED BY <1>6, <1>7, <1>8, <1>9, <1>10, <1>11 DEF Seeks

Unlinks(t) ==
    Unlink(t) \/ Sweep(t) \/ SweepHead(t) \/ SweepCurr(t) \/ SweepCas(t)
    \/ VerifyHead(t) \/ VerifyCurr(t)

LEMMA UnlinksPlaces ==
    ASSUME NEW t \in Threads, Here(t), Unlinks(t)
    PROVE  /\ pc[t] \in Splaying /\ stay' = stay /\ was' = was
           /\ pc'[t] \in Splaying \cup {"unprev"}
<1>1. pc[t] \in Splaying /\ stay' = stay /\ was' = was
  BY DEF Unlinks, Unlink, Sweep, SweepHead, SweepCurr, SweepCas, VerifyHead,
     VerifyCurr, history, Splaying, Unlinking
<1>2. \A me : LevelSwept(t, me) => pc'[t] \in {"sweephead", "sweep", "verify"}
  BY DEF LevelSwept, Goto, Here, LocalsKept
<1>3. pc'[t] \in Unlinking \cup {"unprev", "rebnext"}
  <2>1. CASE Unlink(t) \/ Sweep(t) \/ SweepHead(t) \/ VerifyHead(t)
    BY <2>1 DEF Unlink, Sweep, SweepHead, VerifyHead, Goto, Here, LocalsKept,
       Unlinking
  <2>2. CASE SweepCurr(t)
    BY <1>2, <2>2 DEF SweepCurr, Goto, Here, LocalsKept, Unlinking
  <2>3. CASE SweepCas(t)
    BY <1>2, <2>3 DEF SweepCas, Goto, Here, LocalsKept, Unlinking
  <2>4. CASE VerifyCurr(t)
    BY <2>4 DEF VerifyCurr, Unlinked, Goto, Here, LocalsKept, Unlinking
  <2> QED BY <2>1, <2>2, <2>3, <2>4 DEF Unlinks
<1> QED BY <1>1, <1>3 DEF Splaying

LEMMA UnlinksSeek ==
    ASSUME NEW t \in Threads, Minds(t), WaysKept, Unlinks(t)
    PROVE  Seeks(t)'
<1>1. Going(t) /\ Kind(t)'
  BY UnlinkGoes, SweepGoes, SweepHeadGoes, SweepCurrGoes, SweepCasGoes,
     VerifyHeadGoes, VerifyCurrGoes DEF Unlinks, Minds
<1> QED BY <1>1, UnlinksPlaces, SplayingSeeks DEF Minds

LEMMA RemoveSeeks ==
    ASSUME NEW t \in Threads, Minds(t), WaysKept, Remove(t)
    PROVE  Seeks(t)'
<1>1. Unlinks(t) \/ pc[t] \in RemoveOnly
  BY DEF Remove, NoEntry, Found, Mark, Mark0, UnPrev, UnPrevCas, UnCount, Shrink,
     ShrinkCas, ShrinkTail, Retire, Adjust, Unlinks, RemoveOnly, Marking, Retiring
<1> QED BY <1>1, UnlinksSeek, RemoveOnlySeeks

Splays(t) ==
    Rebalance(t) \/ RebNode(t) \/ RebNext(t) \/ RebHeight(t) \/ DemotePred(t)
    \/ DemoteSucc(t) \/ DemoteCas(t) \/ DemoteLow(t) \/ ReRead(t) \/ Promote(t)
    \/ GrowHead(t) \/ InitHead(t) \/ Bump(t) \/ PromotePred(t) \/ PromoteSucc(t)
    \/ PromoteSet(t) \/ PromoteCas(t) \/ Revert(t) \/ Recheck(t) \/ Undo(t)
    \/ UndoCas(t)

LEMMA SplaysPlaces ==
    ASSUME NEW t \in Threads, Here(t), Splays(t)
    PROVE  /\ pc[t] \in Splaying /\ stay' = stay /\ was' = was
           /\ pc'[t] \in Splaying \cup Entries
<1>1. pc[t] \in Splaying
  BY DEF Splays, Rebalance, RebNode, RebNext, RebHeight, DemotePred, DemoteSucc,
     DemoteCas, DemoteLow, ReRead, Promote, GrowHead, InitHead, Bump, PromotePred,
     PromoteSucc, PromoteSet, PromoteCas, Revert, Recheck, Undo, UndoCas, Splaying,
     Moving, Demoting
<1>2. stay' = stay /\ was' = was
  BY DEF Splays, Rebalance, RebNode, RebNext, RebHeight, DemotePred, DemoteSucc,
     DemoteCas, DemoteLow, ReRead, Promote, GrowHead, InitHead, Bump, PromotePred,
     PromoteSucc, PromoteSet, PromoteCas, Revert, Recheck, Undo, UndoCas, history
<1>3. \A me : Ascend(t, me) => pc'[t] \in {"promote", "rebnext"}
  BY DEF Ascend, Goto, Here, LocalsKept
<1>4. CASE RebNode(t)
  <2>1. pc[t] = "rebnode" /\ pc'[t] \in {"rebnode", "rebheight", loc[t].ret}
    BY <1>4 DEF RebNode, Goto, Here, LocalsKept
  <2>2. loc[t].ret \in Entries BY <2>1 DEF Here, PlaceInv, InCall
  <2> QED BY <1>1, <1>2, <2>1, <2>2 DEF Splaying
<1>5. CASE RebHeight(t) \/ DemotePred(t) \/ DemoteSucc(t) \/ ReRead(t)
  <2>1. pc'[t] \in {"promote", "rebnext", "demotepred", "demotesucc", "demotecas"}
    BY <1>3, <1>5 DEF RebHeight, DemotePred, DemoteSucc, ReRead, Goto, Here,
       LocalsKept
  <2> QED BY <1>1, <1>2, <2>1 DEF Splaying, Moving, Demoting
<1>6. CASE Rebalance(t) \/ RebNext(t) \/ DemoteCas(t) \/ DemoteLow(t) \/ Promote(t)
           \/ GrowHead(t) \/ InitHead(t) \/ Bump(t)
  <2>1. pc'[t] \in {"rebnode", "demotelow", "reread", "bump", "rebnext", "growhead",
                    "inithead", "promotepred"}
    BY <1>6 DEF Rebalance, RebNext, DemoteCas, DemoteLow, Promote, GrowHead,
       InitHead, Bump, Goto, Here, LocalsKept
  <2> QED BY <1>1, <1>2, <2>1 DEF Splaying, Moving, Demoting
<1>7. CASE PromotePred(t) \/ PromoteSucc(t) \/ PromoteSet(t) \/ PromoteCas(t)
           \/ Revert(t) \/ Recheck(t) \/ Undo(t) \/ UndoCas(t)
  <2>1. pc'[t] \in {"promotesucc", "revert", "promoteset", "promotecas", "recheck",
                    "rebnext", "undo", "undocas", "unlink"}
    BY <1>7 DEF PromotePred, PromoteSucc, PromoteSet, PromoteCas, Revert, Recheck,
       Undo, UndoCas, Goto, Here, LocalsKept
  <2> QED BY <1>1, <1>2, <2>1 DEF Splaying, Moving, Demoting, Unlinking
<1> QED BY <1>4, <1>5, <1>6, <1>7 DEF Splays

LEMMA SplayStepSeeks ==
    ASSUME NEW t \in Threads, Minds(t), WaysKept, SplayStep(t)
    PROVE  Seeks(t)'
<1>1. CASE FoundAt(t) BY <1>1, LookupSeeks
<1>2. CASE Splays(t)
  <2>1. Going(t) /\ Kind(t)'
    BY <1>2, RebalanceGoes, RebNodeGoes, RebNextGoes, RebHeightGoes,
       DemotePredGoes, DemoteSuccGoes, DemoteCasGoes, DemoteLowGoes, ReReadGoes,
       PromoteGoes, GrowHeadGoes, InitHeadGoes, BumpGoes, PromotePredGoes,
       PromoteSuccGoes, PromoteSetGoes, PromoteCasGoes, RevertGoes, RecheckGoes,
       UndoGoes, UndoCasGoes DEF Splays, Minds
  <2> QED BY <1>2, <2>1, SplaysPlaces, SplayingSeeks DEF Minds
<1> QED BY <1>1, <1>2 DEF SplayStep, Splays

-----------------------------------------------------------------------------
(* Every step keeps what the cursors know.                                 *)
LEMMA OwnSeeks ==
    ASSUME NEW t \in Threads, Here(t), Kind(t), Seeks(t), Logged(t), WaysKept,
           Step(t) \/ CursorStep(t) \/ SplayStep(t),
           Goes(t) \/ \E r : Return(t, r)
    PROVE  Seeks(t)'
<1>1. CASE \E r : Return(t, r) BY <1>1, EndsSeek
<1>2. CASE Goes(t) /\ ~ Cursor(t)
  <2>1. ~ Cursor(t)' BY <1>2 DEF Goes, Cursor
  <2> QED BY <2>1 DEF Seeks
<1>3. CASE Cursor(t)
  <2>1. Minds(t) BY <1>3 DEF Minds
  <2> QED
    BY <2>1, LocateSeeks, InsertSeeks, RemoveSeeks, LookupSeeks, CursorStepSeeks,
       SplayStepSeeks DEF Step
<1> QED BY <1>1, <1>2, <1>3

LEMMA StepLearns ==
    ASSUME NEW t \in Threads, Step(t) \/ CursorStep(t) \/ SplayStep(t)
    PROVE  Learns(t)
BY LocateLearns, InsertLearns, RemoveLearns, LookupLearns, CursorStepLearns,
   SplayStepLearns DEF Step

LEMMA SeekStep ==
    ASSUME ListFull, SeekInv, NEW t \in Threads,
           \/ Call(t) \/ CursorCall(t) \/ SplayCall(t)
           \/ Step(t) \/ CursorStep(t) \/ SplayStep(t)
    PROVE  SeekInv'
<1>1. ListInv' /\ Tidy(t) /\ Here(t) /\ Only(t)
  BY OneStepKeeps DEF ListFull
<1>2. WaysKept /\ Monotone /\ live \subseteq Nodes
  BY <1>1, WaysKeep DEF Tidy, Here, Words
<1>3. Kind(t) /\ Seeks(t) /\ Logged(t) /\ Logs BY DEF SeekInv, Logs
<1>4. Counts(t) \/ Begins(t) BY <1>1, CallBegins, StepCounts
<1>5. Kind(t)' BY <1>1, <1>3, <1>4, KindOn
<1>6. /\ Logs' /\ Seeks(t)'
      /\ \A u \in Threads \ {t} : Cursor(u) => Remembers(u)
  <2>1. CASE Call(t) \/ CursorCall(t) \/ SplayCall(t)
    <3>1. Opens(t) BY <1>1, <2>1, CallOpens
    <3> QED BY <1>1, <1>3, <3>1, OpenLogs, OpensSeek
  <2>2. CASE Step(t) \/ CursorStep(t) \/ SplayStep(t)
    <3>1. Goes(t) \/ \E r : Return(t, r)
      BY <1>1, <2>2, StepCounts, GoesOrEnds
    <3>2. Learns(t) BY <2>2, StepLearns
    <3>3. Logs' /\ \A u \in Threads \ {t} : Cursor(u) => Remembers(u)
      BY <1>1, <1>3, <3>1, <3>2, LogsOn
    <3>4. Seeks(t)' BY <1>1, <1>2, <1>3, <2>2, <3>1, OwnSeeks
    <3> QED BY <3>3, <3>4
  <2> QED BY <2>1, <2>2
<1>7. ASSUME NEW u \in Threads \ {t} PROVE Kind(u)' /\ Seeks(u)'
  <2>1. loc'[u] = loc[u] /\ pc'[u] = pc[u] BY <1>1 DEF Only
  <2>2. Kind(u) /\ Seeks(u) /\ Logged(u) /\ Locals(u)
    BY DEF SeekInv, Logs, ListFull, ListInv
  <2>3. Kind(u)' BY <2>1, <2>2, KindElse
  <2>4. Seeks(u)' BY <1>2, <1>6, <2>1, <2>2, OthersSeek
  <2> QED BY <2>3, <2>4
<1> QED BY <1>5, <1>6, <1>7 DEF SeekInv

LEMMA SeekInit == ASSUME Init PROVE SeekInv
<1>1. \A t \in Threads : pc[t] = "idle" /\ loc[t] = NoLocals BY DEF Init
<1>2. \A t \in Threads : Kind(t) /\ ~ Cursor(t)
  BY <1>1 DEF Kind, Cursor, NoLocals
<1>3. \A t \in Threads : Seeks(t) BY <1>2 DEF Seeks
<1>4. Logs BY <1>2 DEF Init, Logs, Logged
<1> QED BY <1>2, <1>3, <1>4 DEF SeekInv

LEMMA SeekSame ==
    ASSUME ListFull, SeekInv, UNCHANGED vars PROVE SeekInv'
<1>1. UNCHANGED <<next, marked, hasDups, pc, loc, live, stay, was, result>>
  BY DEF vars, shape, history
<1>2. WaysKept BY <1>1 DEF WaysKept
<1>3. Monotone BY <1>1 DEF Monotone, Known, Marked
<1>4. ASSUME NEW t \in Threads PROVE Kind(t)' /\ Seeks(t)' /\ Logged(t)'
  <2>1. Kind(t) /\ Seeks(t) /\ Logged(t) /\ Locals(t) /\ live \subseteq Nodes
    BY DEF SeekInv, Logs, ListFull, ListInv, Words
  <2>2. Cursor(t)' <=> Cursor(t) BY <1>1 DEF Cursor
  <2>3. Cursor(t) => Remembers(t) BY <1>1, <2>1 DEF Remembers, Logged
  <2>4. Logged(t)' BY <1>1, <2>1, <2>2 DEF Logged
  <2>5. loc'[t] = loc[t] /\ pc'[t] = pc[t] BY <1>1
  <2>6. Kind(t)' BY <2>1, <2>5, KindElse
  <2>7. Seeks(t)' BY <1>2, <1>3, <2>1, <2>3, <2>5, OthersSeek
  <2> QED BY <2>4, <2>6, <2>7
<1>5. Logs' BY <1>1, <1>4 DEF SeekInv, Logs
<1> QED BY <1>4, <1>5 DEF SeekInv

-----------------------------------------------------------------------------
(* The answers.                                                            *)
LEMMA StepAt ==
    ASSUME NEW t \in Threads, Minds(t), Step(t) \/ CursorStep(t) \/ SplayStep(t)
    PROVE  \/ CursorStep(t)
           \/ pc[t] \in Locating \cup Splaying /\ pc'[t] # "idle"
<1>1. CASE Locate(t)
  <2>1. pc[t] \in Locating
    BY <1>1 DEF Locate, LocStart, LocPred, LocMarked, LocHelp, LocAdvance, LocRecord,
       Locating
  <2>2. Quiet(t)
    BY <1>1, LocStartGoes, LocPredQuiet, LocMarkedGoes, LocHelpQuiet,
       LocAdvanceQuiet, LocRecordQuiet DEF Locate, Going, Minds
  <2> QED BY <2>1, <2>2 DEF Quiet
<1>2. CASE Unlinks(t)
  <2>1. pc[t] \in Splaying /\ pc'[t] \in Splaying \cup {"unprev"}
    BY <1>2, UnlinksPlaces DEF Minds
  <2> QED BY <2>1 DEF Splaying, Moving, Demoting, Unlinking
<1>3. CASE Splays(t)
  <2>1. pc[t] \in Splaying /\ pc'[t] \in Splaying \cup Entries
    BY <1>3, SplaysPlaces DEF Minds
  <2> QED BY <2>1 DEF Splaying, Moving, Demoting, Unlinking, Entries
<1>4. Remove(t) => Unlinks(t)
  <2>1. Remove(t) => Unlinks(t) \/ pc[t] \in RemoveOnly
    BY DEF Remove, NoEntry, Found, Mark, Mark0, UnPrev, UnPrevCas, UnCount, Shrink,
       ShrinkCas, ShrinkTail, Retire, Adjust, Unlinks, RemoveOnly, Marking, Retiring
  <2> QED BY <2>1, RemoveOnlySeeks
<1>5. SplayStep(t) => Splays(t) \/ FoundAt(t) BY DEF SplayStep, Splays
<1> QED BY <1>1, <1>2, <1>3, <1>4, <1>5, InsertSeeks, LookupSeeks DEF Step

(* A step that answers, and with what.                                     *)
LEMMA Replied ==
    ASSUME NEW t \in Threads, DOMAIN result = Threads, NEW r, Return(t, r)
    PROVE  result'[t] = r
BY DEF Return

LEMMA PositionLowAnswer ==
    ASSUME NEW t \in Threads, Minds(t), DOMAIN result = Threads, PositionLow(t)
    PROVE  LET r == result'[t]
           IN /\ r # Nil => r \in was[t] /\ Asked(t, r)
              /\ \A n \in stay[t] : ~ (Asked(t, n) /\ Nearer(t, n, r))
<1>1. /\ pc[t] = "position" /\ Op(t) \in {"lte", "lt"}
      /\ \/ Op(t) = "lte" /\ loc[t].found # Nil /\ Answer(t, loc[t].found)
         \/ (Op(t) = "lt" \/ loc[t].found = Nil) /\ Answer(t, loc[t].preds[0])
  BY DEF PositionLow
<1>2. /\ Path(t) /\ AtPlace(t) /\ Called(t) /\ Values(t) /\ Walking(t) /\ Words
      /\ pc[t] \in Placed \ Placing /\ pc[t] # "idle"
  BY <1>1 DEF Minds, Here, Locals, Seeks, Placed, Placing
<1>3. Key(t) \in Nat BY <1>2, KeyNumber
<1>4. /\ \A n : Asked(t, n) => \/ Op(t) = "lte" /\ KeyOf[n] <= Key(t)
                               \/ Op(t) = "lt" /\ KeyOf[n] < Key(t)
      /\ \A n : KeyOf[n] < Key(t) /\ KeyOf[n] \in Nat => Asked(t, n)
      /\ Op(t) = "lte" => \A n : KeyOf[n] = Key(t) => Asked(t, n)
  <2>1. CASE Op(t) = "lte"
    <3>1. \A n : Asked(t, n) <=> KeyOf[n] <= Key(t) BY <2>1 DEF Asked
    <3>2. \A n : KeyOf[n] = Key(t) => KeyOf[n] <= Key(t) BY <1>3
    <3>3. \A n : KeyOf[n] < Key(t) /\ KeyOf[n] \in Nat => KeyOf[n] <= Key(t)
      BY <1>3
    <3> QED BY <2>1, <3>1, <3>2, <3>3
  <2>2. CASE Op(t) = "lt"
    <3>1. \A n : Asked(t, n) <=> KeyOf[n] < Key(t) BY <2>2 DEF Asked
    <3> QED BY <1>3, <2>2, <3>1
  <2> QED BY <1>1, <2>1, <2>2
<1>5. \A n, r : Nearer(t, n, r) => r = Nil \/ KeyOf[n] > KeyOf[r]
  BY <1>1 DEF Nearer
<1>6. \A n \in stay[t] : KeyOf[n] \in Nat BY StayNodes DEF Minds
<1>7. CASE Op(t) = "lte" /\ loc[t].found # Nil /\ Answer(t, loc[t].found)
  <2>1. PICK f : f = loc[t].found OBVIOUS
  <2>2. f \in Nodes /\ f # Nil /\ f \in was[t] /\ KeyOf[f] = Key(t)
    <3>1. f \in Known /\ f # Nil BY <1>2, <1>7, <2>1 DEF Values
    <3> QED BY <1>2, <1>7, <2>1, <3>1, KnownNodes DEF Walking, AtPlace
  <2>3. result'[t] = f BY <1>7, <2>1, <2>2, Replied DEF Answer
  <2>4. Asked(t, f) BY <1>4, <1>7, <2>2
  <2>5. \A n \in stay[t] : ~ (Asked(t, n) /\ Nearer(t, n, f))
    BY <1>3, <1>4, <1>6, <1>7, <1>5, <2>2
  <2> QED BY <2>2, <2>3, <2>4, <2>5
<1>8. CASE (Op(t) = "lt" \/ loc[t].found = Nil) /\ Answer(t, loc[t].preds[0])
  <2>1. PICK p : p = loc[t].preds[0] OBVIOUS
  <2>2. /\ Before(p, Key(t)) /\ p \in was[t] \cup {Head}
        /\ \A n \in stay[t] : Before(p, KeyOf[n]) =>
              /\ KeyOf[n] >= Key(t)
              /\ loc[t].found = Nil => KeyOf[n] # Key(t)
    BY <1>2, <2>1 DEF Path, AtPlace
  <2>3. result'[t] = IF p \in Nodes THEN p ELSE Nil
    BY <1>8, <2>1, Replied DEF Answer
  <2>4. \A n \in stay[t] : Asked(t, n) => ~ Before(p, KeyOf[n])
    BY <1>3, <1>4, <1>6, <1>8, <2>2
  <2>5. CASE p \in Nodes
    <3>1. p # Head /\ p # Nil /\ KeyOf[p] \in Nat
      BY <2>5, ConstantFacts, SkipListAssumption
    <3>2. p \in was[t] /\ KeyOf[p] < Key(t) BY <2>2, <3>1 DEF Before
    <3>3. \A n \in stay[t] : KeyOf[n] > KeyOf[p] => Before(p, KeyOf[n])
      BY <1>6, <2>5, <3>1 DEF Before
    <3>4. Asked(t, p) BY <1>4, <3>1, <3>2
    <3>5. \A n \in stay[t] : ~ (Asked(t, n) /\ Nearer(t, n, p))
      BY <1>5, <2>4, <3>1, <3>3
    <3> QED BY <2>3, <2>5, <3>2, <3>4, <3>5
  <2>6. CASE p \notin Nodes
    <3>1. p = Head BY <2>2, <2>6 DEF Before
    <3>2. \A n \in stay[t] : ~ Asked(t, n) BY <2>4, <3>1 DEF Before
    <3> QED BY <2>3, <2>6, <3>2
  <2> QED BY <2>5, <2>6
<1> QED BY <1>1, <1>7, <1>8

LEMMA ScanAnswer ==
    ASSUME NEW t \in Threads, Minds(t), DOMAIN result = Threads, Scan(t),
           pc'[t] = "idle"
    PROVE  LET r == result'[t]
           IN /\ r # Nil => r \in was[t] /\ Asked(t, r)
              /\ \A n \in stay[t] : ~ (Asked(t, n) /\ Nearer(t, n, r))
<1>1. pc[t] = "scan" /\ Word(loc[t].curr, 0) = Tail /\ Answer(t, Tail)
  BY DEF Scan, Goto, Minds, Here, LocalsKept, Word
<1>2. result'[t] = Nil BY <1>1, Replied, ConstantFacts DEF Answer
<1>3. loc[t].curr \in Before0 /\ Words
  BY <1>1 DEF Minds, Here, Locals, Walking
<1>4. ASSUME NEW n \in stay[t], Asked(t, n) PROVE FALSE
  <2>1. n \in Way(next, loc[t].curr) BY <1>1, <1>4 DEF Minds, Seeks, AtScan
  <2>2. n \in Nodes /\ n # Tail BY StayNodes DEF Minds
  <2>3. n \in Way(next, Tail) BY <1>1, <1>3, <2>1, <2>2, WayOn
  <2> QED BY <2>2, <2>3, WayNone
<1> QED BY <1>2, <1>4

LEMMA ScanTestAnswer ==
    ASSUME NEW t \in Threads, Minds(t), DOMAIN result = Threads, ScanTest(t),
           pc'[t] = "idle"
    PROVE  LET r == result'[t]
           IN /\ r # Nil => r \in was[t] /\ Asked(t, r)
              /\ \A n \in stay[t] : ~ (Asked(t, n) /\ Nearer(t, n, r))
<1>1. /\ pc[t] = "scantest" /\ ~ Marked(loc[t].curr, 0)
      /\ Wanted(t, loc[t].curr) /\ Answer(t, loc[t].curr)
  BY DEF ScanTest, Goto, Minds, Here, LocalsKept
<1>2. PICK c : c = loc[t].curr OBVIOUS
<1>3. c \in Known /\ Words /\ Called(t) /\ pc[t] # "idle"
  BY <1>1, <1>2 DEF Minds, Here, Locals, Walking
<1>4. /\ c \in Nodes /\ c # Nil /\ c # Head /\ c # Tail /\ KeyOf[c] \in Nat
      /\ Key(t) \in Nat
  BY <1>3, KnownNodes, KeyNumber, SkipListAssumption, ConstantFacts
<1>5. c \in was[t]
  <2>1. c \in live
    BY <1>1, <1>2, <1>3, <1>4, UnmarkedLive DEF Before0
  <2> QED BY <2>1 DEF Minds, Logged
<1>6. result'[t] = c BY <1>1, <1>2, <1>4, Replied DEF Answer
<1>7. Op(t) \in {"gte", "gt"} BY <1>1 DEF Wanted
<1>8. Asked(t, c)
  <2>1. CASE Op(t) = "gte"
    <3>1. ~ Before(c, Key(t)) BY <1>1, <1>2, <2>1 DEF Wanted
    <3>2. KeyOf[c] >= Key(t) BY <1>4, <3>1 DEF Before
    <3> QED BY <2>1, <3>2 DEF Asked
  <2>2. CASE Op(t) = "gt"
    <3>1. After(c, Key(t)) BY <1>1, <1>2, <2>2 DEF Wanted
    <3>2. KeyOf[c] > Key(t) BY <1>4, <3>1 DEF After
    <3> QED BY <2>2, <3>2 DEF Asked
  <2> QED BY <1>7, <2>1, <2>2
<1>9. ASSUME NEW n \in stay[t], Asked(t, n) PROVE ~ Nearer(t, n, c)
  <2>1. n \in {c} \cup Way(next, c)
    BY <1>1, <1>2, <1>9 DEF Minds, Seeks, AtScan
  <2>2. n \in Nodes /\ KeyOf[n] \in Nat BY StayNodes DEF Minds
  <2>3. KeyOf[c] <= KeyOf[n] BY <1>3, <1>4, <2>1, <2>2, WayLeast
  <2> QED BY <1>4, <1>7, <2>2, <2>3 DEF Nearer
<1> QED BY <1>5, <1>6, <1>8, <1>9

LEMMA PositionAnswer ==
    ASSUME NEW t \in Threads, Minds(t), DOMAIN result = Threads,
           Step(t) \/ CursorStep(t) \/ SplayStep(t),
           Returns(t, {"gte", "gt", "lte", "lt"})
    PROVE  LET r == result'[t]
           IN /\ r # Nil => r \in was[t] /\ Asked(t, r)
              /\ \A n \in stay[t] : ~ (Asked(t, n) /\ Nearer(t, n, r))
<1>1. /\ pc'[t] = "idle" /\ Op(t) \in {"gte", "gt", "lte", "lt"}
      /\ Suits(pc[t], Op(t)) /\ CursorStep(t)
  BY StepAt DEF Returns, Minds, Kind
<1>2. pc[t] \notin {"head", "forward", "tail", "backward", "hint", "checkhint",
                    "rescan", "rehint"}
  BY <1>1 DEF Suits
<1>3. ~ PositionHigh(t)
  BY <1>1 DEF PositionHigh, Goto, Minds, Here, LocalsKept
<1>4. PositionLow(t) \/ Scan(t) \/ ScanTest(t)
  BY <1>1, <1>2, <1>3 DEF CursorStep, ScanHead, Forward, ScanTail, Follow, Hint,
     CheckHint, Rescan, Rehint
<1> QED BY <1>1, <1>4, PositionLowAnswer, ScanAnswer, ScanTestAnswer

(* A loop ends with every node that stayed, and goes up on its way.        *)
LEMMA ForwardAnswer ==
    ASSUME NEW t \in Threads, Minds(t), DOMAIN result = Threads,
           Step(t) \/ CursorStep(t) \/ SplayStep(t), Returns(t, {"forward"})
    PROVE  stay[t] \subseteq result'[t]
<1>1. /\ pc'[t] = "idle" /\ Op(t) = "forward" /\ CursorStep(t)
      /\ pc[t] \in {"head", "forward"}
  BY StepAt DEF Returns, Minds, Seeks, AtWork
<1>2. ~ ScanHead(t) BY <1>1 DEF ScanHead, Goto, Minds, Here, LocalsKept
<1>3. Forward(t)
  BY <1>1, <1>2 DEF CursorStep, PositionLow, PositionHigh, Scan, ScanTest, ScanTail,
     Follow, Hint, CheckHint, Rescan, Rehint
<1>4. /\ pc[t] = "forward" /\ Word(loc[t].curr, 0) = Tail
      /\ Return(t, loc[t].met)
  BY <1>1, <1>3 DEF Forward, Full, Word
<1>5. result'[t] = loc[t].met BY <1>4, Replied
<1>6. loc[t].curr \in Before0 /\ Words
  BY <1>4 DEF Minds, Here, Locals, Walking
<1>7. ASSUME NEW n \in stay[t] PROVE n \in loc[t].met
  <2>1. n \in loc[t].met \cup Way(next, loc[t].curr)
    BY <1>4 DEF Minds, Seeks, AtWalk
  <2>2. n \in Nodes /\ n # Tail BY StayNodes DEF Minds
  <2>3. n \in Way(next, loc[t].curr) => n \in Way(next, Tail)
    BY <1>4, <1>6, <2>2, WayOn
  <2> QED BY <2>1, <2>2, <2>3, WayNone
<1> QED BY <1>5, <1>7

LEMMA ForwardOrder ==
    ASSUME NEW t \in Threads, Here(t), Kind(t), Seeks(t), Logged(t),
           Step(t) \/ CursorStep(t) \/ SplayStep(t),
           pc[t] = "forward", loc'[t].curr \in Nodes
    PROVE  \A n \in loc[t].met : Ordered(n, loc'[t].curr)
<1>1. Minds(t)
  <2>1. Op(t) \in {"forward", "array"} BY DEF Kind, Suits
  <2>2. loc[t].call # Nil
    BY CallsAssumption DEF Here, Locals, Called
  <2> QED BY <2>1, <2>2 DEF Minds, Cursor, Op, CursorOps
<1>2. CursorStep(t)
  BY <1>1, StepAt DEF Locating, Splaying, Moving, Demoting, Unlinking
<1>3. Forward(t)
  BY <1>2 DEF CursorStep, PositionLow, PositionHigh, Scan, ScanTest, ScanHead,
     ScanTail, Follow, Hint, CheckHint, Rescan, Rehint
<1>4. \/ \E r : Return(t, r)
      \/ /\ Word(loc[t].curr, 0) # Tail
         /\ \E v, w : /\ loc' = [loc EXCEPT ![t].curr = v, ![t].met = w]
                      /\ v = Word(loc[t].curr, 0)
  BY <1>3 DEF Forward, Word
<1>5. CASE \E r : Return(t, r)
  <2>1. loc'[t] = NoLocals BY <1>5, ReturnsIdle
  <2> QED BY <2>1, ConstantFacts DEF NoLocals
<1>6. CASE /\ Word(loc[t].curr, 0) # Tail
           /\ \E v, w : /\ loc' = [loc EXCEPT ![t].curr = v, ![t].met = w]
                        /\ v = Word(loc[t].curr, 0)
  <2>1. loc'[t].curr = Word(loc[t].curr, 0)
    BY <1>6 DEF Here, LocalsKept, NoLocals
  <2> QED BY <1>1, <1>6, <2>1, ForwardMeets
<1> QED BY <1>4, <1>5, <1>6

(* A step back from a node that stayed.                                    *)
LEMMA BackAnswer ==
    ASSUME NEW t \in Threads, Minds(t), DOMAIN result = Threads,
           Step(t) \/ CursorStep(t) \/ SplayStep(t),
           Returns(t, {"previous"}), loc[t].node \in stay[t]
    PROVE  \A n \in stay[t] :
              ~ (KeyOf[n] < KeyOf[loc[t].node]
                 /\ (result'[t] = Nil \/ KeyOf[n] > KeyOf[result'[t]]))
<1>1. /\ pc'[t] = "idle" /\ Op(t) = "previous" /\ CursorStep(t)
      /\ Suits(pc[t], Op(t)) /\ pc[t] # "idle"
  BY StepAt DEF Returns, Minds, Kind
<1>2. pc[t] \notin {"position", "scan", "scantest", "head", "forward", "tail",
                    "backward"}
  BY <1>1 DEF Suits
<1>3. ~ Rescan(t)
  BY <1>1 DEF Rescan, Goto, Minds, Here, LocalsKept
<1>4. Hint(t) \/ CheckHint(t) \/ Rehint(t)
  BY <1>1, <1>2, <1>3 DEF CursorStep, PositionLow, PositionHigh, Scan, ScanTest,
     ScanHead, Forward, ScanTail, Follow
<1>5. /\ loc[t].node \in Nodes /\ loc[t].node # Nil /\ loc[t].node \in Known
      /\ KeyOf[loc[t].node] \in Nat
      /\ \A n \in stay[t] : n \in Nodes /\ KeyOf[n] \in Nat
  BY StayNodes, ConstantFacts DEF Minds
<1>6. CASE Hint(t)
  <2>1. pc[t] = "hint" BY <1>6 DEF Hint
  <2>2. loc[t].node = Nil BY <1>1, <2>1 DEF Minds, Seeks, AtStep
  <2> QED BY <1>5, <2>2
<1>7. CASE CheckHint(t)
  <2>1. PICK p : p = loc[t].hint OBVIOUS
  <2>2. /\ pc[t] = "checkhint" /\ p \notin {Nil, Tail} /\ ~ Marked(p, 0)
        /\ Word(p, 0) = loc[t].node /\ Answer(t, p)
    BY <1>1, <1>7, <2>1 DEF CheckHint, Goto, Minds, Here, LocalsKept, Holds, Word
  <2>3. p \in Before0 /\ Words
    BY <2>1, <2>2 DEF Minds, Here, Locals, Values
  <2>4. result'[t] = IF p \in Nodes THEN p ELSE Nil BY <2>2, Replied DEF Answer
  <2>5. ASSUME NEW n \in stay[t], KeyOf[n] < KeyOf[loc[t].node]
        PROVE  ~ Before(p, KeyOf[n])
    <3> SUFFICES ASSUME Before(p, KeyOf[n]) PROVE FALSE OBVIOUS
    <3>1. n \in {loc[t].node} \cup Way(next, loc[t].node)
      BY <2>2, <2>3, AheadOf
    <3>2. n # loc[t].node BY <1>5, <2>5
    <3>3. KeyOf[loc[t].node] <= KeyOf[n]
      BY <1>5, <2>3, <3>1, <3>2, WayLeast
    <3> QED BY <1>5, <2>5, <3>3
  <2>6. CASE p \in Nodes
    <3>1. \A n \in stay[t] : KeyOf[n] > KeyOf[p] => Before(p, KeyOf[n])
      <4>1. KeyOf[p] \in Nat BY <2>6, SkipListAssumption
      <4> QED BY <1>5, <2>6, <4>1 DEF Before
    <3> QED BY <2>2, <2>4, <2>5, <2>6, <3>1
  <2>7. CASE p \notin Nodes
    <3>1. p = Head BY <2>3, <2>7, KnownNodes DEF Before0
    <3> QED BY <2>5, <3>1 DEF Before
  <2> QED BY <2>6, <2>7
<1>8. CASE Rehint(t)
  <2>1. pc[t] = "rehint" /\ Answer(t, loc[t].pred) BY <1>8 DEF Rehint
  <2>2. \A n \in stay[t] : KeyOf[n] < KeyOf[loc[t].node] =>
           loc[t].pred \in Nodes /\ KeyOf[n] <= KeyOf[loc[t].pred]
    BY <2>1 DEF Minds, Seeks, AtStep
  <2>3. result'[t] = IF loc[t].pred \in Nodes THEN loc[t].pred ELSE Nil
    BY <2>1, Replied DEF Answer
  <2>4. ASSUME NEW n \in stay[t], KeyOf[n] < KeyOf[loc[t].node]
        PROVE  result'[t] # Nil /\ ~ (KeyOf[n] > KeyOf[result'[t]])
    <3>1. loc[t].pred \in Nodes /\ KeyOf[n] <= KeyOf[loc[t].pred]
      BY <2>2, <2>4
    <3>2. KeyOf[loc[t].pred] \in Nat /\ loc[t].pred # Nil
      BY <3>1, SkipListAssumption, ConstantFacts
    <3> QED BY <1>5, <2>3, <3>1, <3>2
  <2> QED BY <2>4
<1> QED BY <1>4, <1>6, <1>7, <1>8

(* Only the thread that steps answers, and it is at a step of its call.    *)
LEMMA ReturnsHere ==
    ASSUME ListFull, SeekInv, NEW u \in Threads,
           \/ Call(u) \/ CursorCall(u) \/ SplayCall(u)
           \/ Step(u) \/ CursorStep(u) \/ SplayStep(u),
           NEW t \in Threads, NEW ops \in SUBSET CursorOps, Returns(t, ops)
    PROVE  /\ Step(t) \/ CursorStep(t) \/ SplayStep(t)
           /\ Minds(t) /\ DOMAIN result = Threads
<1>1. Here(u) /\ Only(u) BY OneStepKeeps DEF ListFull
<1>2. u = t BY <1>1 DEF Only, Returns
<1>3. ~ (Call(t) \/ CursorCall(t) \/ SplayCall(t))
  BY <1>1, <1>2, CallOpens DEF Opens, Returns
<1>4. Cursor(t)
  <2>1. pc[t] # "idle" /\ Op(t) \in CursorOps BY DEF Returns
  <2>2. loc[t].call # Nil
    BY <1>1, <1>2, <2>1, CallsAssumption DEF Here, Locals, Called
  <2> QED BY <2>1, <2>2 DEF Cursor, Op
<1>5. Minds(t) /\ DOMAIN result = Threads
  BY <1>1, <1>2, <1>4 DEF SeekInv, Logs, Minds
<1> QED BY <1>2, <1>3, <1>5

LEMMA PositionsStep ==
    ASSUME ListFull, SeekInv, [SplayNext]_vars
    PROVE  [\A t \in Threads :
               Returns(t, {"gte", "gt", "lte", "lt"}) =>
                   LET r == result'[t]
                   IN /\ r # Nil => r \in was[t] /\ Asked(t, r)
                      /\ \A n \in stay[t] : ~ (Asked(t, n) /\ Nearer(t, n, r))]_vars
<1>1. CASE UNCHANGED vars BY <1>1
<1>2. CASE \E u \in Threads :
              \/ Call(u) \/ CursorCall(u) \/ SplayCall(u)
              \/ Step(u) \/ CursorStep(u) \/ SplayStep(u)
  <2>1. {"gte", "gt", "lte", "lt"} \in SUBSET CursorOps BY DEF CursorOps
  <2> QED BY <1>2, <2>1, ReturnsHere, PositionAnswer
<1> QED BY <1>1, <1>2, NextSteps

LEMMA TraversesStep ==
    ASSUME ListFull, SeekInv, [SplayNext]_vars
    PROVE  [\A t \in Threads :
               /\ Returns(t, {"forward"}) => stay[t] \subseteq result'[t]
               /\ pc[t] = "forward" /\ loc'[t].curr \in Nodes \ {loc[t].curr} =>
                     \A n \in loc[t].met : Ordered(n, loc'[t].curr)]_vars
<1>1. CASE UNCHANGED vars BY <1>1
<1>2. CASE \E u \in Threads :
              \/ Call(u) \/ CursorCall(u) \/ SplayCall(u)
              \/ Step(u) \/ CursorStep(u) \/ SplayStep(u)
  <2>1. {"forward"} \in SUBSET CursorOps BY DEF CursorOps
  <2>2. \A t \in Threads : Returns(t, {"forward"}) => stay[t] \subseteq result'[t]
    BY <1>2, <2>1, ReturnsHere, ForwardAnswer
  <2>3. ASSUME NEW t \in Threads, pc[t] = "forward",
               loc'[t].curr \in Nodes \ {loc[t].curr}
        PROVE  \A n \in loc[t].met : Ordered(n, loc'[t].curr)
    <3>1. PICK u \in Threads : \/ Call(u) \/ CursorCall(u) \/ SplayCall(u)
                               \/ Step(u) \/ CursorStep(u) \/ SplayStep(u)
      BY <1>2
    <3>2. Here(u) /\ Only(u) BY <3>1, OneStepKeeps DEF ListFull
    <3>3. u = t BY <2>3, <3>2 DEF Only
    <3>4. ~ (Call(t) \/ CursorCall(t) \/ SplayCall(t))
      BY <2>3, <3>2, <3>3, CallOpens DEF Opens
    <3>5. Kind(t) /\ Seeks(t) /\ Logged(t) BY DEF SeekInv, Logs
    <3> QED BY <2>3, <3>1, <3>2, <3>3, <3>4, <3>5, ForwardOrder
  <2> QED BY <2>2, <2>3
<1> QED BY <1>1, <1>2, NextSteps

LEMMA StepsBackStep ==
    ASSUME ListFull, SeekInv, [SplayNext]_vars
    PROVE  [\A t \in Threads :
               Returns(t, {"previous"}) /\ loc[t].node \in stay[t] =>
                   \A n \in stay[t] :
                       ~ (KeyOf[n] < KeyOf[loc[t].node]
                          /\ (result'[t] = Nil
                              \/ KeyOf[n] > KeyOf[result'[t]]))]_vars
<1>1. CASE UNCHANGED vars BY <1>1
<1>2. CASE \E u \in Threads :
              \/ Call(u) \/ CursorCall(u) \/ SplayCall(u)
              \/ Step(u) \/ CursorStep(u) \/ SplayStep(u)
  <2>1. {"previous"} \in SUBSET CursorOps BY DEF CursorOps
  <2> QED BY <1>2, <2>1, ReturnsHere, BackAnswer
<1> QED BY <1>1, <1>2, NextSteps

LEMMA SeekNext ==
    ASSUME ListFull, SeekInv, [SplayNext]_vars PROVE SeekInv'
BY NextSteps, SeekSame, SeekStep

(* In every behaviour every cursor in progress knows, of the nodes that    *)
(* stayed in the list since it was called, that they are still ahead of    *)
(* the walk or already behind it where its answer will account for them.   *)
THEOREM CursorsSeek == SplaySpec => []SeekInv
<1>1. Init => SeekInv BY SeekInit
<1>2. ListFull /\ SeekInv /\ [SplayNext]_vars => SeekInv' BY SeekNext
<1> QED BY <1>1, <1>2, ListCorrect, PTL DEF SplaySpec

(* skip_position_{gte,gt,lte,lt}_ answers with a node that was in the list *)
(* while it ran, on the side asked for, and skips no node that stayed      *)
(* between the two, whatever inserts, removes and splays run beside it.    *)
THEOREM SplayPositions == SplaySpec => Positions
<1>1. ListFull /\ SeekInv /\ [SplayNext]_vars =>
         [\A t \in Threads :
             Returns(t, {"gte", "gt", "lte", "lt"}) =>
                 LET r == result'[t]
                 IN /\ r # Nil => r \in was[t] /\ Asked(t, r)
                    /\ \A n \in stay[t] : ~ (Asked(t, n) /\ Nearer(t, n, r))]_vars
  BY PositionsStep
<1> QED BY <1>1, ListCorrect, CursorsSeek, PTL DEF SplaySpec, Positions

(* A SKIPLIST_FOREACH_H2T loop meets the nodes in order, though it follows *)
(* the words of removed nodes too, and misses none that stayed.            *)
THEOREM SplayTraverses == SplaySpec => Traverses
<1>1. ListFull /\ SeekInv /\ [SplayNext]_vars =>
         [\A t \in Threads :
             /\ Returns(t, {"forward"}) => stay[t] \subseteq result'[t]
             /\ pc[t] = "forward" /\ loc'[t].curr \in Nodes \ {loc[t].curr} =>
                   \A n \in loc[t].met : Ordered(n, loc'[t].curr)]_vars
  BY TraversesStep
<1> QED BY <1>1, ListCorrect, CursorsSeek, PTL DEF SplaySpec, Traverses

(* skip_prev_validated_ steps back over no node that stayed, whether it    *)
(* trusts the backward hint or looks for the node from the head.           *)
THEOREM SplayStepsBack == SplaySpec => StepsBack
<1>1. ListFull /\ SeekInv /\ [SplayNext]_vars =>
         [\A t \in Threads :
             Returns(t, {"previous"}) /\ loc[t].node \in stay[t] =>
                 \A n \in stay[t] :
                     ~ (KeyOf[n] < KeyOf[loc[t].node]
                        /\ (result'[t] = Nil
                            \/ KeyOf[n] > KeyOf[result'[t]]))]_vars
  BY StepsBackStep
<1> QED BY <1>1, ListCorrect, CursorsSeek, PTL DEF SplaySpec, StepsBack

(* The same of the cursors without splay, the behaviours the runs check.   *)
THEOREM CursorsGood == CursorSpec => Positions /\ Traverses /\ StepsBack
<1>1. [CursorNext]_vars => [SplayNext]_vars BY DEF SplayNext
<1>2. CursorSpec => SplaySpec BY <1>1, PTL DEF CursorSpec, SplaySpec
<1> QED BY <1>2, SplayPositions, SplayTraverses, SplayStepsBack, PTL

=============================================================================
