----------------------------- MODULE PoolProof -----------------------------
(***************************************************************************)
(* The pool never gives a slot to two owners, returns NULL only after each *)
(* slot was used at some moment, and never tears the slab down under a     *)
(* node, for every number of threads and slots.                            *)
(*                                                                         *)
(* The argument: while a thread allocates the slab stays (CallInv), and    *)
(* while a thread destroys nobody allocates, so the slots it found free    *)
(* stay free (DestroyInv).  A slot is used exactly while it has an owner   *)
(* (Ownership).  A scan has met, as used, every slot it has tried, and     *)
(* capacity successive values of the cursor hit every slot (ScanInv and    *)
(* EverySlotTried).                                                        *)
(***************************************************************************)
EXTENDS Pool, TLAPS

(* A thread in alloc works on the pool as it found it.                     *)
CallInv ==
    /\ slab => capacity = Capacity
    /\ ~slab => used = {}
    /\ \A t \in Allocating :
          /\ cap[t] = capacity
          /\ slab \/ capacity = 0
          /\ pc[t] # "null" => tries[t] <= cap[t]
    /\ \A t \in Owners : slot[t] \in Slots

DestroyInv ==
    \A t \in Destroying :
        /\ Allocating = {}
        /\ Destroying = {t}
        /\ slab \/ capacity = 0
        /\ pc[t] = "check" => tries[t] <= capacity /\ used \cap (0 .. tries[t] - 1) = {}
        /\ pc[t] = "teardown" => used = {}

(* What a scan that does not wrap the cursor has seen.                     *)
Straight(t) == start[t] + cap[t] <= CursorLimit

Met(t) ==
    /\ pc[t] = "probe" =>
          used \subseteq seen[t]
          /\ \A k \in 0 .. tries[t] - 1 : (start[t] + k) % cap[t] \in seen[t]
    /\ pc[t] = "null" =>
          \A k \in 0 .. cap[t] - 1 : (start[t] + k) % cap[t] \in seen[t]

ScanInv == \A t \in Threads : Straight(t) => Met(t)

IInv == TypeOK /\ CallInv /\ DestroyInv /\ Ownership /\ Zeroed /\ ScanInv

-----------------------------------------------------------------------------
LEMMA ProbedIsSlot ==
    ASSUME TypeOK, NEW t \in Threads, tries[t] < cap[t]
    PROVE  Probed(t) \in Slots /\ cap[t] = Capacity
<1>1. cap[t] = Capacity /\ cap[t] \in Nat \ {0}
  BY CapacityAssumption DEF TypeOK
<1>2. (start[t] + tries[t]) % CursorLimit \in Nat
  BY CursorAssumption, CapacityAssumption DEF TypeOK
<1>3. Probed(t) \in 0 .. cap[t] - 1
  BY <1>1, <1>2 DEF Probed
<1> QED BY <1>1, <1>3 DEF Slots

(* Capacity successive values of the cursor fall on every slot.            *)
LEMMA EverySlotTried ==
    ASSUME NEW s \in Nat, NEW c \in Nat \ {0}, NEW i \in 0 .. c - 1
    PROVE  \E k \in 0 .. c - 1 : (s + k) % c = i
<1> DEFINE q == s \div c  r == s % c
<1>1. s = c * q + r /\ q \in Nat /\ r \in 0 .. c - 1
  OBVIOUS
<1> HIDE DEF q, r
<1>2. CASE r <= i
  <2>1. i - r \in 0 .. c - 1 /\ s + (i - r) = c * q + i
    BY <1>1, <1>2
  <2>2. (c * q + i) % c = i
    BY <1>1
  <2> QED BY <2>1, <2>2
<1>3. CASE i < r
  <2>1. (i + c) - r \in 0 .. c - 1 /\ s + ((i + c) - r) = c * (q + 1) + i
    BY <1>1, <1>3
  <2>2. (c * (q + 1) + i) % c = i
    BY <1>1
  <2> QED BY <2>1, <2>2
<1> QED BY <1>1, <1>2, <1>3

-----------------------------------------------------------------------------
LEMMA TypeStep ==
    ASSUME TypeOK, CallInv, DestroyInv, [Next]_vars
    PROVE  TypeOK'
<1> USE DEF TypeOK, PCs, AllocAt, Goto, poolVars, nodeVars, scanVars
<1>1. CASE UNCHANGED vars
  BY <1>1 DEF vars
<1>2. ASSUME NEW t \in Threads, PoolInit(t) PROVE TypeOK'
  <2>1. 0 \in 0 .. CursorLimit - 1 /\ capacity' \in {0, Capacity}
    BY <1>2, CursorAssumption DEF PoolInit
  <2>2. CASE slab' = TRUE /\ used' = {} /\ cursor' = 0 /\ attached' = FALSE /\ dirty' = {}
    BY <1>2, <2>1, <2>2 DEF PoolInit
  <2>3. CASE UNCHANGED <<slab, used, cursor, attached, dirty>>
    BY <1>2, <2>1, <2>3 DEF PoolInit
  <2> QED BY <1>2, <2>2, <2>3 DEF PoolInit
<1>3. ASSUME NEW t \in Threads, Attach(t) PROVE TypeOK'
  BY <1>3 DEF Attach
<1>4. ASSUME NEW t \in Threads, AllocStart(t) PROVE TypeOK'
  <2>1. cursor' \in 0 .. CursorLimit - 1
    BY <1>4, CursorAssumption DEF AllocStart
  <2>2. 0 \in 0 .. Capacity
    BY CapacityAssumption
  <2> QED BY <1>4, <2>1, <2>2 DEF AllocStart
<1>5. ASSUME NEW t \in Threads, Probe(t) PROVE TypeOK'
  <2>1. Probed(t) \in Slots /\ cap[t] = Capacity /\ tries[t] < cap[t]
    BY <1>5, ProbedIsSlot DEF Probe
  <2>2. CASE Claim(t)
    <3>1. seen' \in [Threads -> SUBSET Slots]
      BY <2>1, <2>2 DEF Claim
    <3> QED BY <1>5, <2>1, <2>2, <3>1 DEF Probe, Claim
  <2>3. CASE Taken(t)
    <3>1. tries[t] + 1 \in 0 .. Capacity
      BY <2>1, CapacityAssumption
    <3> QED BY <1>5, <2>3, <3>1 DEF Probe, Taken
  <2> QED BY <1>5, <2>2, <2>3 DEF Probe
<1>6. ASSUME NEW t \in Threads, Exhausted(t) PROVE TypeOK'
  BY <1>6 DEF Exhausted
<1>7. ASSUME NEW t \in Threads, Zero(t) PROVE TypeOK'
  BY <1>7 DEF Zero
<1>8. ASSUME NEW t \in Threads, AllocReturn(t) PROVE TypeOK'
  <2>1. pc[t] = "got" => slot[t] \in Slots
    BY DEF CallInv, Owners
  <2>2. out' \subseteq Slots
    BY <1>8, <2>1 DEF AllocReturn
  <2>3. 0 \in 0 .. CursorLimit - 1 /\ 0 \in 0 .. Capacity
    BY CursorAssumption, CapacityAssumption
  <2> QED BY <1>8, <2>2, <2>3 DEF AllocReturn, Forget
<1>9. ASSUME NEW t \in Threads, NEW i \in Slots, Write(t, i) PROVE TypeOK'
  BY <1>9 DEF Write
<1>10. ASSUME NEW t \in Threads, NEW i \in Slots, Release(t, i) PROVE TypeOK'
  BY <1>10 DEF Release
<1>11. ASSUME NEW t \in Threads, NEW n \in HeapNodes, AllocHeap(t, n) PROVE TypeOK'
  BY <1>11 DEF AllocHeap
<1>12. ASSUME NEW t \in Threads, NEW n \in HeapNodes, ReleaseHeap(t, n) PROVE TypeOK'
  BY <1>12 DEF ReleaseHeap
<1>13. ASSUME NEW t \in Threads, Free(t) PROVE TypeOK'
  BY <1>13 DEF Free
<1>14. ASSUME NEW t \in Threads, Destroy(t) PROVE TypeOK'
  <2>1. 0 \in 0 .. Capacity
    BY CapacityAssumption
  <2> QED BY <1>14, <2>1 DEF Destroy
<1>15. ASSUME NEW t \in Threads, Check(t) PROVE TypeOK'
  <2>1. tries'[t] \in 0 .. Capacity /\ tries' = [tries EXCEPT ![t] = tries'[t]]
    BY <1>15, CapacityAssumption DEF Check
  <2>2. pc' \in [Threads -> PCs]
    BY <1>15 DEF Check
  <2> QED BY <1>15, <2>1, <2>2 DEF Check
<1>16. ASSUME NEW t \in Threads, Teardown(t) PROVE TypeOK'
  <2>1. 0 \in 0 .. Capacity
    BY CapacityAssumption
  <2> QED BY <1>16, <2>1 DEF Teardown
<1> QED BY <1>1, <1>2, <1>3, <1>4, <1>5, <1>6, <1>7, <1>8, <1>9, <1>10, <1>11, <1>12,
           <1>13, <1>14, <1>15, <1>16 DEF Next

(* Which threads allocate, destroy and own a slot after a step.            *)
LEMMA Moved ==
    ASSUME TypeOK, NEW t \in Threads, NEW l \in PCs, Goto(t, l)
    PROVE  /\ \A u \in Threads : pc'[u] = IF u = t THEN l ELSE pc[u]
           /\ Allocating' = IF l \in AllocAt THEN Allocating \cup {t} ELSE Allocating \ {t}
           /\ Destroying' = IF l \in {"check", "teardown"}
                              THEN Destroying \cup {t} ELSE Destroying \ {t}
           /\ Owners' = IF l \in {"zero", "got", "store"} THEN Owners \cup {t} ELSE Owners \ {t}
<1>1. \A u \in Threads : pc'[u] = IF u = t THEN l ELSE pc[u]
  BY DEF TypeOK, Goto
<1>2. Allocating' = IF l \in AllocAt THEN Allocating \cup {t} ELSE Allocating \ {t}
  BY <1>1 DEF Allocating
<1>3. Destroying' = IF l \in {"check", "teardown"}
                      THEN Destroying \cup {t} ELSE Destroying \ {t}
  BY <1>1 DEF Destroying
<1>4. Owners' = IF l \in {"zero", "got", "store"} THEN Owners \cup {t} ELSE Owners \ {t}
  BY <1>1 DEF Owners
<1> QED BY <1>1, <1>2, <1>3, <1>4

Same == Allocating' = Allocating /\ Destroying' = Destroying /\ Owners' = Owners

LEMMA Stayed ==
    ASSUME UNCHANGED pc
    PROVE  Same
BY DEF Same, Allocating, Destroying, Owners

LEMMA AllIdle ==
    ASSUME \A u \in Threads : pc[u] = "idle"
    PROVE  Allocating = {} /\ Destroying = {} /\ Owners = {}
BY DEF Allocating, Destroying, Owners, AllocAt

LEMMA AllocMoves ==
    ASSUME TypeOK, NEW t \in Threads
    PROVE  /\ AllocStart(t) => /\ Allocating' = Allocating \cup {t} /\ t \notin Allocating
                               /\ Destroying' = Destroying /\ Owners' = Owners /\ t \notin Owners
           /\ Probe(t) /\ Claim(t) =>
                 /\ Allocating' = Allocating /\ t \in Allocating /\ Destroying' = Destroying
                 /\ Owners' = Owners \cup {t} /\ t \notin Owners
           /\ Exhausted(t) => Same /\ t \in Allocating /\ t \notin Owners
           /\ Zero(t) => Same /\ t \in Allocating /\ t \in Owners
           /\ AllocReturn(t) => /\ Allocating' = Allocating \ {t} /\ t \in Allocating
                                /\ Destroying' = Destroying /\ Owners' = Owners \ {t}
<1> USE DEF PCs, AllocAt
<1>1. ASSUME AllocStart(t)
      PROVE  /\ Allocating' = Allocating \cup {t} /\ t \notin Allocating
             /\ Destroying' = Destroying /\ Owners' = Owners /\ t \notin Owners
  <2>1. Goto(t, "probe") /\ pc[t] = "idle"
    BY <1>1 DEF AllocStart
  <2>2. t \notin Destroying /\ t \notin Owners /\ t \notin Allocating
    BY <2>1 DEF Destroying, Owners, Allocating
  <2> QED BY <2>1, <2>2, Moved
<1>2. ASSUME Probe(t), Claim(t)
      PROVE  /\ Allocating' = Allocating /\ t \in Allocating /\ Destroying' = Destroying
             /\ Owners' = Owners \cup {t} /\ t \notin Owners
  <2>1. Goto(t, "zero") /\ pc[t] = "probe"
    BY <1>2 DEF Probe, Claim
  <2>2. t \notin Destroying /\ t \notin Owners /\ t \in Allocating
    BY <2>1 DEF Destroying, Owners, Allocating
  <2> QED BY <2>1, <2>2, Moved
<1>3. ASSUME Exhausted(t) PROVE Same /\ t \in Allocating /\ t \notin Owners
  <2>1. Goto(t, "null") /\ pc[t] = "probe"
    BY <1>3 DEF Exhausted
  <2>2. t \notin Destroying /\ t \notin Owners /\ t \in Allocating
    BY <2>1 DEF Destroying, Owners, Allocating
  <2> QED BY <2>1, <2>2, Moved DEF Same
<1>4. ASSUME Zero(t) PROVE Same /\ t \in Allocating /\ t \in Owners
  <2>1. Goto(t, "got") /\ pc[t] = "zero"
    BY <1>4 DEF Zero
  <2>2. t \notin Destroying /\ t \in Owners /\ t \in Allocating
    BY <2>1 DEF Destroying, Owners, Allocating
  <2> QED BY <2>1, <2>2, Moved DEF Same
<1>5. ASSUME AllocReturn(t)
      PROVE  /\ Allocating' = Allocating \ {t} /\ t \in Allocating
             /\ Destroying' = Destroying /\ Owners' = Owners \ {t}
  <2>1. Goto(t, "idle") /\ pc[t] \in {"got", "null"}
    BY <1>5 DEF AllocReturn, Forget
  <2>2. t \notin Destroying /\ t \in Allocating
    BY <2>1 DEF Destroying, Allocating
  <2> QED BY <2>1, <2>2, Moved
<1> QED BY <1>1, <1>2, <1>3, <1>4, <1>5

LEMMA OtherMoves ==
    ASSUME TypeOK, NEW t \in Threads
    PROVE  /\ \A i \in Slots : Release(t, i) =>
                 /\ Allocating' = Allocating /\ t \notin Allocating
                 /\ Destroying' = Destroying
                 /\ Owners' = Owners \cup {t} /\ t \notin Owners
           /\ Free(t) => /\ Allocating' = Allocating /\ t \notin Allocating
                         /\ Destroying' = Destroying
                         /\ Owners' = Owners \ {t} /\ t \in Owners
           /\ Destroy(t) => /\ Allocating' = Allocating /\ t \notin Allocating
                            /\ Destroying' = Destroying \cup {t} /\ Owners' = Owners
           /\ Check(t) => /\ Allocating' = Allocating /\ Owners' = Owners
                          /\ t \in Destroying /\ Destroying' \subseteq Destroying
           /\ Teardown(t) => /\ Allocating' = Allocating /\ Owners' = Owners
                             /\ t \in Destroying /\ Destroying' = Destroying \ {t}
<1> USE DEF PCs, AllocAt
<1>1. ASSUME NEW i \in Slots, Release(t, i)
      PROVE  /\ Allocating' = Allocating /\ t \notin Allocating /\ Destroying' = Destroying
             /\ Owners' = Owners \cup {t} /\ t \notin Owners
  <2>1. Goto(t, "store") /\ pc[t] = "idle"
    BY <1>1 DEF Release
  <2>2. t \notin Destroying /\ t \notin Owners /\ t \notin Allocating
    BY <2>1 DEF Destroying, Owners, Allocating
  <2> QED BY <2>1, <2>2, Moved
<1>2. ASSUME Free(t)
      PROVE  /\ Allocating' = Allocating /\ t \notin Allocating /\ Destroying' = Destroying
             /\ Owners' = Owners \ {t} /\ t \in Owners
  <2>1. Goto(t, "idle") /\ pc[t] = "store"
    BY <1>2 DEF Free
  <2>2. t \notin Destroying /\ t \in Owners /\ t \notin Allocating
    BY <2>1 DEF Destroying, Owners, Allocating
  <2> QED BY <2>1, <2>2, Moved
<1>3. ASSUME Destroy(t)
      PROVE  /\ Allocating' = Allocating /\ t \notin Allocating
             /\ Destroying' = Destroying \cup {t} /\ Owners' = Owners
  <2>1. (Goto(t, "check") \/ Goto(t, "teardown")) /\ pc[t] = "idle"
    BY <1>3 DEF Destroy
  <2>2. t \notin Owners /\ t \notin Allocating
    BY <2>1 DEF Owners, Allocating
  <2> QED BY <2>1, <2>2, Moved
<1>4. ASSUME Check(t)
      PROVE  /\ Allocating' = Allocating /\ Owners' = Owners
             /\ t \in Destroying /\ Destroying' \subseteq Destroying
  <2>1. pc[t] = "check" /\ (Goto(t, "teardown") \/ Goto(t, "idle") \/ UNCHANGED pc)
    BY <1>4 DEF Check
  <2>2. t \notin Owners /\ t \notin Allocating /\ t \in Destroying
    BY <2>1 DEF Owners, Allocating, Destroying
  <2> QED BY <2>1, <2>2, Moved, Stayed DEF Same
<1>5. ASSUME Teardown(t)
      PROVE  /\ Allocating' = Allocating /\ Owners' = Owners
             /\ t \in Destroying /\ Destroying' = Destroying \ {t}
  <2>1. Goto(t, "idle") /\ pc[t] = "teardown"
    BY <1>5 DEF Teardown
  <2>2. t \in Destroying /\ t \notin Owners /\ t \notin Allocating
    BY <2>1 DEF Destroying, Owners, Allocating
  <2> QED BY <2>1, <2>2, Moved
<1> QED BY <1>1, <1>2, <1>3, <1>4, <1>5

-----------------------------------------------------------------------------
(* A used slot means that there is a slab.                                 *)
LEMMA CallStep ==
    ASSUME TypeOK, CallInv, DestroyInv, [Next]_vars
    PROVE  CallInv'
<1> USE DEF CallInv, poolVars, nodeVars, scanVars
<1>1. CASE UNCHANGED vars
  BY <1>1, Stayed DEF vars, Same
<1>2. ASSUME NEW t \in Threads, PoolInit(t) PROVE CallInv'
  BY <1>2, AllIdle, Stayed DEF PoolInit, Same
<1>3. ASSUME NEW t \in Threads, Attach(t) PROVE CallInv'
  BY <1>3, Stayed DEF Attach, Same
<1>4. ASSUME NEW t \in Threads, AllocStart(t) PROVE CallInv'
  <2>1. Allocating' = Allocating \cup {t} /\ Owners' = Owners
    BY <1>4, AllocMoves
  <2>2. cap'[t] = capacity' /\ (slab' \/ capacity' = 0) /\ tries'[t] <= cap'[t]
    BY <1>4, CapacityAssumption DEF AllocStart, TypeOK
  <2>3. \A u \in Threads \ {t} :
           cap'[u] = cap[u] /\ tries'[u] = tries[u] /\ pc'[u] = pc[u]
    BY <1>4 DEF AllocStart, Goto, TypeOK
  <2> QED BY <1>4, <2>1, <2>2, <2>3 DEF AllocStart, Allocating
<1>5. ASSUME NEW t \in Threads, Probe(t) PROVE CallInv'
  <2>1. Probed(t) \in Slots /\ cap[t] = Capacity
    BY <1>5, ProbedIsSlot DEF Probe
  <2>2. t \in Allocating
    BY <1>5 DEF Probe, Allocating, AllocAt
  <2>3. slab
    BY <2>1, <2>2, CapacityAssumption
  <2>4. CASE Claim(t)
    <3>1. Allocating' = Allocating /\ Owners' = Owners \cup {t}
      BY <1>5, <2>4, AllocMoves
    <3>2. slot'[t] \in Slots /\ \A u \in Threads \ {t} : slot'[u] = slot[u] /\ pc'[u] = pc[u]
      BY <1>5, <2>1, <2>4 DEF Claim, Goto, TypeOK
    <3>3. tries[t] <= cap[t]
      BY <1>5 DEF Probe, TypeOK
    <3> QED BY <1>5, <2>3, <2>4, <3>1, <3>2, <3>3 DEF Probe, Claim, Allocating, Owners
  <2>5. CASE Taken(t)
    <3>1. tries'[t] <= cap[t] /\ \A u \in Threads \ {t} : tries'[u] = tries[u]
      BY <1>5, <2>1, <2>5, CapacityAssumption DEF Probe, Taken, TypeOK
    <3>2. Allocating' = Allocating /\ Owners' = Owners
      BY <2>5, Stayed DEF Taken, Same
    <3> QED BY <1>5, <2>3, <2>5, <3>1, <3>2 DEF Probe, Taken
  <2> QED BY <1>5, <2>4, <2>5 DEF Probe
<1>6. ASSUME NEW t \in Threads, Exhausted(t) PROVE CallInv'
  <2>1. Allocating' = Allocating /\ Owners' = Owners /\ t \notin Owners
    BY <1>6, AllocMoves DEF Same
  <2>2. /\ pc'[t] = "null"
        /\ \A u \in Threads \ {t} : slot'[u] = slot[u] /\ pc'[u] = pc[u]
    BY <1>6 DEF Exhausted, Goto, TypeOK
  <2> QED BY <1>6, <2>1, <2>2 DEF Exhausted, Allocating, Owners
<1>7. ASSUME NEW t \in Threads, Zero(t) PROVE CallInv'
  <2>1. Allocating' = Allocating /\ Owners' = Owners
    BY <1>7, AllocMoves DEF Same
  <2>2. pc[t] = "zero" /\ \A u \in Threads \ {t} : pc'[u] = pc[u]
    BY <1>7 DEF Zero, Goto, TypeOK
  <2> QED BY <1>7, <2>1, <2>2 DEF Zero, Allocating
<1>8. ASSUME NEW t \in Threads, AllocReturn(t) PROVE CallInv'
  <2>1. Allocating' = Allocating \ {t} /\ Owners' = Owners \ {t}
    BY <1>8, AllocMoves
  <2>2. \A u \in Threads \ {t} : /\ slot'[u] = slot[u] /\ pc'[u] = pc[u]
                                 /\ cap'[u] = cap[u] /\ tries'[u] = tries[u]
    BY <1>8 DEF AllocReturn, Forget, Goto, TypeOK
  <2> QED BY <1>8, <2>1, <2>2 DEF AllocReturn, Allocating, Owners
<1>9. ASSUME NEW t \in Threads, NEW i \in Slots, Write(t, i) PROVE CallInv'
  BY <1>9, Stayed DEF Write, Same
<1>10. ASSUME NEW t \in Threads, NEW i \in Slots, Release(t, i) PROVE CallInv'
  <2>1. Allocating' = Allocating /\ Owners' = Owners \cup {t} /\ t \notin Allocating
    BY <1>10, OtherMoves
  <2>2. slot'[t] \in Slots /\ \A u \in Threads \ {t} : slot'[u] = slot[u] /\ pc'[u] = pc[u]
    BY <1>10 DEF Release, Goto, TypeOK
  <2> QED BY <1>10, <2>1, <2>2 DEF Release, Allocating
<1>11. ASSUME NEW t \in Threads, NEW n \in HeapNodes, AllocHeap(t, n) PROVE CallInv'
  BY <1>11, Stayed DEF AllocHeap, Same
<1>12. ASSUME NEW t \in Threads, NEW n \in HeapNodes, ReleaseHeap(t, n) PROVE CallInv'
  BY <1>12, Stayed DEF ReleaseHeap, Same
<1>13. ASSUME NEW t \in Threads, Free(t) PROVE CallInv'
  <2>1. Allocating' = Allocating /\ Owners' = Owners \ {t} /\ t \notin Allocating
    BY <1>13, OtherMoves
  <2>2. \A u \in Threads \ {t} : slot'[u] = slot[u] /\ pc'[u] = pc[u]
    BY <1>13 DEF Free, Goto, TypeOK
  <2> QED BY <1>13, <2>1, <2>2 DEF Free, Allocating, Owners
<1>14. ASSUME NEW t \in Threads, Destroy(t) PROVE CallInv'
  <2>1. Allocating' = {} /\ Owners' = Owners
    BY <1>14, OtherMoves DEF Destroy
  <2> QED BY <1>14, <2>1 DEF Destroy
<1>15. ASSUME NEW t \in Threads, Check(t) PROVE CallInv'
  <2>1. Allocating' = {} /\ Owners' = Owners
    BY <1>15, OtherMoves DEF DestroyInv
  <2> QED BY <1>15, <2>1 DEF Check
<1>16. ASSUME NEW t \in Threads, Teardown(t) PROVE CallInv'
  <2>1. Allocating' = {} /\ Owners' = Owners
    BY <1>16, OtherMoves DEF DestroyInv
  <2> QED BY <1>16, <2>1 DEF Teardown
<1> QED BY <1>1, <1>2, <1>3, <1>4, <1>5, <1>6, <1>7, <1>8, <1>9, <1>10, <1>11, <1>12,
           <1>13, <1>14, <1>15, <1>16 DEF Next

(* A slot is used exactly while somebody owns it.                          *)
LEMMA OwnershipStep ==
    ASSUME TypeOK, CallInv, DestroyInv, Ownership, [Next]_vars
    PROVE  Ownership'
<1> USE DEF Ownership, poolVars, nodeVars, scanVars
<1>1. CASE UNCHANGED vars
  BY <1>1, Stayed DEF vars, Same
<1>2. ASSUME NEW t \in Threads, PoolInit(t) PROVE Ownership'
  <2>1. used = {} /\ out = {} /\ Owners = {} /\ Owners' = {}
    BY <1>2, AllIdle, Stayed DEF PoolInit, Same, CallInv
  <2> QED BY <1>2, <2>1 DEF PoolInit
<1>3. ASSUME NEW t \in Threads, Attach(t) PROVE Ownership'
  BY <1>3, Stayed DEF Attach, Same
<1>4. ASSUME NEW t \in Threads, AllocStart(t) PROVE Ownership'
  <2>1. Owners' = Owners
    BY <1>4, AllocMoves
  <2> QED BY <1>4, <2>1 DEF AllocStart
<1>5. ASSUME NEW t \in Threads, Probe(t) PROVE Ownership'
  <2>1. CASE Claim(t)
    <3>1. Owners' = Owners \cup {t} /\ t \notin Owners
      BY <1>5, <2>1, AllocMoves
    <3>2. slot'[t] = Probed(t) /\ \A u \in Owners : slot'[u] = slot[u]
      BY <2>1, <3>1 DEF Claim, TypeOK, Owners
    <3>3. Probed(t) \notin used /\ used' = used \cup {Probed(t)} /\ out' = out
      BY <1>5, <2>1 DEF Probe, Claim
    <3> QED BY <3>1, <3>2, <3>3
  <2>2. CASE Taken(t)
    BY <1>5, <2>2, Stayed DEF Probe, Taken, Same
  <2> QED BY <1>5, <2>1, <2>2 DEF Probe
<1>6. ASSUME NEW t \in Threads, Exhausted(t) PROVE Ownership'
  <2>1. Owners' = Owners /\ t \notin Owners
    BY <1>6, AllocMoves DEF Same
  <2>2. \A u \in Owners : slot'[u] = slot[u]
    BY <1>6, <2>1 DEF Exhausted, TypeOK, Owners
  <2> QED BY <1>6, <2>1, <2>2 DEF Exhausted
<1>7. ASSUME NEW t \in Threads, Zero(t) PROVE Ownership'
  <2>1. Owners' = Owners
    BY <1>7, AllocMoves DEF Same
  <2> QED BY <1>7, <2>1 DEF Zero
<1>8. ASSUME NEW t \in Threads, AllocReturn(t) PROVE Ownership'
  <2>1. Owners' = Owners \ {t} /\ used' = used
    BY <1>8, AllocMoves DEF AllocReturn
  <2>2. \A u \in Owners \ {t} : slot'[u] = slot[u]
    BY <1>8 DEF AllocReturn, Forget, TypeOK, Owners
  <2>3. CASE pc[t] = "got"
    <3>1. t \in Owners /\ out' = out \cup {slot[t]}
      BY <1>8, <2>3 DEF AllocReturn, Owners
    <3> QED BY <2>1, <2>2, <3>1
  <2>4. CASE pc[t] = "null"
    <3>1. t \notin Owners /\ out' = out
      BY <1>8, <2>4 DEF AllocReturn, Owners
    <3> QED BY <2>1, <2>2, <3>1
  <2> QED BY <1>8, <2>3, <2>4 DEF AllocReturn
<1>9. ASSUME NEW t \in Threads, NEW i \in Slots, Write(t, i) PROVE Ownership'
  BY <1>9, Stayed DEF Write, Same
<1>10. ASSUME NEW t \in Threads, NEW i \in Slots, Release(t, i) PROVE Ownership'
  <2>1. Owners' = Owners \cup {t} /\ t \notin Owners
    BY <1>10, OtherMoves
  <2>2. slot'[t] = i /\ \A u \in Owners : slot'[u] = slot[u]
    BY <1>10, <2>1 DEF Release, TypeOK, Owners
  <2>3. i \in out /\ out' = out \ {i} /\ used' = used
    BY <1>10 DEF Release
  <2> QED BY <2>1, <2>2, <2>3
<1>11. ASSUME NEW t \in Threads, NEW n \in HeapNodes, AllocHeap(t, n) PROVE Ownership'
  BY <1>11, Stayed DEF AllocHeap, Same
<1>12. ASSUME NEW t \in Threads, NEW n \in HeapNodes, ReleaseHeap(t, n) PROVE Ownership'
  BY <1>12, Stayed DEF ReleaseHeap, Same
<1>13. ASSUME NEW t \in Threads, Free(t) PROVE Ownership'
  <2>1. Owners' = Owners \ {t} /\ t \in Owners
    BY <1>13, OtherMoves
  <2>2. \A u \in Owners \ {t} : slot'[u] = slot[u]
    BY <1>13 DEF Free, TypeOK, Owners
  <2>3. used' = used \ {slot[t]} /\ out' = out
    BY <1>13 DEF Free
  <2> QED BY <2>1, <2>2, <2>3
<1>14. ASSUME NEW t \in Threads, Destroy(t) PROVE Ownership'
  <2>1. Owners' = Owners
    BY <1>14, OtherMoves
  <2> QED BY <1>14, <2>1 DEF Destroy
<1>15. ASSUME NEW t \in Threads, Check(t) PROVE Ownership'
  <2>1. Owners' = Owners
    BY <1>15, OtherMoves
  <2> QED BY <1>15, <2>1 DEF Check
<1>16. ASSUME NEW t \in Threads, Teardown(t) PROVE Ownership'
  <2>1. Owners' = Owners
    BY <1>16, OtherMoves
  <2>2. used = {}
    BY <1>16 DEF Teardown, DestroyInv, Destroying
  <2> QED BY <1>16, <2>1, <2>2 DEF Teardown
<1> QED BY <1>1, <1>2, <1>3, <1>4, <1>5, <1>6, <1>7, <1>8, <1>9, <1>10, <1>11, <1>12,
           <1>13, <1>14, <1>15, <1>16 DEF Next

(* While a thread destroys, slots only become free.                        *)
LEMMA DestroyStep ==
    ASSUME TypeOK, CallInv, DestroyInv, Ownership, [Next]_vars
    PROVE  DestroyInv'
<1> USE DEF DestroyInv, poolVars, nodeVars, scanVars
<1>0. Destroying # {} => Allocating = {}
  OBVIOUS
<1>1. CASE UNCHANGED vars
  BY <1>1, Stayed DEF vars, Same
<1>2. ASSUME NEW t \in Threads, PoolInit(t) PROVE DestroyInv'
  BY <1>2, AllIdle, Stayed DEF PoolInit, Same
<1>3. ASSUME NEW t \in Threads, Attach(t) PROVE DestroyInv'
  BY <1>3, Stayed DEF Attach, Same
<1>4. ASSUME NEW t \in Threads, AllocStart(t) PROVE DestroyInv'
  <2>1. Destroying' = {}
    BY <1>4, AllocMoves DEF AllocStart
  <2> QED BY <2>1
<1>5. ASSUME NEW t \in Threads, Probe(t) PROVE DestroyInv'
  <2>1. t \in Allocating
    BY <1>5 DEF Probe, Allocating, AllocAt
  <2>2. Destroying' = {}
    BY <1>0, <1>5, <2>1, AllocMoves, Stayed DEF Probe, Taken, Same
  <2> QED BY <2>2
<1>6. ASSUME NEW t \in Threads, Exhausted(t) PROVE DestroyInv'
  <2>1. Destroying' = {}
    BY <1>0, <1>6, AllocMoves DEF Same
  <2> QED BY <2>1
<1>7. ASSUME NEW t \in Threads, Zero(t) PROVE DestroyInv'
  <2>1. Destroying' = {}
    BY <1>0, <1>7, AllocMoves DEF Same
  <2> QED BY <2>1
<1>8. ASSUME NEW t \in Threads, AllocReturn(t) PROVE DestroyInv'
  <2>1. Destroying' = {}
    BY <1>0, <1>8, AllocMoves
  <2> QED BY <2>1
<1>9. ASSUME NEW t \in Threads, NEW i \in Slots, Write(t, i) PROVE DestroyInv'
  BY <1>9, Stayed DEF Write, Same
<1>10. ASSUME NEW t \in Threads, NEW i \in Slots, Release(t, i) PROVE DestroyInv'
  <2>1. Allocating' = Allocating /\ Destroying' = Destroying
    BY <1>10, OtherMoves
  <2>2. \A u \in Destroying : pc'[u] = pc[u]
    BY <1>10 DEF Release, Goto, TypeOK, Destroying
  <2> QED BY <1>10, <2>1, <2>2 DEF Release
<1>11. ASSUME NEW t \in Threads, NEW n \in HeapNodes, AllocHeap(t, n) PROVE DestroyInv'
  BY <1>11, Stayed DEF AllocHeap, Same
<1>12. ASSUME NEW t \in Threads, NEW n \in HeapNodes, ReleaseHeap(t, n) PROVE DestroyInv'
  BY <1>12, Stayed DEF ReleaseHeap, Same
<1>13. ASSUME NEW t \in Threads, Free(t) PROVE DestroyInv'
  <2>1. Allocating' = Allocating /\ Destroying' = Destroying
    BY <1>13, OtherMoves
  <2>2. \A u \in Destroying : pc'[u] = pc[u]
    BY <1>13 DEF Free, Goto, TypeOK, Destroying
  <2>3. used' \subseteq used
    BY <1>13 DEF Free
  <2> QED BY <1>13, <2>1, <2>2, <2>3 DEF Free
<1>14. ASSUME NEW t \in Threads, Destroy(t) PROVE DestroyInv'
  <2>1. Allocating' = {} /\ Destroying' = {t}
    BY <1>14, OtherMoves DEF Destroy
  <2>2. tries'[t] = 0 /\ capacity' \in Nat
    BY <1>14, CapacityAssumption DEF Destroy, TypeOK
  <2>3. ASSUME pc'[t] = "teardown" PROVE used = {}
    <3>1. ~attached
      BY <1>14, <2>3 DEF Destroy, Goto, TypeOK
    <3>2. out \cup {slot[u] : u \in Releasing} = {}
      BY <1>14, <3>1 DEF Destroy
    <3>3. Owners \subseteq Releasing
      BY <1>14 DEF Destroy, Owners, Releasing, Allocating, AllocAt
    <3> QED BY <3>2, <3>3 DEF Ownership
  <2> QED BY <1>14, <2>1, <2>2, <2>3 DEF Destroy
<1>15. ASSUME NEW t \in Threads, Check(t) PROVE DestroyInv'
  <2>1. t \in Destroying /\ Allocating' = {} /\ Destroying' \subseteq {t}
    BY <1>15, OtherMoves
  <2>2. pc[t] = "check" /\ UNCHANGED <<capacity, slab, used>>
    BY <1>15 DEF Check
  <2>3. tries[t] <= capacity /\ used \cap (0 .. tries[t] - 1) = {} /\ (slab \/ capacity = 0)
    BY <2>1, <2>2
  <2>4. CASE tries[t] >= capacity
    <3>1. pc'[t] = "teardown"
      BY <1>15, <2>4 DEF Check, Goto, TypeOK
    <3>2. used = {}
      BY <2>3, <2>4, CapacityAssumption DEF CallInv, TypeOK, Slots
    <3> QED BY <2>1, <2>2, <2>3, <3>1, <3>2
  <2>5. CASE tries[t] < capacity /\ tries[t] \in used
    <3>1. pc'[t] = "idle"
      BY <1>15, <2>5, CapacityAssumption DEF Check, Goto, TypeOK
    <3> QED BY <2>1, <3>1 DEF Destroying
  <2>6. CASE tries[t] < capacity /\ tries[t] \notin used
    <3>1. tries'[t] = tries[t] + 1 /\ pc' = pc
      BY <1>15, <2>6, CapacityAssumption DEF Check, TypeOK
    <3>2. tries[t] \in Nat /\ capacity \in Nat
      BY CapacityAssumption DEF TypeOK
    <3>3. tries'[t] <= capacity' /\ used' \cap (0 .. tries'[t] - 1) = {}
      BY <2>2, <2>3, <2>6, <3>1, <3>2
    <3> QED BY <2>1, <2>2, <2>3, <3>1, <3>3
  <2>7. tries[t] \in Nat /\ capacity \in Nat
    BY CapacityAssumption DEF TypeOK
  <2> QED BY <2>4, <2>5, <2>6, <2>7
<1>16. ASSUME NEW t \in Threads, Teardown(t) PROVE DestroyInv'
  <2>1. Destroying' = {}
    BY <1>16, OtherMoves
  <2> QED BY <2>1
<1> QED BY <1>1, <1>2, <1>3, <1>4, <1>5, <1>6, <1>7, <1>8, <1>9, <1>10, <1>11, <1>12,
           <1>13, <1>14, <1>15, <1>16 DEF Next

(* Nobody writes the slot that alloc is about to return.                   *)
LEMMA ZeroedStep ==
    ASSUME TypeOK, CallInv, DestroyInv, Ownership, Zeroed, [Next]_vars
    PROVE  Zeroed'
<1> USE DEF Zeroed, poolVars, nodeVars, scanVars
<1>1. CASE UNCHANGED vars
  BY <1>1 DEF vars
<1>2. ASSUME NEW t \in Threads, PoolInit(t) PROVE Zeroed'
  BY <1>2 DEF PoolInit
<1>3. ASSUME NEW t \in Threads, Attach(t) PROVE Zeroed'
  BY <1>3 DEF Attach
<1>4. ASSUME NEW t \in Threads, AllocStart(t) PROVE Zeroed'
  BY <1>4 DEF AllocStart, Goto, TypeOK
<1>5. ASSUME NEW t \in Threads, Probe(t) PROVE Zeroed'
  BY <1>5 DEF Probe, Claim, Taken, Goto, TypeOK
<1>6. ASSUME NEW t \in Threads, Exhausted(t) PROVE Zeroed'
  BY <1>6 DEF Exhausted, Goto, TypeOK
<1>7. ASSUME NEW t \in Threads, Zero(t) PROVE Zeroed'
  BY <1>7 DEF Zero, Goto, TypeOK
<1>8. ASSUME NEW t \in Threads, AllocReturn(t) PROVE Zeroed'
  BY <1>8 DEF AllocReturn, Forget, Goto, TypeOK
<1>9. ASSUME NEW t \in Threads, NEW i \in Slots, Write(t, i) PROVE Zeroed'
  <2>1. \A u \in Threads : pc[u] = "got" => slot[u] # i
    BY <1>9 DEF Write, Ownership, Owners
  <2> QED BY <1>9, <2>1 DEF Write
<1>10. ASSUME NEW t \in Threads, NEW i \in Slots, Release(t, i) PROVE Zeroed'
  BY <1>10 DEF Release, Goto, TypeOK
<1>11. ASSUME NEW t \in Threads, NEW n \in HeapNodes, AllocHeap(t, n) PROVE Zeroed'
  BY <1>11 DEF AllocHeap
<1>12. ASSUME NEW t \in Threads, NEW n \in HeapNodes, ReleaseHeap(t, n) PROVE Zeroed'
  BY <1>12 DEF ReleaseHeap
<1>13. ASSUME NEW t \in Threads, Free(t) PROVE Zeroed'
  BY <1>13 DEF Free, Goto, TypeOK
<1>14. ASSUME NEW t \in Threads, Destroy(t) PROVE Zeroed'
  BY <1>14 DEF Destroy, Goto, TypeOK
<1>15. ASSUME NEW t \in Threads, Check(t) PROVE Zeroed'
  BY <1>15 DEF Check, Goto, TypeOK
<1>16. ASSUME NEW t \in Threads, Teardown(t) PROVE Zeroed'
  BY <1>16 DEF Teardown, Goto, TypeOK
<1> QED BY <1>1, <1>2, <1>3, <1>4, <1>5, <1>6, <1>7, <1>8, <1>9, <1>10, <1>11, <1>12,
           <1>13, <1>14, <1>15, <1>16 DEF Next

(* A step of another thread, or one that is not part of the scan.          *)
LEMMA MetKept ==
    ASSUME NEW t \in Threads, Straight(t) => Met(t),
           pc'[t] = pc[t], start'[t] = start[t], cap'[t] = cap[t], tries'[t] = tries[t],
           seen'[t] = seen[t], pc[t] = "probe" => used' \subseteq used
    PROVE  (Straight(t) => Met(t))'
BY DEF Straight, Met

LEMMA ScanStep ==
    ASSUME TypeOK, CallInv, DestroyInv, ScanInv, [Next]_vars
    PROVE  ScanInv'
<1> DEFINE Good(u) == Straight(u) => Met(u)
<1>0. \A u \in Threads : Good(u)
  BY DEF ScanInv
<1> SUFFICES ASSUME NEW u \in Threads PROVE Good(u)'
  BY DEF ScanInv
<1> USE <1>0 DEF poolVars, nodeVars, scanVars
<1>1. CASE UNCHANGED vars
  BY <1>1, MetKept DEF vars
<1>2. ASSUME NEW t \in Threads, PoolInit(t) PROVE Good(u)'
  <2>1. pc[u] = "idle"
    BY <1>2 DEF PoolInit
  <2> QED BY <1>2, <2>1, MetKept DEF PoolInit
<1>3. ASSUME NEW t \in Threads, Attach(t) PROVE Good(u)'
  BY <1>3, MetKept DEF Attach
<1>4. ASSUME NEW t \in Threads, AllocStart(t) PROVE Good(u)'
  <2>1. CASE u = t
    <3>1. pc'[t] = "probe" /\ tries'[t] = 0 /\ seen'[t] = used'
      BY <1>4 DEF AllocStart, Goto, TypeOK
    <3>2. Met(t)'
      BY <3>1 DEF Met
    <3> QED BY <2>1, <3>2
  <2>2. CASE u # t
    BY <1>4, <2>2, MetKept DEF AllocStart, Goto, TypeOK
  <2> QED BY <2>1, <2>2
<1>5. ASSUME NEW t \in Threads, Probe(t) PROVE Good(u)'
  <2>0. UNCHANGED <<start, cap>>
    BY <1>5 DEF Probe
  <2>1. ASSUME Claim(t), u = t PROVE Good(u)'
    <3>1. pc'[t] = "zero"
      BY <2>1 DEF Claim, Goto, TypeOK
    <3> QED BY <2>1, <3>1 DEF Met
  <2>2. ASSUME Claim(t), u # t PROVE Good(u)'
    <3>1. pc'[u] = pc[u] /\ tries'[u] = tries[u] /\ used' = used \cup {Probed(t)}
      BY <2>2 DEF Claim, Goto, TypeOK
    <3>2. seen[u] \subseteq seen'[u]
      BY <2>2 DEF Claim
    <3>3. pc[u] = "probe" => Probed(t) \in seen'[u]
      BY <2>2 DEF Claim, Allocating, AllocAt
    <3>4. Straight(u)' => Straight(u)
      BY <2>0 DEF Straight
    <3>5. Met(u) => Met(u)'
      BY <2>0, <3>1, <3>2, <3>3 DEF Met
    <3> QED BY <3>4, <3>5
  <2>3. ASSUME Taken(t), u = t, Straight(t)' PROVE Met(t)'
    <3>1. /\ pc[t] = "probe" /\ pc' = pc /\ UNCHANGED <<used, seen>>
          /\ tries'[t] = tries[t] + 1 /\ tries[t] < cap[t]
          /\ Probed(t) \in used
      BY <1>5, <2>3 DEF Probe, Taken, TypeOK
    <3>2. /\ start[t] \in Nat /\ tries[t] \in Nat /\ cap[t] \in Nat
          /\ start[t] + cap[t] <= CursorLimit /\ CursorLimit \in Nat \ {0}
      BY <2>0, <2>3, CapacityAssumption, CursorAssumption DEF Straight, TypeOK
    <3>3. (start[t] + tries[t]) % CursorLimit = start[t] + tries[t]
      <4>1. start[t] + tries[t] \in 0 .. CursorLimit - 1
        BY <3>1, <3>2
      <4> QED BY <3>2, <4>1
    <3>4. (start[t] + tries[t]) % cap[t] \in used
      BY <3>1, <3>3 DEF Probed
    <3>5. Met(t)
      BY <2>0, <2>3 DEF Straight
    <3>6. \A k \in 0 .. tries'[t] - 1 : k \in 0 .. tries[t] - 1 \/ k = tries[t]
      BY <3>1, <3>2
    <3>7. \A k \in 0 .. tries'[t] - 1 : (start[t] + k) % cap[t] \in seen[t]
      BY <3>1, <3>4, <3>5, <3>6 DEF Met
    <3> QED BY <2>0, <3>1, <3>5, <3>7 DEF Met
  <2>4. ASSUME Taken(t), u # t PROVE Good(u)'
    <3>1. tries'[u] = tries[u] /\ UNCHANGED <<pc, used, seen>>
      BY <2>4 DEF Taken, TypeOK
    <3> QED BY <2>0, <3>1, MetKept
  <2> QED BY <1>5, <2>1, <2>2, <2>3, <2>4 DEF Probe
<1>6. ASSUME NEW t \in Threads, Exhausted(t) PROVE Good(u)'
  <2>1. CASE u = t
    <3>1. /\ pc[t] = "probe" /\ pc'[t] = "null" /\ tries[t] >= cap[t]
          /\ UNCHANGED <<start, cap, seen>>
      BY <1>6 DEF Exhausted, Goto, TypeOK
    <3>2. tries[t] \in Nat /\ cap[t] \in Nat
      BY CapacityAssumption DEF TypeOK
    <3>3. \A k \in 0 .. cap[t] - 1 : k \in 0 .. tries[t] - 1
      BY <3>1, <3>2
    <3>4. Met(t) => Met(t)'
      BY <3>1, <3>3 DEF Met
    <3>5. Straight(t)' => Straight(t)
      BY <3>1 DEF Straight
    <3> QED BY <2>1, <3>4, <3>5
  <2>2. CASE u # t
    BY <1>6, <2>2, MetKept DEF Exhausted, Goto, TypeOK
  <2> QED BY <2>1, <2>2
<1>7. ASSUME NEW t \in Threads, Zero(t) PROVE Good(u)'
  <2>1. CASE u = t
    BY <1>7, <2>1 DEF Zero, Goto, TypeOK, Met
  <2>2. CASE u # t
    BY <1>7, <2>2, MetKept DEF Zero, Goto, TypeOK
  <2> QED BY <2>1, <2>2
<1>8. ASSUME NEW t \in Threads, AllocReturn(t) PROVE Good(u)'
  <2>1. CASE u = t
    BY <1>8, <2>1 DEF AllocReturn, Forget, Goto, TypeOK, Met
  <2>2. CASE u # t
    BY <1>8, <2>2, MetKept DEF AllocReturn, Forget, Goto, TypeOK
  <2> QED BY <2>1, <2>2
<1>9. ASSUME NEW t \in Threads, NEW i \in Slots, Write(t, i) PROVE Good(u)'
  BY <1>9, MetKept DEF Write
<1>10. ASSUME NEW t \in Threads, NEW i \in Slots, Release(t, i) PROVE Good(u)'
  <2>1. CASE u = t
    BY <1>10, <2>1 DEF Release, Goto, TypeOK, Met
  <2>2. CASE u # t
    BY <1>10, <2>2, MetKept DEF Release, Goto, TypeOK
  <2> QED BY <2>1, <2>2
<1>11. ASSUME NEW t \in Threads, NEW n \in HeapNodes, AllocHeap(t, n) PROVE Good(u)'
  BY <1>11, MetKept DEF AllocHeap
<1>12. ASSUME NEW t \in Threads, NEW n \in HeapNodes, ReleaseHeap(t, n) PROVE Good(u)'
  BY <1>12, MetKept DEF ReleaseHeap
<1>13. ASSUME NEW t \in Threads, Free(t) PROVE Good(u)'
  <2>1. CASE u = t
    BY <1>13, <2>1 DEF Free, Goto, TypeOK, Met
  <2>2. CASE u # t
    BY <1>13, <2>2, MetKept DEF Free, Goto, TypeOK
  <2> QED BY <2>1, <2>2
<1>14. ASSUME NEW t \in Threads, Destroy(t) PROVE Good(u)'
  <2>1. CASE u = t
    BY <1>14, <2>1 DEF Destroy, Goto, TypeOK, Met
  <2>2. CASE u # t
    BY <1>14, <2>2, MetKept DEF Destroy, Goto, TypeOK
  <2> QED BY <2>1, <2>2
<1>15. ASSUME NEW t \in Threads, Check(t) PROVE Good(u)'
  <2>1. CASE u = t
    BY <1>15, <2>1 DEF Check, Goto, TypeOK, Met
  <2>2. CASE u # t
    <3>1. pc'[u] = pc[u] /\ tries'[u] = tries[u]
      BY <1>15, <2>2 DEF Check, Goto, TypeOK
    <3> QED BY <1>15, <3>1, MetKept DEF Check
  <2> QED BY <2>1, <2>2
<1>16. ASSUME NEW t \in Threads, Teardown(t) PROVE Good(u)'
  <2>1. CASE u = t
    BY <1>16, <2>1 DEF Teardown, Goto, TypeOK, Met
  <2>2. CASE u # t
    BY <1>16, <2>2, MetKept DEF Teardown, Goto, TypeOK
  <2> QED BY <2>1, <2>2
<1> QED BY <1>1, <1>2, <1>3, <1>4, <1>5, <1>6, <1>7, <1>8, <1>9, <1>10, <1>11, <1>12,
           <1>13, <1>14, <1>15, <1>16 DEF Next

-----------------------------------------------------------------------------
LEMMA InitInv == Init => IInv
<1> SUFFICES ASSUME Init PROVE IInv
  OBVIOUS
<1> USE DEF Init
<1>1. TypeOK
  <2>1. 0 \in 0 .. CursorLimit - 1 /\ 0 \in 0 .. Capacity
    BY CapacityAssumption, CursorAssumption
  <2>2. slab \in BOOLEAN /\ attached \in BOOLEAN
    OBVIOUS
  <2>3. /\ pc \in [Threads -> PCs] /\ cap \in [Threads -> {0, Capacity}]
        /\ start \in [Threads -> 0 .. CursorLimit - 1] /\ tries \in [Threads -> 0 .. Capacity]
        /\ slot \in [Threads -> Slots \cup {NoSlot}] /\ seen \in [Threads -> SUBSET Slots]
    BY <2>1 DEF PCs
  <2> QED BY <2>1, <2>2, <2>3 DEF TypeOK
<1>2. Allocating = {} /\ Destroying = {} /\ Owners = {}
  BY AllIdle
<1>3. CallInv /\ DestroyInv /\ Ownership
  BY <1>2 DEF CallInv, DestroyInv, Ownership
<1>4. Zeroed /\ ScanInv
  BY DEF Zeroed, ScanInv, Met
<1> QED BY <1>1, <1>3, <1>4 DEF IInv

LEMMA Inductive == IInv /\ [Next]_vars => IInv'
<1> SUFFICES ASSUME IInv, [Next]_vars PROVE IInv'
  OBVIOUS
<1> USE DEF IInv
<1>1. TypeOK'
  BY TypeStep
<1>2. CallInv' /\ DestroyInv' /\ Ownership'
  BY CallStep, DestroyStep, OwnershipStep
<1>3. Zeroed' /\ ScanInv'
  BY ZeroedStep, ScanStep
<1> QED BY <1>1, <1>2, <1>3

LEMMA Always == Spec => []IInv
BY InitInv, Inductive, PTL DEF Spec

(* A scan that has tried capacity slots without wrapping has seen them all *)
(* used, at one moment or another.                                         *)
LEMMA NullFromScan == TypeOK /\ ScanInv => NullJustified
<1> SUFFICES ASSUME TypeOK, ScanInv, NEW t \in Threads, pc[t] = "null",
                    start[t] + cap[t] <= CursorLimit, NEW i \in 0 .. cap[t] - 1
             PROVE  i \in seen[t]
  BY DEF NullJustified
<1>1. start[t] \in Nat /\ cap[t] \in Nat \ {0}
  BY CapacityAssumption DEF TypeOK
<1>2. PICK k \in 0 .. cap[t] - 1 : (start[t] + k) % cap[t] = i
  BY <1>1, EverySlotTried
<1>3. (start[t] + k) % cap[t] \in seen[t]
  BY DEF ScanInv, Straight, Met
<1> QED BY <1>2, <1>3

LEMMA SlabFromCall == CallInv /\ Ownership => SlabKept
<1> SUFFICES ASSUME CallInv, Ownership, ~slab PROVE out = {} /\ Owners = {}
  BY DEF SlabKept
<1>1. used = {}
  BY DEF CallInv
<1> QED BY <1>1 DEF Ownership

(* The pool's words and the threads' locals keep their types.              *)
THEOREM TypeCorrect == Spec => []TypeOK
BY Always, PTL DEF IInv

(* A slot is used exactly while one owner has it (sl.h:4551, 4574).        *)
THEOREM OneOwner == Spec => []Ownership
BY Always, PTL DEF IInv

(* Alloc returns zeroed nodes (sl.h:4553).                                 *)
THEOREM NodesZeroed == Spec => []Zeroed
BY Always, PTL DEF IInv

(* NULL means that each slot was used during the call (sl.h:4560).         *)
THEOREM NullMeansFull == Spec => []NullJustified
<1>1. IInv => NullJustified
  BY NullFromScan DEF IInv
<1> QED BY <1>1, Always, PTL

(* An attached pool outlives its nodes (sl.h:4596-4600).                   *)
THEOREM SlabOutlives == Spec => []SlabKept
<1>1. IInv => SlabKept
  BY SlabFromCall DEF IInv
<1> QED BY <1>1, Always, PTL
=============================================================================
