------------------------------ MODULE EbrProof ------------------------------
(***************************************************************************)
(* Ebr frees no node that a thread pinned at its retirement may still      *)
(* hold, for every number of threads, slots and nodes.                     *)
(*                                                                         *)
(* The argument: a thread that advances the epoch from e has seen every    *)
(* pinned thread at e (ScanInv), so the epoch never runs ahead of a pinned *)
(* thread by more than one (LagInv).  A pinned thread that waits on a node *)
(* has a local epoch no later than the node's tag (GraceInv), so it holds  *)
(* the epoch below tag + 2; and a thread about to free a bucket has moved  *)
(* the epoch two past every tag in it.                                     *)
(***************************************************************************)
EXTENDS Ebr, TLAPS

Owns(t) == tid[t] # NoSlot

(* Who owns which slot, and what the slot announces.                       *)
SlotInv ==
    /\ SlotOwnership
    /\ \A t \in Threads : Owns(t) =>
          /\ tid[t] \in inUse
          /\ tid[t] \in active <=> pc[t] \in ActiveAt
          /\ pc[t] \notin {"reset", "raise"} => tid[t] < threadCount
    /\ \A t \in Threads :
          /\ pc[t] \notin {"idle", "claim"} => Owns(t)
          /\ pc[t] = "claim" => ~ Owns(t) /\ idx[t] < MaxThreads
    /\ active \subseteq inUse

(* Epochs that have been read are in the past.                             *)
PastInv ==
    /\ \A s \in Slots : localEpoch[s] <= globalEpoch
    /\ \A t \in Threads :
          /\ pc[t] = "publish" =>
                localEpoch[tid[t]] <= epoch[t] /\ epoch[t] <= globalEpoch
          /\ pc[t] \in {"count", "scan", "local"} =>
                1 <= epoch[t] /\ epoch[t] <= globalEpoch
    /\ \A n \in Nodes : tag[n] <= globalEpoch

LagInv ==
    /\ EpochLag
    /\ \A t \in Threads : pc[t] = "publish" => globalEpoch <= epoch[t] + 1

(* The slots a scan has dealt with: those below its index, and those above *)
(* the high-water mark it read.                                            *)
Passed(u, s) == s < idx[u] \/ tc[u] <= s

ScanInv ==
    \A u, t \in Threads :
        pc[u] \in {"scan", "local"} /\ Owns(t) /\ Passed(u, tid[t]) =>
            /\ pc[t] = "publish" => epoch[u] <= epoch[t]
            /\ pc[t] \in PinnedAt => epoch[u] <= localEpoch[tid[t]]

(* A thread that has bumped the epoch holds it there until it is done.     *)
TakeInv ==
    \A t \in Threads : pc[t] \in {"take", "detach", "clear"} =>
        /\ 1 <= epoch[t]
        /\ globalEpoch = epoch[t] + 1
        /\ localEpoch[tid[t]] <= epoch[t]

GraceInv ==
    \A n \in Nodes, t \in Threads : t \in waiting[n] =>
        pc[t] \in PinnedAt /\ localEpoch[tid[t]] <= tag[n]

(* What a thread in a given place has in hand.                             *)
HandInv ==
    /\ \A n \in Nodes, b \in Buckets : n \in retireLists[b] =>
          status[n] = "retired" /\ tag[n] % 3 = b
    /\ \A n \in Nodes, t \in Threads : n \in hand[t] =>
          /\ status[n] = "retired"
          /\ pc[t] \in {"push", "link", "append", "clear", "free"}
          /\ pc[t] \in {"push", "link", "append"} => tag[n] % 3 = epoch[t] % 3
          /\ pc[t] \in {"clear", "free"} => tag[n] + 2 <= globalEpoch
    /\ NoUseAfterFree

(* The retire lists change only under their locks.                         *)
HoldsLock(t, b) ==
    \/ pc[t] \in {"link", "append"} /\ b = epoch[t] % 3
    \/ pc[t] \in {"detach", "clear"} /\ b = OldBucket(t)

LockExclusive ==
    \A t \in Threads, b \in Buckets : HoldsLock(t, b) =>
        /\ b \in retireLocks
        /\ \A u \in Threads : HoldsLock(u, b) => u = t

HandOnList ==
    \A n \in Nodes, t \in Threads, b \in Buckets :
        n \in hand[t] /\ n \in retireLists[b] =>
            HoldsLock(t, b) /\ pc[t] \in {"append", "clear"}

HandsApart ==
    \A n \in Nodes, t, u \in Threads :
        n \in hand[t] /\ n \in hand[u] => t = u

SpliceInv ==
    \A t \in Threads :
        /\ pc[t] = "append" => retireLists[epoch[t] % 3] \subseteq hand[t]
        /\ pc[t] = "clear" => retireLists[OldBucket(t)] = hand[t]

LockInv == LockExclusive /\ HandOnList /\ HandsApart /\ SpliceInv /\ NothingLost

IInv == TypeOK /\ SlotInv /\ PastInv /\ LagInv /\ ScanInv /\ TakeInv
        /\ GraceInv /\ HandInv /\ LockInv
LEMMA BucketIndex == \A e \in Int : e % 3 \in Buckets
BY DEF Buckets

(* A thread that is past registration owns a slot, and nobody shares it.   *)
LEMMA SlotFacts ==
    ASSUME TypeOK, SlotInv
    PROVE  /\ \A u \in Threads :
                 pc[u] \notin {"idle", "claim"} => tid[u] \in Slots /\ Owns(u)
           /\ \A u, v \in Threads : tid[u] \in Slots /\ tid[u] = tid[v] => u = v
<1>1. \A u \in Threads : tid[u] \in Slots \cup {NoSlot}
  BY DEF TypeOK
<1>2. NoSlot \notin Slots
  BY DEF Slots, NoSlot
<1>3. \A u \in Threads : pc[u] \notin {"idle", "claim"} => Owns(u)
  BY DEF SlotInv
<1>4. SlotOwnership
  BY DEF SlotInv
<1> QED BY <1>1, <1>2, <1>3, <1>4 DEF SlotOwnership, Owns

LEMMA TypeStep ==
    ASSUME TypeOK, SlotInv, [Next]_vars
    PROVE  TypeOK'
<1> USE DEF TypeOK, PCs, ActiveAt, PinnedAt, Goto, slotVars, bucketVars, localVars, nodeVars
<1>1. CASE UNCHANGED vars
  BY <1>1 DEF vars
<1>2. CASE Drain
  BY <1>2 DEF Drain
<1>3. ASSUME NEW t \in Threads, Step(t) PROVE TypeOK'
  <2>1. CASE RegisterClaim(t)
    <3>1. idx[t] \in Slots
      BY <2>1, MaxThreadsAssumption DEF RegisterClaim, SlotInv, Slots
    <3>2. tid' \in [Threads -> Slots \cup {NoSlot}] /\ inUse' \subseteq Slots
      BY <2>1, <3>1 DEF RegisterClaim
    <3> QED BY <2>1, <3>2 DEF RegisterClaim
  <2>2. CASE RegisterSkip(t)
    BY <2>2 DEF RegisterSkip
  <2>3. CASE RegisterReset(t)
    BY <2>3 DEF RegisterReset
  <2>4. CASE RegisterRaise(t)
    <3>1. tid[t] \in 0 .. MaxThreads - 1
      BY <2>4, MaxThreadsAssumption DEF RegisterRaise, SlotInv, Owns, Slots
    <3>2. threadCount' = tid[t] + 1 \/ threadCount' = threadCount
      BY ONLY <2>4 DEF RegisterRaise
    <3>3. threadCount' \in 0 .. MaxThreads
      BY <3>1, <3>2, MaxThreadsAssumption
    <3> QED BY <2>4, <3>3 DEF RegisterRaise
  <2>5. CASE UnregisterRelease(t)
    BY <2>5 DEF UnregisterRelease
  <2>6. CASE PinRead(t)
    BY <2>6 DEF PinRead
  <2>7. CASE PinPublish(t)
    <3>1. localEpoch' \in [Slots -> Nat]
      BY <2>7 DEF PinPublish
    <3>2. pc' \in [Threads -> PCs]
      BY <2>7 DEF PinPublish
    <3> QED BY <2>7, <3>1, <3>2 DEF PinPublish
  <2>8. CASE PushLock(t)
    BY <2>8, BucketIndex DEF PushLock, Lock
  <2>9. CASE PushLink(t)
    BY <2>9, BucketIndex DEF PushLink
  <2>10. CASE PushUnlock(t)
    BY <2>10 DEF PushUnlock
  <2>11. CASE AdvanceLoad(t)
    BY <2>11 DEF AdvanceLoad
  <2>12. CASE AdvanceCount(t)
    BY <2>12 DEF AdvanceCount
  <2>13. CASE ScanActive(t)
    BY <2>13 DEF ScanActive
  <2>14. CASE ScanLocal(t)
    BY <2>14 DEF ScanLocal
  <2>15. CASE AdvanceCas(t)
    BY <2>15 DEF AdvanceCas
  <2>16. CASE TakeLock(t)
    BY <2>16, BucketIndex DEF TakeLock, Lock, OldBucket
  <2>17. CASE TakeList(t)
    BY <2>17, BucketIndex DEF TakeList, OldBucket
  <2>18. CASE TakeUnlock(t)
    BY <2>18 DEF TakeUnlock, OldBucket
  <2>19. ASSUME NEW n \in Nodes, FreeOne(t, n) PROVE TypeOK'
    BY <2>19 DEF FreeOne
  <2>20. CASE FreeDone(t)
    BY <2>20 DEF FreeDone
  <2> QED BY ONLY <1>3, <2>1, <2>2, <2>3, <2>4, <2>5, <2>6, <2>7, <2>8, <2>9, <2>10, <2>11, <2>12, <2>13, <2>14, <2>15, <2>16, <2>17, <2>18, <2>19, <2>20 DEF Step
<1>4. ASSUME NEW t \in Threads, Call(t) PROVE TypeOK'
  <2>1. CASE RegisterStart(t)
    BY <2>1 DEF RegisterStart
  <2>2. CASE UnregisterClear(t)
    BY <2>2 DEF UnregisterClear
  <2>3. CASE PinAnnounce(t)
    BY <2>3 DEF PinAnnounce, Registered
  <2>4. CASE Unpin(t)
    BY <2>4 DEF Unpin, Registered
  <2>5. ASSUME NEW n \in Nodes, Retire(t, n) PROVE TypeOK'
    BY <2>5 DEF Retire, PinnedThreads
  <2> QED BY ONLY <1>4, <2>1, <2>2, <2>3, <2>4, <2>5 DEF Call
<1> QED BY <1>1, <1>2, <1>3, <1>4 DEF Next

(* A step that moves no thread into or out of the places that SlotInv tells *)
(* apart, and leaves the slots alone, keeps SlotInv.                        *)
LEMMA SlotKept ==
    ASSUME SlotInv, UNCHANGED <<tid, inUse, active, threadCount>>,
           \A u \in Threads :
             /\ pc'[u] \in ActiveAt <=> pc[u] \in ActiveAt
             /\ pc'[u] \in {"reset", "raise"} <=> pc[u] \in {"reset", "raise"}
             /\ pc'[u] \in {"idle", "claim"} <=> pc[u] \in {"idle", "claim"}
             /\ pc'[u] = "claim" => pc[u] = "claim" /\ idx'[u] = idx[u]
    PROVE  SlotInv'
<1>1. SlotOwnership' /\ active' \subseteq inUse'
  BY DEF SlotInv, SlotOwnership
<1>2. \A u \in Threads : Owns(u)' <=> Owns(u)
  BY DEF Owns
<1>3. \A u \in Threads :
        Owns(u)' => /\ tid'[u] \in inUse'
                    /\ tid'[u] \in active' <=> pc'[u] \in ActiveAt
                    /\ pc'[u] \notin {"reset", "raise"} => tid'[u] < threadCount'
  BY <1>2 DEF SlotInv
<1>4. \A u \in Threads :
        /\ pc'[u] \notin {"idle", "claim"} => Owns(u)'
        /\ pc'[u] = "claim" => ~ Owns(u)' /\ idx'[u] < MaxThreads
  BY <1>2 DEF SlotInv
<1> QED BY <1>1, <1>3, <1>4 DEF SlotInv

LEMMA SlotStep ==
    ASSUME TypeOK, SlotInv, [Next]_vars
    PROVE  SlotInv'
<1> USE DEF TypeOK, Slots, NoSlot, SlotInv, Owns, SlotOwnership, PCs, ActiveAt, PinnedAt, Goto, slotVars, bucketVars, localVars, nodeVars
<1>1. CASE UNCHANGED vars
  BY <1>1 DEF vars
<1>2. CASE Drain
  BY <1>2 DEF Drain
<1>3. ASSUME NEW t \in Threads, Step(t) PROVE SlotInv'
  <2>1. CASE RegisterClaim(t)
    BY <2>1 DEF RegisterClaim
  <2>2. CASE RegisterSkip(t)
    BY <2>2 DEF RegisterSkip
  <2>3. CASE RegisterReset(t)
    BY <2>3 DEF RegisterReset
  <2>4. CASE RegisterRaise(t)
    BY <2>4 DEF RegisterRaise
  <2>5. CASE UnregisterRelease(t)
    BY <2>5 DEF UnregisterRelease
  <2>6. CASE PinRead(t)
    BY <2>6 DEF PinRead
  <2>7. CASE PinPublish(t)
    BY <2>7 DEF PinPublish
  <2>8. CASE PushLock(t)
    <3>1. pc[t] \in PinnedAt /\ pc'[t] \in PinnedAt
      BY <2>8 DEF PushLock, Lock
    <3>2. \A u \in Threads : u # t => pc'[u] = pc[u] /\ idx'[u] = idx[u]
      BY <2>8 DEF PushLock, Lock
    <3>3. UNCHANGED <<tid, inUse, active, threadCount>>
      BY <2>8 DEF PushLock, Lock
    <3> HIDE DEF TypeOK, SlotInv
    <3> QED BY <3>1, <3>2, <3>3, SlotKept
  <2>9. CASE PushLink(t)
    <3>1. pc[t] = "link" /\ pc'[t] = "append"
      BY <2>9 DEF PushLink
    <3>2. \A u \in Threads : u # t => pc'[u] = pc[u] /\ idx'[u] = idx[u]
      BY <2>9 DEF PushLink
    <3>3. UNCHANGED <<tid, inUse, active, threadCount>>
      BY <2>9 DEF PushLink
    <3> HIDE DEF TypeOK, SlotInv
    <3> QED BY <3>1, <3>2, <3>3, SlotKept
  <2>10. CASE PushUnlock(t)
    <3>1. pc[t] = "append" /\ pc'[t] = "load"
      BY <2>10 DEF PushUnlock
    <3>2. \A u \in Threads : u # t => pc'[u] = pc[u] /\ idx'[u] = idx[u]
      BY <2>10 DEF PushUnlock
    <3>3. UNCHANGED <<tid, inUse, active, threadCount>>
      BY <2>10 DEF PushUnlock
    <3> HIDE DEF TypeOK, SlotInv
    <3> QED BY <3>1, <3>2, <3>3, SlotKept
  <2>11. CASE AdvanceLoad(t)
    <3>1. pc[t] = "load" /\ pc'[t] = "count"
      BY <2>11 DEF AdvanceLoad
    <3>2. \A u \in Threads : u # t => pc'[u] = pc[u] /\ idx'[u] = idx[u]
      BY <2>11 DEF AdvanceLoad
    <3>3. UNCHANGED <<tid, inUse, active, threadCount>>
      BY <2>11 DEF AdvanceLoad
    <3> HIDE DEF TypeOK, SlotInv
    <3> QED BY <3>1, <3>2, <3>3, SlotKept
  <2>12. CASE AdvanceCount(t)
    <3>1. pc[t] = "count" /\ pc'[t] = "scan"
      BY <2>12 DEF AdvanceCount
    <3>2. \A u \in Threads : u # t => pc'[u] = pc[u] /\ idx'[u] = idx[u]
      BY <2>12 DEF AdvanceCount
    <3>3. UNCHANGED <<tid, inUse, active, threadCount>>
      BY <2>12 DEF AdvanceCount
    <3> HIDE DEF TypeOK, SlotInv
    <3> QED BY <3>1, <3>2, <3>3, SlotKept
  <2>13. CASE ScanActive(t)
    <3>1. pc[t] \in PinnedAt /\ pc'[t] \in PinnedAt
      BY <2>13 DEF ScanActive
    <3>2. \A u \in Threads : u # t => pc'[u] = pc[u] /\ idx'[u] = idx[u]
      BY <2>13 DEF ScanActive
    <3>3. UNCHANGED <<tid, inUse, active, threadCount>>
      BY <2>13 DEF ScanActive
    <3> HIDE DEF TypeOK, SlotInv
    <3> QED BY <3>1, <3>2, <3>3, SlotKept
  <2>14. CASE ScanLocal(t)
    <3>1. pc[t] \in PinnedAt /\ pc'[t] \in PinnedAt
      BY <2>14 DEF ScanLocal
    <3>2. \A u \in Threads : u # t => pc'[u] = pc[u] /\ idx'[u] = idx[u]
      BY <2>14 DEF ScanLocal
    <3>3. UNCHANGED <<tid, inUse, active, threadCount>>
      BY <2>14 DEF ScanLocal
    <3> HIDE DEF TypeOK, SlotInv
    <3> QED BY <3>1, <3>2, <3>3, SlotKept
  <2>15. CASE AdvanceCas(t)
    <3>1. pc[t] \in PinnedAt /\ pc'[t] \in PinnedAt
      BY <2>15 DEF AdvanceCas
    <3>2. \A u \in Threads : u # t => pc'[u] = pc[u] /\ idx'[u] = idx[u]
      BY <2>15 DEF AdvanceCas
    <3>3. UNCHANGED <<tid, inUse, active, threadCount>>
      BY <2>15 DEF AdvanceCas
    <3> HIDE DEF TypeOK, SlotInv
    <3> QED BY <3>1, <3>2, <3>3, SlotKept
  <2>16. CASE TakeLock(t)
    <3>1. pc[t] \in PinnedAt /\ pc'[t] \in PinnedAt
      BY <2>16 DEF TakeLock, Lock
    <3>2. \A u \in Threads : u # t => pc'[u] = pc[u] /\ idx'[u] = idx[u]
      BY <2>16 DEF TakeLock, Lock
    <3>3. UNCHANGED <<tid, inUse, active, threadCount>>
      BY <2>16 DEF TakeLock, Lock
    <3> HIDE DEF TypeOK, SlotInv
    <3> QED BY <3>1, <3>2, <3>3, SlotKept
  <2>17. CASE TakeList(t)
    <3>1. pc[t] \in PinnedAt /\ pc'[t] \in PinnedAt
      BY <2>17 DEF TakeList
    <3>2. \A u \in Threads : u # t => pc'[u] = pc[u] /\ idx'[u] = idx[u]
      BY <2>17 DEF TakeList
    <3>3. UNCHANGED <<tid, inUse, active, threadCount>>
      BY <2>17 DEF TakeList
    <3> HIDE DEF TypeOK, SlotInv
    <3> QED BY <3>1, <3>2, <3>3, SlotKept
  <2>18. CASE TakeUnlock(t)
    <3>1. pc[t] \in PinnedAt /\ pc'[t] \in PinnedAt
      BY <2>18 DEF TakeUnlock
    <3>2. \A u \in Threads : u # t => pc'[u] = pc[u] /\ idx'[u] = idx[u]
      BY <2>18 DEF TakeUnlock
    <3>3. UNCHANGED <<tid, inUse, active, threadCount>>
      BY <2>18 DEF TakeUnlock
    <3> HIDE DEF TypeOK, SlotInv
    <3> QED BY <3>1, <3>2, <3>3, SlotKept
  <2>19. ASSUME NEW n \in Nodes, FreeOne(t, n) PROVE SlotInv'
    <3>1. pc[t] \in PinnedAt /\ pc'[t] \in PinnedAt
      BY <2>19 DEF FreeOne
    <3>2. \A u \in Threads : u # t => pc'[u] = pc[u] /\ idx'[u] = idx[u]
      BY <2>19 DEF FreeOne
    <3>3. UNCHANGED <<tid, inUse, active, threadCount>>
      BY <2>19 DEF FreeOne
    <3> HIDE DEF TypeOK, SlotInv
    <3> QED BY <3>1, <3>2, <3>3, SlotKept
  <2>20. CASE FreeDone(t)
    <3>1. pc[t] \in PinnedAt /\ pc'[t] \in PinnedAt
      BY <2>20 DEF FreeDone
    <3>2. \A u \in Threads : u # t => pc'[u] = pc[u] /\ idx'[u] = idx[u]
      BY <2>20 DEF FreeDone
    <3>3. UNCHANGED <<tid, inUse, active, threadCount>>
      BY <2>20 DEF FreeDone
    <3> HIDE DEF TypeOK, SlotInv
    <3> QED BY <3>1, <3>2, <3>3, SlotKept
  <2> QED BY ONLY <1>3, <2>1, <2>2, <2>3, <2>4, <2>5, <2>6, <2>7, <2>8, <2>9, <2>10, <2>11, <2>12, <2>13, <2>14, <2>15, <2>16, <2>17, <2>18, <2>19, <2>20 DEF Step
<1>4. ASSUME NEW t \in Threads, Call(t) PROVE SlotInv'
  <2>1. CASE RegisterStart(t)
    <3>1. pc[t] = "idle" /\ pc'[t] = "claim" /\ idx'[t] = 0 /\ ~ Owns(t)
      BY <2>1 DEF RegisterStart
    <3>2. \A u \in Threads : u # t => pc'[u] = pc[u] /\ idx'[u] = idx[u]
      BY <2>1 DEF RegisterStart
    <3>3. UNCHANGED <<tid, inUse, active, threadCount>>
      BY <2>1 DEF RegisterStart
    <3>4. SlotOwnership' /\ active' \subseteq inUse'
      BY <3>3
    <3>5. \A u \in Threads :
            /\ pc'[u] \in ActiveAt <=> pc[u] \in ActiveAt
            /\ pc'[u] \in {"reset", "raise"} <=> pc[u] \in {"reset", "raise"}
            /\ pc'[u] \in {"idle", "claim"} <=> pc[u] \in {"idle", "claim"}
            /\ pc'[u] = "claim" => ~ Owns(u) /\ idx'[u] < MaxThreads
      BY <3>1, <3>2, MaxThreadsAssumption
    <3> QED BY <3>3, <3>4, <3>5
  <2>2. CASE UnregisterClear(t)
    BY <2>2 DEF UnregisterClear
  <2>3. CASE PinAnnounce(t)
    BY <2>3 DEF PinAnnounce, Registered
  <2>4. CASE Unpin(t)
    BY <2>4 DEF Unpin, Registered
  <2>5. ASSUME NEW n \in Nodes, Retire(t, n) PROVE SlotInv'
    <3>1. pc[t] = "pinned" /\ pc'[t] \in {"pinned", "push"}
      BY <2>5 DEF Retire
    <3>2. \A u \in Threads : u # t => pc'[u] = pc[u] /\ idx'[u] = idx[u]
      BY <2>5 DEF Retire
    <3>3. UNCHANGED <<tid, inUse, active, threadCount>>
      BY <2>5 DEF Retire
    <3> HIDE DEF TypeOK, SlotInv
    <3> QED BY <3>1, <3>2, <3>3, SlotKept
  <2> QED BY ONLY <1>4, <2>1, <2>2, <2>3, <2>4, <2>5 DEF Call
<1> QED BY <1>1, <1>2, <1>3, <1>4 DEF Next

LEMMA PastStep ==
    ASSUME TypeOK, SlotInv, PastInv, [Next]_vars
    PROVE  PastInv'
<1> USE DEF TypeOK, SlotInv, Owns, SlotOwnership, PastInv, PCs, ActiveAt, PinnedAt, Goto, slotVars, bucketVars, localVars, nodeVars
<1>1. CASE UNCHANGED vars
  BY <1>1 DEF vars
<1>2. CASE Drain
  BY <1>2 DEF Drain
<1>3. ASSUME NEW t \in Threads, Step(t) PROVE PastInv'
  <2>1. CASE RegisterClaim(t)
    BY <2>1 DEF RegisterClaim
  <2>2. CASE RegisterSkip(t)
    BY <2>2 DEF RegisterSkip
  <2>3. CASE RegisterReset(t)
    BY <2>3 DEF RegisterReset
  <2>4. CASE RegisterRaise(t)
    BY <2>4 DEF RegisterRaise
  <2>5. CASE UnregisterRelease(t)
    BY <2>5 DEF UnregisterRelease
  <2>6. CASE PinRead(t)
    BY <2>6 DEF PinRead
  <2>7. CASE PinPublish(t)
    BY <2>7 DEF PinPublish
  <2>8. CASE PushLock(t)
    BY <2>8 DEF PushLock, Lock
  <2>9. CASE PushLink(t)
    BY <2>9 DEF PushLink
  <2>10. CASE PushUnlock(t)
    BY <2>10 DEF PushUnlock
  <2>11. CASE AdvanceLoad(t)
    <3>1. pc'[t] = "count" /\ epoch'[t] = globalEpoch
      BY <2>11 DEF AdvanceLoad
    <3>2. \A u \in Threads : u # t => pc'[u] = pc[u] /\ epoch'[u] = epoch[u]
      BY <2>11 DEF AdvanceLoad
    <3>3. UNCHANGED <<globalEpoch, localEpoch, tid, tag>>
      BY <2>11 DEF AdvanceLoad
    <3> QED BY <3>1, <3>2, <3>3
  <2>12. CASE AdvanceCount(t)
    BY <2>12 DEF AdvanceCount
  <2>13. CASE ScanActive(t)
    BY <2>13 DEF ScanActive
  <2>14. CASE ScanLocal(t)
    BY <2>14 DEF ScanLocal
  <2>15. CASE AdvanceCas(t)
    BY <2>15 DEF AdvanceCas
  <2>16. CASE TakeLock(t)
    BY <2>16 DEF TakeLock, Lock, OldBucket
  <2>17. CASE TakeList(t)
    BY <2>17 DEF TakeList, OldBucket
  <2>18. CASE TakeUnlock(t)
    BY <2>18 DEF TakeUnlock, OldBucket
  <2>19. ASSUME NEW n \in Nodes, FreeOne(t, n) PROVE PastInv'
    BY <2>19 DEF FreeOne
  <2>20. CASE FreeDone(t)
    BY <2>20 DEF FreeDone
  <2> QED BY ONLY <1>3, <2>1, <2>2, <2>3, <2>4, <2>5, <2>6, <2>7, <2>8, <2>9, <2>10, <2>11, <2>12, <2>13, <2>14, <2>15, <2>16, <2>17, <2>18, <2>19, <2>20 DEF Step
<1>4. ASSUME NEW t \in Threads, Call(t) PROVE PastInv'
  <2>1. CASE RegisterStart(t)
    BY <2>1 DEF RegisterStart
  <2>2. CASE UnregisterClear(t)
    BY <2>2 DEF UnregisterClear
  <2>3. CASE PinAnnounce(t)
    BY <2>3 DEF PinAnnounce, Registered
  <2>4. CASE Unpin(t)
    BY <2>4 DEF Unpin, Registered
  <2>5. ASSUME NEW n \in Nodes, Retire(t, n) PROVE PastInv'
    BY <2>5 DEF Retire, PinnedThreads
  <2> QED BY ONLY <1>4, <2>1, <2>2, <2>3, <2>4, <2>5 DEF Call
<1> QED BY <1>1, <1>2, <1>3, <1>4 DEF Next

LEMMA LagStep ==
    ASSUME TypeOK, SlotInv, PastInv, LagInv, ScanInv, [Next]_vars
    PROVE  LagInv'
<1>a. /\ globalEpoch \in Nat /\ localEpoch \in [Slots -> Nat]
      /\ epoch \in [Threads -> Nat] /\ pc \in [Threads -> PCs]
      /\ tid \in [Threads -> Slots \cup {NoSlot}]
      /\ idx \in [Threads -> Nat] /\ tc \in [Threads -> Nat]
  BY MaxThreadsAssumption DEF TypeOK
<1>b. \A u \in Threads :
        pc[u] \notin {"idle", "claim"} => tid[u] \in Slots /\ Owns(u)
  BY SlotFacts
<1>c. \A u, v \in Threads : tid[u] \in Slots /\ tid[u] = tid[v] => u = v
  BY SlotFacts
<1> USE DEF LagInv, EpochLag, PinnedThreads, PCs, ActiveAt, PinnedAt, Goto, slotVars, bucketVars, localVars, nodeVars
<1>1. CASE UNCHANGED vars
  BY <1>a, <1>b, <1>c, <1>1 DEF vars
<1>2. CASE Drain
  BY <1>a, <1>b, <1>c, <1>2 DEF Drain
<1>3. ASSUME NEW t \in Threads, Step(t) PROVE LagInv'
  <2>1. CASE RegisterClaim(t)
    BY <1>a, <1>b, <1>c, <2>1 DEF RegisterClaim
  <2>2. CASE RegisterSkip(t)
    BY <1>a, <1>b, <1>c, <2>2 DEF RegisterSkip
  <2>3. CASE RegisterReset(t)
    BY <1>a, <1>b, <1>c, <2>3 DEF RegisterReset
  <2>4. CASE RegisterRaise(t)
    BY <1>a, <1>b, <1>c, <2>4 DEF RegisterRaise
  <2>5. CASE UnregisterRelease(t)
    BY <1>a, <1>b, <1>c, <2>5 DEF UnregisterRelease
  <2>6. CASE PinRead(t)
    BY <1>a, <1>b, <1>c, <2>6 DEF PinRead
  <2>7. CASE PinPublish(t)
    BY <1>a, <1>b, <1>c, <2>7 DEF PinPublish
  <2>8. CASE PushLock(t)
    BY <1>a, <1>b, <1>c, <2>8 DEF PushLock, Lock
  <2>9. CASE PushLink(t)
    BY <1>a, <1>b, <1>c, <2>9 DEF PushLink
  <2>10. CASE PushUnlock(t)
    BY <1>a, <1>b, <1>c, <2>10 DEF PushUnlock
  <2>11. CASE AdvanceLoad(t)
    BY <1>a, <1>b, <1>c, <2>11 DEF AdvanceLoad
  <2>12. CASE AdvanceCount(t)
    BY <1>a, <1>b, <1>c, <2>12 DEF AdvanceCount
  <2>13. CASE ScanActive(t)
    BY <1>a, <1>b, <1>c, <2>13 DEF ScanActive
  <2>14. CASE ScanLocal(t)
    BY <1>a, <1>b, <1>c, <2>14 DEF ScanLocal
  <2>15. CASE AdvanceCas(t)
    <3>1. \A u \in Threads : pc[u] \in PinnedAt \cup {"publish"} => Owns(u) /\ tid[u] \in Slots
      BY <1>b
    <3>2. \A u \in Threads : Owns(u) /\ tid[u] \in Slots => Passed(t, tid[u])
      BY <1>a, <2>15, MaxThreadsAssumption DEF AdvanceCas, Passed, Slots
    <3>3. \A u \in Threads : pc[u] = "publish" => epoch[t] <= epoch[u]
      BY <2>15, <3>1, <3>2 DEF AdvanceCas, ScanInv
    <3>4. \A u \in Threads : pc[u] \in PinnedAt => epoch[t] <= localEpoch[tid[u]]
      BY <2>15, <3>1, <3>2 DEF AdvanceCas, ScanInv
    <3>5. pc'[t] \in PinnedAt /\ pc[t] \in PinnedAt
      BY <1>a, <2>15 DEF AdvanceCas
    <3>6. \A u \in Threads : u # t => pc'[u] = pc[u]
      BY <1>a, <2>15 DEF AdvanceCas
    <3>7. UNCHANGED <<localEpoch, tid, epoch>>
      BY <1>a, <2>15 DEF AdvanceCas
    <3>8. globalEpoch' = globalEpoch \/ globalEpoch' = epoch[t] + 1
      BY <1>a, <2>15 DEF AdvanceCas
    <3> QED BY <1>a, <3>1, <3>3, <3>4, <3>5, <3>6, <3>7, <3>8
  <2>16. CASE TakeLock(t)
    BY <1>a, <1>b, <1>c, <2>16 DEF TakeLock, Lock, OldBucket
  <2>17. CASE TakeList(t)
    <3>1. pc[t] \in PinnedAt /\ pc'[t] \in PinnedAt
      BY <1>a, <2>17 DEF TakeList
    <3>2. \A u \in Threads : u # t => pc'[u] = pc[u]
      BY <1>a, <2>17 DEF TakeList
    <3>3. UNCHANGED <<globalEpoch, localEpoch, tid, epoch>>
      BY <1>a, <2>17 DEF TakeList
    <3> QED BY <1>a, <1>b, <3>1, <3>2, <3>3
  <2>18. CASE TakeUnlock(t)
    BY <1>a, <1>b, <1>c, <2>18 DEF TakeUnlock, OldBucket
  <2>19. ASSUME NEW n \in Nodes, FreeOne(t, n) PROVE LagInv'
    <3>1. UNCHANGED <<pc, globalEpoch, localEpoch, tid, epoch>>
      BY <1>a, <2>19 DEF FreeOne
    <3> QED BY <3>1
  <2>20. CASE FreeDone(t)
    BY <1>a, <1>b, <1>c, <2>20 DEF FreeDone
  <2> QED BY ONLY <1>3, <2>1, <2>2, <2>3, <2>4, <2>5, <2>6, <2>7, <2>8, <2>9, <2>10, <2>11, <2>12, <2>13, <2>14, <2>15, <2>16, <2>17, <2>18, <2>19, <2>20 DEF Step
<1>4. ASSUME NEW t \in Threads, Call(t) PROVE LagInv'
  <2>1. CASE RegisterStart(t)
    BY <1>a, <1>b, <1>c, <2>1 DEF RegisterStart
  <2>2. CASE UnregisterClear(t)
    BY <1>a, <1>b, <1>c, <2>2 DEF UnregisterClear
  <2>3. CASE PinAnnounce(t)
    BY <1>a, <1>b, <1>c, <2>3 DEF PinAnnounce, Registered
  <2>4. CASE Unpin(t)
    <3>1. pc'[t] = "idle"
      BY <1>a, <2>4 DEF Unpin
    <3>2. \A u \in Threads : u # t => pc'[u] = pc[u]
      BY <1>a, <2>4 DEF Unpin
    <3>3. UNCHANGED <<globalEpoch, localEpoch, tid, epoch>>
      BY <1>a, <2>4 DEF Unpin
    <3> QED BY <3>1, <3>2, <3>3
  <2>5. ASSUME NEW n \in Nodes, Retire(t, n) PROVE LagInv'
    BY <1>a, <1>b, <1>c, <2>5 DEF Retire, PinnedThreads
  <2> QED BY ONLY <1>4, <2>1, <2>2, <2>3, <2>4, <2>5 DEF Call
<1> QED BY <1>1, <1>2, <1>3, <1>4 DEF Next

LEMMA ScanStep ==
    ASSUME TypeOK, SlotInv, PastInv, ScanInv, [Next]_vars
    PROVE  ScanInv'
<1>a. /\ globalEpoch \in Nat /\ localEpoch \in [Slots -> Nat]
      /\ epoch \in [Threads -> Nat] /\ pc \in [Threads -> PCs]
      /\ tid \in [Threads -> Slots \cup {NoSlot}]
      /\ idx \in [Threads -> Nat] /\ tc \in [Threads -> Nat]
  BY MaxThreadsAssumption DEF TypeOK
<1>b. \A u \in Threads :
        pc[u] \notin {"idle", "claim"} => tid[u] \in Slots /\ Owns(u)
  BY SlotFacts
<1>c. \A u, v \in Threads : tid[u] \in Slots /\ tid[u] = tid[v] => u = v
  BY SlotFacts
<1> USE DEF ScanInv, Passed, PCs, ActiveAt, PinnedAt, Goto, slotVars, bucketVars, localVars, nodeVars
<1>1. CASE UNCHANGED vars
  BY <1>a, <1>b, <1>c, <1>1 DEF vars
<1>2. CASE Drain
  BY <1>a, <1>b, <1>c, <1>2 DEF Drain
<1>3. ASSUME NEW t \in Threads, Step(t) PROVE ScanInv'
  <2>1. CASE RegisterClaim(t)
    BY <1>a, <1>b, <1>c, <2>1 DEF RegisterClaim
  <2>2. CASE RegisterSkip(t)
    BY <1>a, <1>b, <1>c, <2>2 DEF RegisterSkip
  <2>3. CASE RegisterReset(t)
    BY <1>a, <1>b, <1>c, <2>3 DEF RegisterReset
  <2>4. CASE RegisterRaise(t)
    BY <1>a, <1>b, <1>c, <2>4 DEF RegisterRaise
  <2>5. CASE UnregisterRelease(t)
    BY <1>a, <1>b, <1>c, <2>5 DEF UnregisterRelease
  <2>6. CASE PinRead(t)
    BY <1>a, <1>b, <1>c, <2>6 DEF PinRead, PastInv
  <2>7. CASE PinPublish(t)
    BY <1>a, <1>b, <1>c, <2>7 DEF PinPublish
  <2>8. CASE PushLock(t)
    BY <1>a, <1>b, <1>c, <2>8 DEF PushLock, Lock
  <2>9. CASE PushLink(t)
    BY <1>a, <1>b, <1>c, <2>9 DEF PushLink
  <2>10. CASE PushUnlock(t)
    BY <1>a, <1>b, <1>c, <2>10 DEF PushUnlock
  <2>11. CASE AdvanceLoad(t)
    BY <1>a, <1>b, <1>c, <2>11 DEF AdvanceLoad
  <2>12. CASE AdvanceCount(t)
    <3>1. /\ pc[t] = "count" /\ pc'[t] = "scan"
          /\ idx'[t] = 0 /\ tc'[t] = threadCount
      BY <1>a, <2>12 DEF AdvanceCount
    <3>d. threadCount \in Nat
      BY MaxThreadsAssumption DEF TypeOK
    <3>2. \A u \in Threads : u # t =>
            pc'[u] = pc[u] /\ idx'[u] = idx[u] /\ tc'[u] = tc[u]
      BY <1>a, <2>12 DEF AdvanceCount
    <3>3. UNCHANGED <<localEpoch, tid, epoch>>
      BY <1>a, <2>12 DEF AdvanceCount
    <3>4. \A v \in Threads : pc[v] \in PinnedAt \cup {"publish"} =>
            tid[v] \in 0 .. MaxThreads - 1 /\ tid[v] < threadCount
      BY <1>b, MaxThreadsAssumption DEF SlotInv, Slots
    <3>5. \A v \in Threads : Passed(t, tid[v])' => 
            pc'[v] \notin PinnedAt \cup {"publish"}
      <4> SUFFICES ASSUME NEW v \in Threads, Passed(t, tid[v])'
                   PROVE  pc'[v] \notin PinnedAt \cup {"publish"}
        OBVIOUS
      <4>1. threadCount <= tid[v] \/ tid[v] < 0
        BY <3>1, <3>3
      <4>2. CASE v = t
        <5>1. pc[v] \in PinnedAt
          BY <3>1, <4>2
        <5>2. tid[v] \in 0 .. MaxThreads - 1 /\ tid[v] < threadCount
          BY ONLY <3>4, <5>1
        <5> QED BY ONLY <5>2, <4>1, <3>d, MaxThreadsAssumption
      <4>3. CASE v # t
        BY <1>a, <3>2, <3>4, <4>1, <4>3, <3>d
      <4> QED BY <4>2, <4>3
    <3> QED BY <1>a, <1>b, <3>1, <3>2, <3>3, <3>5
  <2>13. CASE ScanActive(t)
    <3>1. /\ pc[t] = "scan" /\ idx[t] < tc[t]
          /\ \/ pc'[t] = "local" /\ idx'[t] = idx[t]
             \/ pc'[t] = "scan" /\ idx'[t] = idx[t] + 1 /\ idx[t] \notin active
      BY <1>a, <2>13 DEF ScanActive
    <3>2. \A u \in Threads : u # t => pc'[u] = pc[u] /\ idx'[u] = idx[u]
      BY <1>a, <2>13 DEF ScanActive
    <3>3. UNCHANGED <<localEpoch, tid, epoch, tc>>
      BY <1>a, <2>13 DEF ScanActive
    <3>4. \A v \in Threads : pc[v] \in PinnedAt \cup {"publish"} =>
            tid[v] \in active /\ tid[v] \in Int
      BY <1>b, MaxThreadsAssumption DEF SlotInv, Slots
    <3>5. \A v \in Threads : pc[v] \in PinnedAt \cup {"publish"} /\ Passed(t, tid[v])'
            => Passed(t, tid[v])
      BY <1>a, <3>1, <3>3, <3>4
    <3> QED BY <1>a, <1>b, <3>1, <3>2, <3>3, <3>5
  <2>14. CASE ScanLocal(t)
    <3>1. /\ pc[t] = "local"
          /\ \/ pc'[t] = "pinned"
             \/ /\ pc'[t] = "scan" /\ idx'[t] = idx[t] + 1
                /\ epoch[t] <= localEpoch[idx[t]]
      BY <1>a, <2>14 DEF ScanLocal
    <3>2. \A u \in Threads : u # t => pc'[u] = pc[u] /\ idx'[u] = idx[u]
      BY <1>a, <2>14 DEF ScanLocal
    <3>3. UNCHANGED <<localEpoch, tid, epoch, tc>>
      BY <1>a, <2>14 DEF ScanLocal
    <3>4. \A v \in Threads : pc[v] \in PinnedAt \cup {"publish"} =>
            Owns(v) /\ tid[v] \in Int /\ tid[v] \in Slots
      BY <1>b, MaxThreadsAssumption DEF Slots
    <3>5. \A v \in Threads : pc[v] \in PinnedAt \cup {"publish"} /\ pc'[t] = "scan"
                /\ Passed(t, tid[v])'
            => Passed(t, tid[v]) \/ tid[v] = idx[t]
      BY <1>a, <3>1, <3>3, <3>4
    <3>p. \A v \in Threads : pc[v] = "publish" => localEpoch[tid[v]] <= epoch[v]
      BY DEF PastInv
    <3> SUFFICES ASSUME NEW u \in Threads, NEW v \in Threads,
                        pc'[u] \in {"scan", "local"}, Owns(v)', Passed(u, tid[v])'
                 PROVE  /\ pc'[v] = "publish" => epoch[u] <= epoch[v]
                        /\ pc'[v] \in PinnedAt => epoch[u] <= localEpoch[tid[v]]
      BY <3>3 DEF ScanInv
    <3>6. /\ pc'[v] = "publish" => pc[v] = "publish"
          /\ pc'[v] \in PinnedAt => pc[v] \in PinnedAt
      BY <3>1, <3>2
    <3>7. CASE u # t
      BY <3>2, <3>3, <3>6, <3>7 DEF Owns
    <3>8. CASE u = t
      <4>1. pc'[t] = "scan" /\ epoch[t] <= localEpoch[idx[t]] /\ pc[t] = "local"
        BY <3>1, <3>8
      <4>2. CASE Passed(t, tid[v])
        BY <3>3, <3>4, <3>6, <3>8, <4>1, <4>2 DEF Owns
      <4>3. CASE tid[v] = idx[t]
        <5>1. pc[v] = "publish" => localEpoch[tid[v]] <= epoch[v] /\ tid[v] \in Slots
          BY <3>p, <3>4
        <5> QED BY <1>a, <3>6, <3>8, <4>1, <4>3, <5>1
      <4> QED BY <3>5, <3>6, <3>8, <4>1, <4>2, <4>3
    <3> QED BY <3>7, <3>8
  <2>15. CASE AdvanceCas(t)
    BY <1>a, <1>b, <1>c, <2>15 DEF AdvanceCas
  <2>16. CASE TakeLock(t)
    BY <1>a, <1>b, <1>c, <2>16 DEF TakeLock, Lock, OldBucket
  <2>17. CASE TakeList(t)
    BY <1>a, <1>b, <1>c, <2>17 DEF TakeList, OldBucket
  <2>18. CASE TakeUnlock(t)
    BY <1>a, <1>b, <1>c, <2>18 DEF TakeUnlock, OldBucket
  <2>19. ASSUME NEW n \in Nodes, FreeOne(t, n) PROVE ScanInv'
    BY <1>a, <1>b, <1>c, <2>19 DEF FreeOne
  <2>20. CASE FreeDone(t)
    BY <1>a, <1>b, <1>c, <2>20 DEF FreeDone
  <2> QED BY ONLY <1>3, <2>1, <2>2, <2>3, <2>4, <2>5, <2>6, <2>7, <2>8, <2>9, <2>10, <2>11, <2>12, <2>13, <2>14, <2>15, <2>16, <2>17, <2>18, <2>19, <2>20 DEF Step
<1>4. ASSUME NEW t \in Threads, Call(t) PROVE ScanInv'
  <2>1. CASE RegisterStart(t)
    BY <1>a, <1>b, <1>c, <2>1 DEF RegisterStart
  <2>2. CASE UnregisterClear(t)
    BY <1>a, <1>b, <1>c, <2>2 DEF UnregisterClear
  <2>3. CASE PinAnnounce(t)
    BY <1>a, <1>b, <1>c, <2>3 DEF PinAnnounce, Registered
  <2>4. CASE Unpin(t)
    BY <1>a, <1>b, <1>c, <2>4 DEF Unpin, Registered
  <2>5. ASSUME NEW n \in Nodes, Retire(t, n) PROVE ScanInv'
    BY <1>a, <1>b, <1>c, <2>5 DEF Retire, PinnedThreads
  <2> QED BY ONLY <1>4, <2>1, <2>2, <2>3, <2>4, <2>5 DEF Call
<1> QED BY <1>1, <1>2, <1>3, <1>4 DEF Next

LEMMA TakeStep ==
    ASSUME TypeOK, SlotInv, PastInv, ScanInv, TakeInv, [Next]_vars
    PROVE  TakeInv'
<1>a. /\ globalEpoch \in Nat /\ localEpoch \in [Slots -> Nat]
      /\ epoch \in [Threads -> Nat] /\ pc \in [Threads -> PCs]
      /\ tid \in [Threads -> Slots \cup {NoSlot}]
      /\ idx \in [Threads -> Nat] /\ tc \in [Threads -> Nat]
  BY MaxThreadsAssumption DEF TypeOK
<1>b. \A u \in Threads :
        pc[u] \notin {"idle", "claim"} => tid[u] \in Slots /\ Owns(u)
  BY SlotFacts
<1>c. \A u, v \in Threads : tid[u] \in Slots /\ tid[u] = tid[v] => u = v
  BY SlotFacts
<1> USE DEF TakeInv, PCs, ActiveAt, PinnedAt, Goto, slotVars, bucketVars, localVars, nodeVars
<1>1. CASE UNCHANGED vars
  BY <1>a, <1>b, <1>c, <1>1 DEF vars
<1>2. CASE Drain
  BY <1>a, <1>b, <1>c, <1>2 DEF Drain
<1>3. ASSUME NEW t \in Threads, Step(t) PROVE TakeInv'
  <2>1. CASE RegisterClaim(t)
    BY <1>a, <1>b, <1>c, <2>1 DEF RegisterClaim
  <2>2. CASE RegisterSkip(t)
    BY <1>a, <1>b, <1>c, <2>2 DEF RegisterSkip
  <2>3. CASE RegisterReset(t)
    BY <1>a, <1>b, <1>c, <2>3 DEF RegisterReset
  <2>4. CASE RegisterRaise(t)
    BY <1>a, <1>b, <1>c, <2>4 DEF RegisterRaise
  <2>5. CASE UnregisterRelease(t)
    BY <1>a, <1>b, <1>c, <2>5 DEF UnregisterRelease
  <2>6. CASE PinRead(t)
    BY <1>a, <1>b, <1>c, <2>6 DEF PinRead
  <2>7. CASE PinPublish(t)
    BY <1>a, <1>b, <1>c, <2>7 DEF PinPublish
  <2>8. CASE PushLock(t)
    BY <1>a, <1>b, <1>c, <2>8 DEF PushLock, Lock
  <2>9. CASE PushLink(t)
    BY <1>a, <1>b, <1>c, <2>9 DEF PushLink
  <2>10. CASE PushUnlock(t)
    BY <1>a, <1>b, <1>c, <2>10 DEF PushUnlock
  <2>11. CASE AdvanceLoad(t)
    BY <1>a, <1>b, <1>c, <2>11 DEF AdvanceLoad
  <2>12. CASE AdvanceCount(t)
    BY <1>a, <1>b, <1>c, <2>12 DEF AdvanceCount
  <2>13. CASE ScanActive(t)
    BY <1>a, <1>b, <1>c, <2>13 DEF ScanActive
  <2>14. CASE ScanLocal(t)
    BY <1>a, <1>b, <1>c, <2>14 DEF ScanLocal
  <2>15. CASE AdvanceCas(t)
    <3>1. \A u \in Threads : pc[u] \in PinnedAt => Owns(u) /\ tid[u] \in Slots
      BY <1>b
    <3>2. \A u \in Threads : Owns(u) /\ tid[u] \in Slots => Passed(t, tid[u])
      BY <1>a, <2>15, MaxThreadsAssumption DEF AdvanceCas, Passed, Slots
    <3>3. \A u \in Threads : pc[u] \in PinnedAt => epoch[t] <= localEpoch[tid[u]]
      BY <2>15, <3>1, <3>2 DEF AdvanceCas, ScanInv
    <3>t. \A u \in Threads : pc[u] \in {"take", "detach", "clear"} =>
            1 <= epoch[u] /\ globalEpoch = epoch[u] + 1 /\ localEpoch[tid[u]] <= epoch[u]
      OBVIOUS
    <3>4. /\ pc[t] = "scan"
          /\ \/ globalEpoch = epoch[t] /\ globalEpoch' = epoch[t] + 1 /\ pc'[t] = "take"
             \/ globalEpoch' = globalEpoch /\ pc'[t] = "pinned"
      BY <1>a, <2>15 DEF AdvanceCas
    <3>5. \A u \in Threads : u # t => pc'[u] = pc[u]
      BY <1>a, <2>15 DEF AdvanceCas
    <3>6. UNCHANGED <<localEpoch, tid, epoch>>
      BY <1>a, <2>15 DEF AdvanceCas
    <3>7. 1 <= epoch[t] /\ localEpoch[tid[t]] <= globalEpoch /\ tid[t] \in Slots
      BY <1>a, <1>b, <3>4 DEF PastInv
    <3>8. CASE globalEpoch' = globalEpoch /\ pc'[t] = "pinned"
      BY <1>a, <3>5, <3>6, <3>8
    <3>9. CASE globalEpoch = epoch[t] /\ globalEpoch' = epoch[t] + 1
      <4>1. \A u \in Threads : u # t => pc[u] \notin {"take", "detach", "clear"}
        BY <1>a, <1>b, <3>1, <3>3, <3>9, <3>t
      <4> QED BY <1>a, <3>4, <3>5, <3>6, <3>7, <3>9, <4>1
    <3> QED BY <3>4, <3>8, <3>9
  <2>16. CASE TakeLock(t)
    BY <1>a, <1>b, <1>c, <2>16 DEF TakeLock, Lock, OldBucket
  <2>17. CASE TakeList(t)
    BY <1>a, <1>b, <1>c, <2>17 DEF TakeList, OldBucket
  <2>18. CASE TakeUnlock(t)
    BY <1>a, <1>b, <1>c, <2>18 DEF TakeUnlock, OldBucket
  <2>19. ASSUME NEW n \in Nodes, FreeOne(t, n) PROVE TakeInv'
    BY <1>a, <1>b, <1>c, <2>19 DEF FreeOne
  <2>20. CASE FreeDone(t)
    BY <1>a, <1>b, <1>c, <2>20 DEF FreeDone
  <2> QED BY ONLY <1>3, <2>1, <2>2, <2>3, <2>4, <2>5, <2>6, <2>7, <2>8, <2>9, <2>10, <2>11, <2>12, <2>13, <2>14, <2>15, <2>16, <2>17, <2>18, <2>19, <2>20 DEF Step
<1>4. ASSUME NEW t \in Threads, Call(t) PROVE TakeInv'
  <2>1. CASE RegisterStart(t)
    BY <1>a, <1>b, <1>c, <2>1 DEF RegisterStart
  <2>2. CASE UnregisterClear(t)
    BY <1>a, <1>b, <1>c, <2>2 DEF UnregisterClear
  <2>3. CASE PinAnnounce(t)
    BY <1>a, <1>b, <1>c, <2>3 DEF PinAnnounce, Registered
  <2>4. CASE Unpin(t)
    BY <1>a, <1>b, <1>c, <2>4 DEF Unpin, Registered
  <2>5. ASSUME NEW n \in Nodes, Retire(t, n) PROVE TakeInv'
    BY <1>a, <1>b, <1>c, <2>5 DEF Retire, PinnedThreads
  <2> QED BY ONLY <1>4, <2>1, <2>2, <2>3, <2>4, <2>5 DEF Call
<1> QED BY <1>1, <1>2, <1>3, <1>4 DEF Next

LEMMA GraceStep ==
    ASSUME TypeOK, SlotInv, PastInv, GraceInv, [Next]_vars
    PROVE  GraceInv'
<1>a. /\ globalEpoch \in Nat /\ localEpoch \in [Slots -> Nat]
      /\ epoch \in [Threads -> Nat] /\ pc \in [Threads -> PCs]
      /\ tid \in [Threads -> Slots \cup {NoSlot}]
      /\ waiting \in [Nodes -> SUBSET Threads]
      /\ tag \in [Nodes -> Nat] /\ tc \in [Threads -> Nat]
  BY MaxThreadsAssumption DEF TypeOK
<1>b. \A u \in Threads :
        pc[u] \notin {"idle", "claim"} => tid[u] \in Slots /\ Owns(u)
  BY SlotFacts
<1>c. \A u, v \in Threads : tid[u] \in Slots /\ tid[u] = tid[v] => u = v
  BY SlotFacts
<1> USE DEF GraceInv, PinnedThreads, PCs, ActiveAt, PinnedAt, Goto, slotVars, bucketVars, localVars, nodeVars
<1>1. CASE UNCHANGED vars
  BY <1>a, <1>b, <1>c, <1>1 DEF vars
<1>2. CASE Drain
  BY <1>a, <1>b, <1>c, <1>2 DEF Drain
<1>3. ASSUME NEW t \in Threads, Step(t) PROVE GraceInv'
  <2>1. CASE RegisterClaim(t)
    BY <1>a, <1>b, <1>c, <2>1 DEF RegisterClaim
  <2>2. CASE RegisterSkip(t)
    BY <1>a, <1>b, <1>c, <2>2 DEF RegisterSkip
  <2>3. CASE RegisterReset(t)
    BY <1>a, <1>b, <1>c, <2>3 DEF RegisterReset
  <2>4. CASE RegisterRaise(t)
    BY <1>a, <1>b, <1>c, <2>4 DEF RegisterRaise
  <2>5. CASE UnregisterRelease(t)
    BY <1>a, <1>b, <1>c, <2>5 DEF UnregisterRelease
  <2>6. CASE PinRead(t)
    BY <1>a, <1>b, <1>c, <2>6 DEF PinRead
  <2>7. CASE PinPublish(t)
    BY <1>a, <1>b, <1>c, <2>7 DEF PinPublish
  <2>8. CASE PushLock(t)
    BY <1>a, <1>b, <1>c, <2>8 DEF PushLock, Lock
  <2>9. CASE PushLink(t)
    BY <1>a, <1>b, <1>c, <2>9 DEF PushLink
  <2>10. CASE PushUnlock(t)
    BY <1>a, <1>b, <1>c, <2>10 DEF PushUnlock
  <2>11. CASE AdvanceLoad(t)
    BY <1>a, <1>b, <1>c, <2>11 DEF AdvanceLoad
  <2>12. CASE AdvanceCount(t)
    BY <1>a, <1>b, <1>c, <2>12 DEF AdvanceCount
  <2>13. CASE ScanActive(t)
    BY <1>a, <1>b, <1>c, <2>13 DEF ScanActive
  <2>14. CASE ScanLocal(t)
    BY <1>a, <1>b, <1>c, <2>14 DEF ScanLocal
  <2>15. CASE AdvanceCas(t)
    BY <1>a, <1>b, <1>c, <2>15 DEF AdvanceCas
  <2>16. CASE TakeLock(t)
    BY <1>a, <1>b, <1>c, <2>16 DEF TakeLock, Lock, OldBucket
  <2>17. CASE TakeList(t)
    BY <1>a, <1>b, <1>c, <2>17 DEF TakeList, OldBucket
  <2>18. CASE TakeUnlock(t)
    BY <1>a, <1>b, <1>c, <2>18 DEF TakeUnlock, OldBucket
  <2>19. ASSUME NEW n \in Nodes, FreeOne(t, n) PROVE GraceInv'
    BY <1>a, <1>b, <1>c, <2>19 DEF FreeOne
  <2>20. CASE FreeDone(t)
    BY <1>a, <1>b, <1>c, <2>20 DEF FreeDone
  <2> QED BY ONLY <1>3, <2>1, <2>2, <2>3, <2>4, <2>5, <2>6, <2>7, <2>8, <2>9, <2>10, <2>11, <2>12, <2>13, <2>14, <2>15, <2>16, <2>17, <2>18, <2>19, <2>20 DEF Step
<1>4. ASSUME NEW t \in Threads, Call(t) PROVE GraceInv'
  <2>1. CASE RegisterStart(t)
    BY <1>a, <1>b, <1>c, <2>1 DEF RegisterStart
  <2>2. CASE UnregisterClear(t)
    BY <1>a, <1>b, <1>c, <2>2 DEF UnregisterClear
  <2>3. CASE PinAnnounce(t)
    BY <1>a, <1>b, <1>c, <2>3 DEF PinAnnounce, Registered
  <2>4. CASE Unpin(t)
    BY <1>a, <1>b, <1>c, <2>4 DEF Unpin, Registered
  <2>5. ASSUME NEW n \in Nodes, Retire(t, n) PROVE GraceInv'
    BY <1>a, <1>b, <1>c, <2>5 DEF Retire, PinnedThreads, PastInv
  <2> QED BY ONLY <1>4, <2>1, <2>2, <2>3, <2>4, <2>5 DEF Call
<1> QED BY <1>1, <1>2, <1>3, <1>4 DEF Next

-----------------------------------------------------------------------------
(* The steps that touch no retire list, hold no lock and carry no node.    *)
QuietStep(t) ==
    \/ RegisterStart(t) \/ RegisterClaim(t) \/ RegisterSkip(t)
    \/ RegisterReset(t) \/ RegisterRaise(t)
    \/ UnregisterClear(t) \/ UnregisterRelease(t)
    \/ PinAnnounce(t) \/ PinRead(t) \/ PinPublish(t) \/ Unpin(t)
    \/ AdvanceLoad(t) \/ AdvanceCount(t) \/ ScanActive(t) \/ ScanLocal(t)
    \/ AdvanceCas(t) \/ FreeDone(t)

LEMMA NextCases ==
    ASSUME NEW t \in Threads, Step(t) \/ Call(t)
    PROVE  \/ QuietStep(t)
           \/ PushLock(t) \/ PushLink(t) \/ PushUnlock(t)
           \/ TakeLock(t) \/ TakeList(t) \/ TakeUnlock(t)
           \/ \E n \in Nodes : FreeOne(t, n) \/ Retire(t, n)
BY DEF Step, Call, QuietStep

LEMMA QuietEffect ==
    ASSUME TypeOK, HandInv, NEW t \in Threads, QuietStep(t)
    PROVE  /\ UNCHANGED <<retireLists, retireLocks, hand, status, tag>>
           /\ \A n \in Nodes : waiting'[n] \subseteq waiting[n]
           /\ globalEpoch <= globalEpoch' /\ globalEpoch' \in Nat
           /\ \A u \in Threads : u # t => pc'[u] = pc[u] /\ epoch'[u] = epoch[u]
           /\ pc[t] \notin {"push", "link", "append", "detach", "clear"}
           /\ pc'[t] \notin {"push", "link", "append", "detach", "clear"}
           /\ hand[t] = {}
<1>1. /\ globalEpoch \in Nat /\ pc \in [Threads -> PCs]
      /\ epoch \in [Threads -> Nat] /\ hand \in [Threads -> SUBSET Nodes]
      /\ waiting \in [Nodes -> SUBSET Threads]
  BY DEF TypeOK
<1>2. UNCHANGED <<retireLists, retireLocks, hand, status, tag>>
  BY DEF QuietStep, slotVars, bucketVars, localVars, nodeVars, RegisterStart,
         RegisterClaim, RegisterSkip, RegisterReset, RegisterRaise,
         UnregisterClear, UnregisterRelease, PinAnnounce, PinRead, PinPublish,
         Unpin, AdvanceLoad, AdvanceCount, ScanActive, ScanLocal, AdvanceCas,
         FreeDone
<1>3. \A n \in Nodes : waiting'[n] \subseteq waiting[n]
  BY DEF QuietStep, slotVars, bucketVars, localVars, nodeVars, RegisterStart,
         RegisterClaim, RegisterSkip, RegisterReset, RegisterRaise,
         UnregisterClear, UnregisterRelease, PinAnnounce, PinRead, PinPublish,
         Unpin, AdvanceLoad, AdvanceCount, ScanActive, ScanLocal, AdvanceCas,
         FreeDone
<1>4. globalEpoch <= globalEpoch' /\ globalEpoch' \in Nat
  BY <1>1 DEF QuietStep, RegisterStart,
         RegisterClaim, RegisterSkip, RegisterReset, RegisterRaise,
         UnregisterClear, UnregisterRelease, PinAnnounce, PinRead, PinPublish,
         Unpin, AdvanceLoad, AdvanceCount, ScanActive, ScanLocal, AdvanceCas,
         FreeDone
<1>5. \A u \in Threads : u # t => pc'[u] = pc[u] /\ epoch'[u] = epoch[u]
  BY <1>1 DEF Goto, localVars, QuietStep, RegisterStart,
         RegisterClaim, RegisterSkip, RegisterReset, RegisterRaise,
         UnregisterClear, UnregisterRelease, PinAnnounce, PinRead, PinPublish,
         Unpin, AdvanceLoad, AdvanceCount, ScanActive, ScanLocal, AdvanceCas,
         FreeDone
<1>6. /\ pc[t] \notin {"push", "link", "append", "detach", "clear"}
      /\ pc'[t] \notin {"push", "link", "append", "detach", "clear"}
  BY <1>1 DEF Goto, QuietStep, RegisterStart,
         RegisterClaim, RegisterSkip, RegisterReset, RegisterRaise,
         UnregisterClear, UnregisterRelease, PinAnnounce, PinRead, PinPublish,
         Unpin, AdvanceLoad, AdvanceCount, ScanActive, ScanLocal, AdvanceCas,
         FreeDone
<1>7. pc[t] = "free" => hand[t] = {}
  BY DEF QuietStep, RegisterStart,
         RegisterClaim, RegisterSkip, RegisterReset, RegisterRaise,
         UnregisterClear, UnregisterRelease, PinAnnounce, PinRead, PinPublish,
         Unpin, AdvanceLoad, AdvanceCount, ScanActive, ScanLocal, AdvanceCas,
         FreeDone
<1>8. hand[t] = {}
  BY <1>1, <1>6, <1>7 DEF HandInv
<1> QED BY <1>2, <1>3, <1>4, <1>5, <1>6, <1>8

(* Three consecutive epochs use three different buckets.                   *)
LEMMA ThreeBuckets ==
    \A e, a \in Nat : e >= 1 /\ a <= e + 1 /\ a % 3 = (e - 1) % 3 => a + 2 <= e + 1
OBVIOUS

LEMMA HandStep ==
    ASSUME TypeOK, SlotInv, PastInv, LagInv, TakeInv, GraceInv, HandInv, LockInv,
           [Next]_vars
    PROVE  HandInv'
<1>a. /\ globalEpoch \in Nat /\ pc \in [Threads -> PCs]
      /\ epoch \in [Threads -> Nat] /\ hand \in [Threads -> SUBSET Nodes]
      /\ tag \in [Nodes -> Nat] /\ retireLists \in [Buckets -> SUBSET Nodes]
      /\ waiting \in [Nodes -> SUBSET Threads]
      /\ status \in [Nodes -> {"linked", "retired", "leaked", "freed"}]
  BY DEF TypeOK
<1>1. CASE UNCHANGED vars
  BY <1>1 DEF vars, bucketVars, localVars, nodeVars, HandInv, NoUseAfterFree
<1>2. CASE Drain
  <2>1. \A n \in Nodes, t \in Threads : n \notin hand[t]
    BY <1>2 DEF Drain, HandInv
  <2>2. \A n \in Nodes : waiting[n] = {}
    BY <1>2, <1>a DEF Drain, GraceInv, PinnedAt
  <2>3. /\ hand' = hand /\ waiting' = waiting
        /\ \A b \in Buckets : retireLists'[b] = {}
    BY <1>2 DEF Drain, localVars
  <2> QED BY <2>1, <2>2, <2>3 DEF HandInv, NoUseAfterFree
<1>3. ASSUME NEW t \in Threads, QuietStep(t) PROVE HandInv'
  <2>1. UNCHANGED <<retireLists, hand, status, tag>>
    BY <1>3, QuietEffect
  <2>2. /\ \A n \in Nodes : waiting'[n] \subseteq waiting[n]
        /\ globalEpoch <= globalEpoch' /\ globalEpoch' \in Nat
        /\ \A u \in Threads : u # t => pc'[u] = pc[u] /\ epoch'[u] = epoch[u]
        /\ hand[t] = {}
    BY <1>3, QuietEffect
  <2>3. \A n \in Nodes, b \in Buckets : n \in retireLists'[b] =>
            status'[n] = "retired" /\ tag'[n] % 3 = b
    BY <2>1 DEF HandInv
  <2>4. ASSUME NEW n \in Nodes, NEW u \in Threads, n \in hand'[u]
        PROVE  /\ status'[n] = "retired"
               /\ pc'[u] \in {"push", "link", "append", "clear", "free"}
               /\ pc'[u] \in {"push", "link", "append"} =>
                     tag'[n] % 3 = epoch'[u] % 3
               /\ pc'[u] \in {"clear", "free"} => tag'[n] + 2 <= globalEpoch'
    <3>1. u # t /\ n \in hand[u] /\ pc'[u] = pc[u] /\ epoch'[u] = epoch[u]
      BY <2>1, <2>2, <2>4
    <3>2. tag[n] \in Nat
      BY <1>a
    <3>3. pc[u] \in {"clear", "free"} => tag[n] + 2 <= globalEpoch
      BY <3>1 DEF HandInv
    <3>4. pc[u] \in {"clear", "free"} => tag[n] + 2 <= globalEpoch'
      BY <1>a, <2>2, <3>2, <3>3
    <3> QED BY <2>1, <3>1, <3>4 DEF HandInv
  <2>5. NoUseAfterFree'
    BY <2>1, <2>2 DEF HandInv, NoUseAfterFree
  <2> QED BY <2>3, <2>4, <2>5 DEF HandInv
<1>4. ASSUME NEW t \in Threads, PushLock(t) PROVE HandInv'
  <2>1. /\ UNCHANGED <<retireLists, hand, status, tag, waiting, epoch, globalEpoch>>
        /\ pc[t] = "push" /\ pc'[t] = "link"
        /\ \A u \in Threads : u # t => pc'[u] = pc[u]
    BY <1>4, <1>a DEF PushLock, localVars, nodeVars, Goto
  <2> QED BY <2>1 DEF HandInv, NoUseAfterFree
<1>5. ASSUME NEW t \in Threads, PushLink(t) PROVE HandInv'
  <2>1. /\ UNCHANGED <<retireLists, status, tag, waiting, epoch, globalEpoch>>
        /\ pc[t] = "link" /\ pc'[t] = "append"
        /\ \A u \in Threads : u # t => pc'[u] = pc[u] /\ hand'[u] = hand[u]
        /\ hand'[t] = hand[t] \cup retireLists[epoch[t] % 3]
    BY <1>5, <1>a DEF PushLink, bucketVars, nodeVars, Goto
  <2>2. epoch[t] % 3 \in Buckets
    BY <1>a, BucketIndex
  <2> QED BY <2>1, <2>2 DEF HandInv, NoUseAfterFree
<1>6. ASSUME NEW t \in Threads, PushUnlock(t) PROVE HandInv'
  <2>1. /\ UNCHANGED <<status, tag, waiting, epoch, globalEpoch>>
        /\ pc[t] = "append" /\ hand'[t] = {}
        /\ \A u \in Threads : u # t => pc'[u] = pc[u] /\ hand'[u] = hand[u]
        /\ retireLists'[epoch[t] % 3] = hand[t]
        /\ \A b \in Buckets : b # epoch[t] % 3 => retireLists'[b] = retireLists[b]
    BY <1>6, <1>a, BucketIndex DEF PushUnlock, nodeVars, Goto
  <2> QED BY <2>1 DEF HandInv, NoUseAfterFree
<1>7. ASSUME NEW t \in Threads, TakeLock(t) PROVE HandInv'
  <2>1. /\ UNCHANGED <<retireLists, hand, status, tag, waiting, epoch, globalEpoch>>
        /\ pc[t] = "take" /\ pc'[t] = "detach"
        /\ \A u \in Threads : u # t => pc'[u] = pc[u]
    BY <1>7, <1>a DEF TakeLock, localVars, nodeVars, Goto
  <2> QED BY <2>1 DEF HandInv, NoUseAfterFree
<1>8. ASSUME NEW t \in Threads, TakeList(t) PROVE HandInv'
  <2>1. /\ UNCHANGED <<retireLists, status, tag, waiting, epoch, globalEpoch>>
        /\ pc[t] = "detach" /\ pc'[t] = "clear"
        /\ \A u \in Threads : u # t => pc'[u] = pc[u] /\ hand'[u] = hand[u]
        /\ hand'[t] = retireLists[OldBucket(t)]
    BY <1>8, <1>a DEF TakeList, bucketVars, nodeVars, Goto
  <2>2. OldBucket(t) \in Buckets /\ OldBucket(t) = (epoch[t] - 1) % 3
    BY <1>a, BucketIndex DEF OldBucket
  <2>3. 1 <= epoch[t] /\ globalEpoch = epoch[t] + 1 /\ epoch[t] \in Nat
    BY <1>a, <2>1 DEF TakeInv
  <2>4. \A n \in Nodes : n \in hand'[t] => tag[n] + 2 <= globalEpoch
    <3> SUFFICES ASSUME NEW n \in Nodes, n \in hand'[t]
                 PROVE  tag[n] + 2 <= globalEpoch
      OBVIOUS
    <3>1. tag[n] % 3 = (epoch[t] - 1) % 3
      BY <2>1, <2>2 DEF HandInv
    <3>2. tag[n] \in Nat /\ tag[n] <= epoch[t] + 1
      BY <1>a, <2>3 DEF PastInv
    <3> QED BY <2>3, <3>1, <3>2, ThreeBuckets
  <2> QED BY <2>1, <2>2, <2>4 DEF HandInv, NoUseAfterFree
<1>9. ASSUME NEW t \in Threads, TakeUnlock(t) PROVE HandInv'
  <2>1. /\ UNCHANGED <<hand, status, tag, waiting, epoch, globalEpoch>>
        /\ pc[t] = "clear" /\ pc'[t] = "free"
        /\ \A u \in Threads : u # t => pc'[u] = pc[u]
        /\ \A b \in Buckets : retireLists'[b] \subseteq retireLists[b]
    BY <1>9, <1>a DEF TakeUnlock, localVars, nodeVars, Goto
  <2> QED BY <2>1 DEF HandInv, NoUseAfterFree
<1>10. ASSUME NEW t \in Threads, NEW m \in Nodes, FreeOne(t, m) PROVE HandInv'
  <2>1. /\ UNCHANGED <<retireLists, pc, tag, waiting, epoch, globalEpoch>>
        /\ pc[t] = "free" /\ m \in hand[t] /\ hand'[t] = hand[t] \ {m}
        /\ \A u \in Threads : u # t => hand'[u] = hand[u]
        /\ status'[m] = "freed" /\ \A n \in Nodes : n # m => status'[n] = status[n]
    BY <1>10, <1>a DEF FreeOne, bucketVars, Goto
  <2>2. waiting[m] = {}
    <3>1. SUFFICES ASSUME NEW u \in Threads, u \in waiting[m] PROVE FALSE
      BY <1>a
    <3>2. pc[u] \in PinnedAt /\ localEpoch[tid[u]] <= tag[m]
      BY <3>1 DEF GraceInv
    <3>3. globalEpoch <= localEpoch[tid[u]] + 1
      BY <3>2 DEF LagInv, EpochLag, PinnedThreads
    <3>4. tag[m] + 2 <= globalEpoch /\ tag[m] \in Nat
      BY <1>a, <2>1 DEF HandInv
    <3>5. localEpoch[tid[u]] \in Nat
      BY <3>2, SlotFacts DEF TypeOK, PinnedAt
    <3> QED BY <1>a, <3>2, <3>3, <3>4, <3>5
  <2>3. \A b \in Buckets : m \notin retireLists[b]
    BY <2>1 DEF LockInv, HandOnList
  <2>4. \A u \in Threads : m \notin hand'[u]
    BY <2>1 DEF LockInv, HandsApart
  <2>5. \A n \in Nodes, u \in Threads : n \in hand'[u] => n \in hand[u] /\ n # m
    BY <2>1, <2>4
  <2>6. NoUseAfterFree'
    BY <2>1, <2>2 DEF HandInv, NoUseAfterFree
  <2> QED BY <2>1, <2>3, <2>5, <2>6 DEF HandInv
<1>11. ASSUME NEW t \in Threads, NEW m \in Nodes, Retire(t, m) PROVE HandInv'
  <2>1. /\ UNCHANGED <<retireLists, globalEpoch>>
        /\ pc[t] = "pinned" /\ status[m] = "linked"
        /\ \A u \in Threads : u # t => /\ pc'[u] = pc[u] /\ hand'[u] = hand[u]
                                       /\ epoch'[u] = epoch[u]
        /\ tag'[m] = globalEpoch /\ epoch'[t] = globalEpoch
        /\ \A n \in Nodes : n # m => /\ status'[n] = status[n] /\ tag'[n] = tag[n]
                                     /\ waiting'[n] = waiting[n]
        /\ \/ pc'[t] = "push" /\ status'[m] = "retired" /\ hand'[t] = {m}
           \/ pc'[t] = "pinned" /\ status'[m] = "leaked" /\ hand'[t] = hand[t]
    BY <1>11, <1>a DEF Retire, bucketVars, Goto
  <2>2. /\ \A b \in Buckets : m \notin retireLists[b]
        /\ \A u \in Threads : m \notin hand[u]
        /\ hand[t] = {}
    BY <1>a, <2>1 DEF HandInv
  <2>3. NoUseAfterFree'
    BY <2>1 DEF HandInv, NoUseAfterFree
  <2> QED BY <2>1, <2>2, <2>3 DEF HandInv
<1> QED BY <1>1, <1>2, <1>3, <1>4, <1>5, <1>6, <1>7, <1>8, <1>9, <1>10, <1>11,
           NextCases DEF Next

(* A node is on one list, the one its tag selects.                         *)
LEMMA OneList ==
    ASSUME HandInv, NEW n \in Nodes, NEW b \in Buckets, NEW c \in Buckets,
           n \in retireLists[b], n \in retireLists[c]
    PROVE  b = c
BY DEF HandInv

LEMMA LockStep ==
    ASSUME TypeOK, HandInv, LockInv, [Next]_vars
    PROVE  LockInv'
<1>a. /\ pc \in [Threads -> PCs] /\ retireLocks \subseteq Buckets
      /\ epoch \in [Threads -> Nat] /\ hand \in [Threads -> SUBSET Nodes]
      /\ retireLists \in [Buckets -> SUBSET Nodes]
      /\ status \in [Nodes -> {"linked", "retired", "leaked", "freed"}]
  BY DEF TypeOK
<1>b. \A u \in Threads : epoch[u] % 3 \in Buckets /\ OldBucket(u) \in Buckets
  BY <1>a, BucketIndex DEF OldBucket
<1> USE DEF LockInv
<1>1. CASE UNCHANGED vars
  BY <1>1 DEF vars, bucketVars, localVars, nodeVars, LockExclusive, HandOnList,
              HandsApart, SpliceInv, NothingLost, HoldsLock, OldBucket
<1>2. CASE Drain
  <2>1. /\ UNCHANGED <<pc, epoch, hand, retireLocks>>
        /\ \A t \in Threads : pc[t] = "idle"
        /\ \A b \in Buckets : retireLists'[b] = {}
        /\ \A n \in Nodes : status'[n] = "retired" =>
              status[n] = "retired" /\ \A b \in Buckets : n \notin retireLists[b]
    BY <1>2, <1>a DEF Drain, localVars
  <2>2. \A t \in Threads, n \in Nodes : n \notin hand[t]
    BY <2>1 DEF HandInv
  <2> QED BY <2>1, <2>2 DEF LockExclusive, HandOnList, HandsApart, SpliceInv,
                            NothingLost, HoldsLock, OldBucket
<1>3. ASSUME NEW t \in Threads, QuietStep(t) PROVE LockInv'
  <2>1. UNCHANGED <<retireLists, retireLocks, hand, status>>
    BY <1>3, QuietEffect
  <2>2. /\ \A u \in Threads : u # t => pc'[u] = pc[u] /\ epoch'[u] = epoch[u]
        /\ pc[t] \notin {"link", "append", "detach", "clear"}
        /\ pc'[t] \notin {"link", "append", "detach", "clear"}
    BY <1>3, QuietEffect
  <2>3. \A u \in Threads, b \in Buckets : HoldsLock(u, b)' <=> HoldsLock(u, b)
    BY <2>2 DEF HoldsLock, OldBucket
  <2>4. LockExclusive' /\ HandsApart' /\ NothingLost'
    BY <2>1, <2>3 DEF LockExclusive, HandsApart, NothingLost
  <2>5. HandOnList'
    BY <2>1, <2>2, <2>3 DEF HandOnList
  <2>6. SpliceInv'
    BY <2>1, <2>2 DEF SpliceInv, OldBucket
  <2> QED BY <2>4, <2>5, <2>6
<1>4. ASSUME NEW t \in Threads, PushLock(t) PROVE LockInv'
  <2>1. /\ UNCHANGED <<retireLists, hand, status, epoch>>
        /\ pc[t] = "push" /\ pc'[t] = "link"
        /\ \A u \in Threads : u # t => pc'[u] = pc[u]
        /\ epoch[t] % 3 \notin retireLocks
        /\ retireLocks' = retireLocks \cup {epoch[t] % 3}
    BY <1>4, <1>a DEF PushLock, Lock, localVars, nodeVars, Goto
  <2>2. \A u \in Threads, b \in Buckets : u # t => (HoldsLock(u, b)' <=> HoldsLock(u, b))
    BY <2>1 DEF HoldsLock, OldBucket
  <2>3. \A b \in Buckets : ~ HoldsLock(t, b) /\ (HoldsLock(t, b)' <=> b = epoch[t] % 3)
    BY <2>1 DEF HoldsLock, OldBucket
  <2>4. LockExclusive'
    BY <2>1, <2>2, <2>3 DEF LockExclusive
  <2>5. HandOnList'
    BY <2>1, <2>2, <2>3 DEF HandOnList
  <2>6. HandsApart' /\ NothingLost' /\ SpliceInv'
    BY <2>1 DEF HandsApart, NothingLost, SpliceInv, OldBucket
  <2> QED BY <2>4, <2>5, <2>6
<1>5. ASSUME NEW t \in Threads, PushLink(t) PROVE LockInv'
  <2>1. /\ UNCHANGED <<retireLists, retireLocks, status, epoch>>
        /\ pc[t] = "link" /\ pc'[t] = "append"
        /\ \A u \in Threads : u # t => pc'[u] = pc[u] /\ hand'[u] = hand[u]
        /\ hand'[t] = hand[t] \cup retireLists[epoch[t] % 3]
    BY <1>5, <1>a DEF PushLink, bucketVars, nodeVars, Goto
  <2>2. \A u \in Threads, b \in Buckets : HoldsLock(u, b)' <=> HoldsLock(u, b)
    BY <2>1 DEF HoldsLock, OldBucket
  <2>3. HoldsLock(t, epoch[t] % 3)
    BY <2>1 DEF HoldsLock
  <2>4. LockExclusive'
    BY <2>1, <2>2 DEF LockExclusive
  <2>5. HandOnList'
    <3> SUFFICES ASSUME NEW n \in Nodes, NEW u \in Threads, NEW b \in Buckets,
                        n \in hand'[u], n \in retireLists[b]
                 PROVE  HoldsLock(u, b) /\ pc'[u] \in {"append", "clear"}
      BY <2>1, <2>2 DEF HandOnList
    <3>1. CASE u # t
      BY <2>1, <3>1 DEF HandOnList
    <3>2. CASE u = t
      <4>1. n \notin hand[t]
        BY <2>1 DEF HandOnList
      <4>2. n \in retireLists[epoch[t] % 3]
        BY <2>1, <3>2, <4>1
      <4>3. b = epoch[t] % 3
        BY <1>b, <4>2, OneList
      <4> QED BY <2>1, <2>3, <3>2, <4>3
    <3> QED BY <3>1, <3>2
  <2>6. HandsApart'
    <3>1. \A n \in Nodes, u \in Threads :
            u # t /\ n \in retireLists[epoch[t] % 3] => n \notin hand[u]
      BY <1>b, <2>3 DEF HandOnList, LockExclusive
    <3> QED BY <2>1, <3>1 DEF HandsApart
  <2>7. NothingLost' /\ SpliceInv'
    BY <2>1 DEF NothingLost, SpliceInv, OldBucket
  <2> QED BY <2>4, <2>5, <2>6, <2>7
<1>6. ASSUME NEW t \in Threads, PushUnlock(t) PROVE LockInv'
  <2> DEFINE b == epoch[t] % 3
  <2>1. /\ UNCHANGED <<status, epoch>>
        /\ pc[t] = "append" /\ pc'[t] = "load" /\ hand'[t] = {}
        /\ \A u \in Threads : u # t => pc'[u] = pc[u] /\ hand'[u] = hand[u]
        /\ retireLists'[b] = hand[t]
        /\ \A c \in Buckets : c # b => retireLists'[c] = retireLists[c]
        /\ retireLocks' = retireLocks \ {b}
    BY <1>6, <1>a, <1>b DEF PushUnlock, nodeVars, Goto
  <2>2. \A u \in Threads, c \in Buckets : u # t => (HoldsLock(u, c)' <=> HoldsLock(u, c))
    BY <2>1 DEF HoldsLock, OldBucket
  <2>3. \A c \in Buckets : ~ HoldsLock(t, c)'
    BY <2>1 DEF HoldsLock, OldBucket
  <2>4. b \in Buckets /\ HoldsLock(t, b)
    BY <1>b, <2>1 DEF HoldsLock
  <2>5. \A u \in Threads : u # t => ~ HoldsLock(u, b)
    BY <2>4 DEF LockExclusive
  <2> HIDE DEF b
  <2>6. LockExclusive'
    BY <2>1, <2>2, <2>3, <2>5 DEF LockExclusive
  <2>7. HandOnList'
    <3> SUFFICES ASSUME NEW n \in Nodes, NEW u \in Threads, NEW c \in Buckets,
                        n \in hand'[u], n \in retireLists'[c]
                 PROVE  HoldsLock(u, c)' /\ pc'[u] \in {"append", "clear"}
      BY DEF HandOnList
    <3>1. u # t /\ n \in hand[u]
      BY <2>1
    <3>2. c # b /\ n \in retireLists[c]
      BY <2>1, <3>1 DEF HandsApart
    <3> QED BY <2>1, <2>2, <3>1, <3>2 DEF HandOnList
  <2>8. HandsApart'
    BY <2>1 DEF HandsApart
  <2>9. NothingLost'
    <3>1. \A n \in retireLists[b] : n \in retireLists'[b]
      BY <2>1 DEF SpliceInv, b
    <3> QED BY <2>1, <2>4, <3>1 DEF NothingLost
  <2>10. SpliceInv'
    <3>1. \A u \in Threads : u # t =>
            /\ pc[u] = "append" => epoch[u] % 3 # b /\ epoch[u] % 3 \in Buckets
            /\ pc[u] = "clear" => OldBucket(u) # b /\ OldBucket(u) \in Buckets
      BY <1>b, <2>5 DEF HoldsLock
    <3> QED BY <2>1, <3>1 DEF SpliceInv, OldBucket
  <2> QED BY <2>6, <2>7, <2>8, <2>9, <2>10
<1>7. ASSUME NEW t \in Threads, TakeLock(t) PROVE LockInv'
  <2>1. /\ UNCHANGED <<retireLists, hand, status, epoch>>
        /\ pc[t] = "take" /\ pc'[t] = "detach"
        /\ \A u \in Threads : u # t => pc'[u] = pc[u]
        /\ OldBucket(t) \notin retireLocks
        /\ retireLocks' = retireLocks \cup {OldBucket(t)}
    BY <1>7, <1>a DEF TakeLock, Lock, localVars, nodeVars, Goto
  <2>2. \A u \in Threads, b \in Buckets : u # t => (HoldsLock(u, b)' <=> HoldsLock(u, b))
    BY <2>1 DEF HoldsLock, OldBucket
  <2>3. \A b \in Buckets : ~ HoldsLock(t, b) /\ (HoldsLock(t, b)' <=> b = OldBucket(t))
    BY <2>1 DEF HoldsLock, OldBucket
  <2>4. LockExclusive'
    BY <2>1, <2>2, <2>3 DEF LockExclusive
  <2>5. HandOnList'
    BY <2>1, <2>2, <2>3 DEF HandOnList
  <2>6. HandsApart' /\ NothingLost' /\ SpliceInv'
    BY <2>1 DEF HandsApart, NothingLost, SpliceInv, OldBucket
  <2> QED BY <2>4, <2>5, <2>6
<1>8. ASSUME NEW t \in Threads, TakeList(t) PROVE LockInv'
  <2>1. /\ UNCHANGED <<retireLists, retireLocks, status, epoch>>
        /\ pc[t] = "detach" /\ pc'[t] = "clear"
        /\ \A u \in Threads : u # t => pc'[u] = pc[u] /\ hand'[u] = hand[u]
        /\ hand'[t] = retireLists[OldBucket(t)]
    BY <1>8, <1>a DEF TakeList, bucketVars, nodeVars, Goto
  <2>2. \A u \in Threads, b \in Buckets : HoldsLock(u, b)' <=> HoldsLock(u, b)
    BY <2>1 DEF HoldsLock, OldBucket
  <2>3. HoldsLock(t, OldBucket(t))
    BY <2>1 DEF HoldsLock
  <2>4. LockExclusive'
    BY <2>1, <2>2 DEF LockExclusive
  <2>5. HandOnList'
    <3> SUFFICES ASSUME NEW n \in Nodes, NEW u \in Threads, NEW b \in Buckets,
                        n \in hand'[u], n \in retireLists[b]
                 PROVE  HoldsLock(u, b) /\ pc'[u] \in {"append", "clear"}
      BY <2>1, <2>2 DEF HandOnList
    <3>1. CASE u # t
      BY <2>1, <3>1 DEF HandOnList
    <3>2. CASE u = t
      <4>1. b = OldBucket(t)
        BY <1>b, <2>1, <3>2, OneList
      <4> QED BY <2>1, <2>3, <3>2, <4>1
    <3> QED BY <3>1, <3>2
  <2>6. HandsApart'
    <3>1. \A n \in Nodes, u \in Threads :
            u # t /\ n \in retireLists[OldBucket(t)] => n \notin hand[u]
      BY <1>b, <2>3 DEF HandOnList, LockExclusive
    <3> QED BY <2>1, <3>1 DEF HandsApart
  <2>7. SpliceInv'
    BY <2>1 DEF SpliceInv, OldBucket
  <2>8. NothingLost'
    <3>1. \A n \in Nodes : n \notin hand[t]
      BY <2>1 DEF HandInv
    <3> QED BY <2>1, <3>1 DEF NothingLost
  <2> QED BY <2>4, <2>5, <2>6, <2>7, <2>8
<1>9. ASSUME NEW t \in Threads, TakeUnlock(t) PROVE LockInv'
  <2> DEFINE b == OldBucket(t)
  <2>1. /\ UNCHANGED <<status, epoch, hand>>
        /\ pc[t] = "clear" /\ pc'[t] = "free"
        /\ \A u \in Threads : u # t => pc'[u] = pc[u]
        /\ retireLists'[b] = {}
        /\ \A c \in Buckets : c # b => retireLists'[c] = retireLists[c]
        /\ retireLocks' = retireLocks \ {b}
    BY <1>9, <1>a, <1>b DEF TakeUnlock, localVars, nodeVars, Goto
  <2>2. \A u \in Threads, c \in Buckets : u # t => (HoldsLock(u, c)' <=> HoldsLock(u, c))
    BY <2>1 DEF HoldsLock, OldBucket
  <2>3. \A c \in Buckets : ~ HoldsLock(t, c)'
    BY <2>1 DEF HoldsLock, OldBucket
  <2>4. b \in Buckets /\ HoldsLock(t, b) /\ retireLists[b] = hand[t]
    BY <1>b, <2>1 DEF HoldsLock, SpliceInv
  <2>5. \A u \in Threads : u # t => ~ HoldsLock(u, b)
    BY <2>4 DEF LockExclusive
  <2> HIDE DEF b
  <2>6. LockExclusive'
    BY <2>1, <2>2, <2>3, <2>5 DEF LockExclusive
  <2>7. HandOnList'
    <3> SUFFICES ASSUME NEW n \in Nodes, NEW u \in Threads, NEW c \in Buckets,
                        n \in hand[u], n \in retireLists'[c]
                 PROVE  HoldsLock(u, c)' /\ pc'[u] \in {"append", "clear"}
      BY <2>1 DEF HandOnList
    <3>1. c # b /\ n \in retireLists[c]
      BY <2>1
    <3>2. u # t
      BY <2>4, <3>1, OneList
    <3> QED BY <2>1, <2>2, <3>1, <3>2 DEF HandOnList
  <2>8. HandsApart'
    BY <2>1 DEF HandsApart
  <2>9. NothingLost'
    BY <2>1, <2>4 DEF NothingLost
  <2>10. SpliceInv'
    <3>1. \A u \in Threads : u # t =>
            /\ pc[u] = "append" => epoch[u] % 3 # b /\ epoch[u] % 3 \in Buckets
            /\ pc[u] = "clear" => OldBucket(u) # b /\ OldBucket(u) \in Buckets
      BY <1>b, <2>5 DEF HoldsLock
    <3> QED BY <2>1, <3>1 DEF SpliceInv, OldBucket
  <2> QED BY <2>6, <2>7, <2>8, <2>9, <2>10
<1>10. ASSUME NEW t \in Threads, NEW m \in Nodes, FreeOne(t, m) PROVE LockInv'
  <2>1. /\ UNCHANGED <<retireLists, retireLocks, pc, epoch>>
        /\ pc[t] = "free" /\ m \in hand[t] /\ hand'[t] = hand[t] \ {m}
        /\ \A u \in Threads : u # t => hand'[u] = hand[u]
        /\ status'[m] = "freed" /\ \A n \in Nodes : n # m => status'[n] = status[n]
    BY <1>10, <1>a DEF FreeOne, bucketVars, Goto
  <2>2. \A u \in Threads, n \in Nodes : n \in hand'[u] => n \in hand[u]
    BY <2>1
  <2>3. LockExclusive' /\ HandOnList' /\ HandsApart'
    BY <2>1, <2>2 DEF LockExclusive, HandOnList, HandsApart, HoldsLock, OldBucket
  <2>4. SpliceInv'
    BY <2>1 DEF SpliceInv, OldBucket
  <2>5. NothingLost'
    BY <2>1 DEF NothingLost
  <2> QED BY <2>3, <2>4, <2>5
<1>11. ASSUME NEW t \in Threads, NEW m \in Nodes, Retire(t, m) PROVE LockInv'
  <2>1. /\ UNCHANGED <<retireLists, retireLocks>>
        /\ pc[t] = "pinned" /\ status[m] = "linked"
        /\ \A u \in Threads : u # t => /\ pc'[u] = pc[u] /\ hand'[u] = hand[u]
                                       /\ epoch'[u] = epoch[u]
        /\ \A n \in Nodes : n # m => status'[n] = status[n]
        /\ \/ pc'[t] = "push" /\ hand'[t] = {m}
           \/ pc'[t] = "pinned" /\ status'[m] = "leaked" /\ hand'[t] = hand[t]
    BY <1>11, <1>a DEF Retire, bucketVars, Goto
  <2>2. /\ \A b \in Buckets : m \notin retireLists[b]
        /\ \A u \in Threads : m \notin hand[u]
        /\ \A n \in Nodes : n \notin hand[t]
    BY <2>1 DEF HandInv
  <2>3. \A u \in Threads, b \in Buckets : HoldsLock(u, b)' <=> HoldsLock(u, b)
    BY <2>1 DEF HoldsLock, OldBucket
  <2>4. LockExclusive'
    BY <2>1, <2>3 DEF LockExclusive
  <2>5. HandOnList'
    BY <2>1, <2>2, <2>3 DEF HandOnList
  <2>6. HandsApart'
    BY <2>1, <2>2 DEF HandsApart
  <2>7. SpliceInv'
    BY <2>1 DEF SpliceInv, OldBucket
  <2>8. NothingLost'
    BY <2>1, <2>2 DEF NothingLost
  <2> QED BY <2>4, <2>5, <2>6, <2>7, <2>8
<1> QED BY <1>1, <1>2, <1>3, <1>4, <1>5, <1>6, <1>7, <1>8, <1>9, <1>10, <1>11,
           NextCases DEF Next
-----------------------------------------------------------------------------
LEMMA InitInv == Init => IInv
<1> SUFFICES ASSUME Init PROVE IInv
  OBVIOUS
<1>1. TypeOK
  BY MaxThreadsAssumption DEF Init, TypeOK, PCs
<1>2. SlotInv /\ PastInv /\ LagInv
  BY DEF Init, SlotInv, SlotOwnership, Owns, PastInv, LagInv, EpochLag,
         PinnedThreads, PinnedAt, ActiveAt
<1>3. ScanInv /\ TakeInv /\ GraceInv
  BY DEF Init, ScanInv, TakeInv, GraceInv
<1>4. HandInv /\ LockInv
  BY DEF Init, HandInv, NoUseAfterFree, LockInv, LockExclusive, HoldsLock,
         HandOnList, HandsApart, SpliceInv, NothingLost
<1> QED BY <1>1, <1>2, <1>3, <1>4 DEF IInv

LEMMA StepInv == IInv /\ [Next]_vars => IInv'
BY TypeStep, SlotStep, PastStep, LagStep, ScanStep, TakeStep, GraceStep, HandStep,
   LockStep DEF IInv

LEMMA Invariance == Spec => []IInv
BY InitInv, StepInv, PTL DEF Spec

(* Every variable keeps its type.                                          *)
THEOREM TypeCorrect == Spec => []TypeOK
<1>1. IInv => TypeOK
  BY DEF IInv
<1> QED BY <1>1, Invariance, PTL

(* No thread holds a slot another thread holds.                            *)
THEOREM SlotsExclusive == Spec => []SlotOwnership
<1>1. IInv => SlotOwnership
  BY DEF IInv, SlotInv
<1> QED BY <1>1, Invariance, PTL

(* The global epoch is at most one ahead of every pinned thread.           *)
THEOREM EpochBound == Spec => []EpochLag
<1>1. IInv => EpochLag
  BY DEF IInv, LagInv
<1> QED BY <1>1, Invariance, PTL

(* No node is freed while a thread that was pinned when it was retired is  *)
(* still pinned: what skip_ebr_pin_ promises its caller.                   *)
THEOREM Safety == Spec => []NoUseAfterFree
<1>1. IInv => NoUseAfterFree
  BY DEF IInv, HandInv
<1> QED BY <1>1, Invariance, PTL

(* A retired node is always on a retire list or in some thread's hand.     *)
THEOREM Kept == Spec => []NothingLost
<1>1. IInv => NothingLost
  BY DEF IInv, LockInv
<1> QED BY <1>1, Invariance, PTL

(* What a thread is freeing, nobody else can free.                         *)
THEOREM Once == Spec => []FreedOnce
<1>1. IInv => FreedOnce
  <2> SUFFICES ASSUME IInv, NEW t \in Threads, pc[t] = "free",
                      NEW n \in Nodes, n \in hand[t]
               PROVE  /\ status[n] = "retired"
                      /\ \A b \in Buckets : n \notin retireLists[b]
                      /\ \A u \in Threads \ {t} : n \notin hand[u]
    <3>1. IInv => \A t \in Threads : hand[t] \subseteq Nodes
      BY DEF IInv, TypeOK
    <3> QED BY <3>1 DEF FreedOnce
  <2> QED BY DEF IInv, HandInv, LockInv, HandOnList, HandsApart
<1> QED BY <1>1, Invariance, PTL
-----------------------------------------------------------------------------
(* Each step is a step of GracePeriod or changes nothing it can see.       *)
LEMMA FateOf ==
    \A n \in Nodes : /\ status[n] # "leaked" => Fate[n] = status[n]
                     /\ status[n] = "leaked" => Fate[n] = "retired"
BY DEF Fate

LEMMA AbstractStutter ==
    ASSUME UNCHANGED <<status, waiting>>, PinnedThreads' = PinnedThreads
    PROVE  UNCHANGED GP!gpVars
BY DEF GP!gpVars, Fate

LEMMA AbstractInit == Init => GP!Init
BY DEF Init, GP!Init, Fate, PinnedThreads, PinnedAt

LEMMA AbstractStep ==
    ASSUME IInv, [Next]_vars
    PROVE  [GP!Next]_(GP!gpVars)
<1>a. /\ pc \in [Threads -> PCs] /\ waiting \in [Nodes -> SUBSET Threads]
      /\ status \in [Nodes -> {"linked", "retired", "leaked", "freed"}]
  BY DEF IInv, TypeOK
<1>b. HandInv /\ GraceInv
  BY DEF IInv
<1>1. CASE UNCHANGED vars
  <2>1. UNCHANGED <<status, waiting, pc>>
    BY <1>1 DEF vars, nodeVars
  <2> QED BY <2>1, AbstractStutter DEF PinnedThreads
<1>2. CASE Drain
  <2> DEFINE S == {n \in Nodes : \E b \in Buckets : n \in retireLists[b]}
  <2>1. PinnedThreads' = PinnedThreads /\ waiting' = waiting
    BY <1>2 DEF Drain, PinnedThreads
  <2>2. \A n \in S : status[n] = "retired" /\ waiting[n] = {}
    BY <1>2, <1>a, <1>b DEF Drain, HandInv, GraceInv, PinnedAt
  <2>3. \A n \in Nodes : /\ n \in S => status'[n] = "freed"
                         /\ n \notin S => status'[n] = status[n]
    BY <1>2 DEF Drain
  <2>4. Fate' = [n \in Nodes |-> IF n \in S THEN "freed" ELSE Fate[n]]
    BY <2>3 DEF Fate
  <2>5. \A n \in S : Fate[n] = "retired"
    BY <2>2, FateOf
  <2> HIDE DEF S
  <2>6. GP!Free(S)
    BY <2>1, <2>2, <2>4, <2>5 DEF GP!Free
  <2>7. S \in SUBSET Nodes
    BY DEF S
  <2> QED BY <2>6, <2>7 DEF GP!Next
<1>3. ASSUME NEW t \in Threads, Step(t) PROVE [GP!Next]_(GP!gpVars)
  <2>1. CASE PinPublish(t)
    <3>1. t \notin PinnedThreads /\ PinnedThreads' = PinnedThreads \cup {t}
      BY <2>1, <1>a DEF PinPublish, PinnedThreads, PinnedAt, Goto
    <3>2. UNCHANGED <<status, waiting>>
      BY <2>1 DEF PinPublish, nodeVars
    <3>3. GP!Pin(t)
      BY <3>1, <3>2 DEF GP!Pin, Fate
    <3> QED BY <3>3 DEF GP!Next
  <2>2. ASSUME NEW n \in Nodes, FreeOne(t, n) PROVE [GP!Next]_(GP!gpVars)
    <3>1. PinnedThreads' = PinnedThreads /\ UNCHANGED waiting
      BY <2>2 DEF FreeOne, PinnedThreads
    <3>2. status[n] = "retired"
      BY <2>2, <1>b DEF FreeOne, HandInv
    <3>3. status' = [status EXCEPT ![n] = "freed"]
      BY <2>2 DEF FreeOne
    <3>4. waiting[n] = {}
      <4>1. HandInv'
        BY HandStep DEF IInv
      <4>2. status'[n] = "freed"
        BY <1>a, <3>3
      <4> QED BY <3>1, <4>1, <4>2 DEF HandInv, NoUseAfterFree
    <3>5. Fate' = [m \in Nodes |-> IF m \in {n} THEN "freed" ELSE Fate[m]]
      BY <1>a, <3>3 DEF Fate
    <3>6. Fate[n] = "retired"
      BY <3>2, FateOf
    <3>7. GP!Free({n})
      BY <3>1, <3>4, <3>5, <3>6 DEF GP!Free
    <3> QED BY <3>7 DEF GP!Next
  <2>3. CASE ~ PinPublish(t) /\ ~ \E n \in Nodes : FreeOne(t, n)
    <3>1. UNCHANGED <<status, waiting>>
      BY <1>3, <2>3 DEF Step, nodeVars, RegisterClaim, RegisterSkip,
         RegisterReset, RegisterRaise, UnregisterRelease, PinRead, PushLock,
         PushLink, PushUnlock, AdvanceLoad, AdvanceCount, ScanActive, ScanLocal,
         AdvanceCas, TakeLock, TakeList, TakeUnlock, FreeDone
    <3>2. \A u \in Threads : pc'[u] \in PinnedAt <=> pc[u] \in PinnedAt
      BY <1>3, <1>a, <2>3 DEF Step, Goto, PinnedAt, RegisterClaim, RegisterSkip,
         RegisterReset, RegisterRaise, UnregisterRelease, PinRead, PushLock,
         PushLink, PushUnlock, AdvanceLoad, AdvanceCount, ScanActive, ScanLocal,
         AdvanceCas, TakeLock, TakeList, TakeUnlock, FreeDone
    <3> QED BY <3>1, <3>2, AbstractStutter DEF PinnedThreads
  <2> QED BY <2>1, <2>2, <2>3
<1>4. ASSUME NEW t \in Threads, Call(t) PROVE [GP!Next]_(GP!gpVars)
  <2>1. CASE Unpin(t)
    <3>1. t \in PinnedThreads /\ PinnedThreads' = PinnedThreads \ {t}
      BY <2>1, <1>a DEF Unpin, PinnedThreads, PinnedAt, Goto
    <3>2. UNCHANGED status /\ waiting' = [n \in Nodes |-> waiting[n] \ {t}]
      BY <2>1 DEF Unpin
    <3>3. GP!Unpin(t)
      BY <3>1, <3>2 DEF GP!Unpin, Fate
    <3> QED BY <3>3 DEF GP!Next
  <2>2. ASSUME NEW n \in Nodes, Retire(t, n) PROVE [GP!Next]_(GP!gpVars)
    <3>1. /\ t \in PinnedThreads /\ PinnedThreads' = PinnedThreads
          /\ waiting' = [waiting EXCEPT ![n] = PinnedThreads]
      BY <2>2, <1>a DEF Retire, PinnedThreads, PinnedAt, Goto
    <3>2. /\ status[n] = "linked" /\ status'[n] \in {"retired", "leaked"}
          /\ \A m \in Nodes : m # n => status'[m] = status[m]
      BY <2>2, <1>a DEF Retire
    <3>3. Fate[n] = "linked" /\ Fate' = [Fate EXCEPT ![n] = "retired"]
      BY <3>2 DEF Fate
    <3>4. GP!Retire(t, n)
      BY <3>1, <3>3 DEF GP!Retire
    <3> QED BY <3>4 DEF GP!Next
  <2>3. CASE ~ Unpin(t) /\ ~ \E n \in Nodes : Retire(t, n)
    <3>1. UNCHANGED <<status, waiting>>
      BY <1>4, <2>3 DEF Call, nodeVars, RegisterStart, UnregisterClear, PinAnnounce
    <3>2. \A u \in Threads : pc'[u] \in PinnedAt <=> pc[u] \in PinnedAt
      BY <1>4, <1>a, <2>3 DEF Call, Goto, PinnedAt, RegisterStart,
         UnregisterClear, PinAnnounce
    <3> QED BY <3>1, <3>2, AbstractStutter DEF PinnedThreads
  <2> QED BY <2>1, <2>2, <2>3
<1> QED BY <1>1, <1>2, <1>3, <1>4 DEF Next

(* Epoch-based reclamation implements the grace period: the epoch          *)
(* arithmetic, the slots and the buckets release a node only when every    *)
(* thread pinned at its retirement has unpinned.                           *)
THEOREM Implements == Spec => Reclamation
<1>1. Init => GP!Init
  BY AbstractInit
<1>2. IInv /\ [Next]_vars => [GP!Next]_(GP!gpVars)
  BY AbstractStep
<1> QED BY <1>1, <1>2, Invariance, PTL DEF Spec, Reclamation, GP!Spec
=============================================================================
