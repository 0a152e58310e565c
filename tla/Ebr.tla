-------------------------------- MODULE Ebr --------------------------------
(***************************************************************************)
(* Epoch-based reclamation (SKIPLIST_DECL_EBR).  Threads claim a slot,     *)
(* pin and unpin it around their operations, and retire nodes they have    *)
(* unlinked; a retire tries to advance the global epoch and, when it does, *)
(* frees the bucket two epochs behind.                                     *)
(*                                                                         *)
(* Every atomic access to shared memory is a step of its own; accesses to  *)
(* memory only one thread can observe are folded into the next step.  The  *)
(* sequentially consistent fences of pin and try_advance order the two     *)
(* accesses that matter (announce/read epoch against read epoch/scan), so  *)
(* the accesses are modelled as sequentially consistent.                   *)
(*                                                                         *)
(* The calling contract of the header is part of the model: a thread pins  *)
(* only a slot it owns, retires only while pinned, unregisters only while  *)
(* unpinned, and drain runs when no thread is active.                      *)
(***************************************************************************)
EXTENDS Integers

CONSTANTS
    Threads,
    Nodes,
    MaxThreads      \* SKIPLIST_EBR_MAX_THREADS

ASSUME MaxThreadsAssumption == MaxThreads \in Nat \ {0}

Slots == 0 .. MaxThreads - 1
Buckets == 0 .. 2
NoSlot == -1        \* what register returns when every slot is taken

VARIABLES
    \* struct _skip_ebr; the flags are the sets of indices they are raised for
    globalEpoch, threadCount, retireLists, retireLocks,
    \* struct _skip_ebr_thread, one per slot
    localEpoch, active, inUse,
    \* the threads: where each one is, and its local variables; hand is the
    \* entry a thread is about to push or the list it has taken to free
    pc, tid, epoch, idx, tc, hand,
    \* history: the fate of each node, the epoch it was retired under, and
    \* the threads pinned when it was retired that have not unpinned since
    status, tag, waiting

slotVars   == <<localEpoch, active, inUse, threadCount>>
bucketVars == <<retireLists, retireLocks>>
localVars  == <<tid, epoch, idx, tc, hand>>
nodeVars   == <<status, tag, waiting>>
vars == <<globalEpoch, slotVars, bucketVars, pc, localVars, nodeVars>>

(* A thread is pinned from the return of pin to the store in unpin; its    *)
(* slot is announced active from the first store of pin.                   *)
PinnedAt == {"pinned", "push", "link", "append", "load", "count", "scan",
             "local", "take", "detach", "clear", "free"}
ActiveAt == PinnedAt \cup {"readge", "publish"}
PCs      == ActiveAt \cup {"idle", "claim", "reset", "raise", "release"}

PinnedThreads == {t \in Threads : pc[t] \in PinnedAt}

Goto(t, l) == pc' = [pc EXCEPT ![t] = l]

Init ==
    /\ globalEpoch = 1
    /\ threadCount = 0
    /\ retireLists = [b \in Buckets |-> {}]
    /\ retireLocks = {}
    /\ localEpoch = [s \in Slots |-> 0]
    /\ active = {}
    /\ inUse = {}
    /\ pc = [t \in Threads |-> "idle"]
    /\ tid = [t \in Threads |-> NoSlot]
    /\ epoch = [t \in Threads |-> 0]
    /\ idx = [t \in Threads |-> 0]
    /\ tc = [t \in Threads |-> 0]
    /\ hand = [t \in Threads |-> {}]
    /\ status = [n \in Nodes |-> "linked"]
    /\ tag = [n \in Nodes |-> 0]
    /\ waiting = [n \in Nodes |-> {}]
-----------------------------------------------------------------------------
(* skip_ebr_register_: scan the slots in order and claim the first whose   *)
(* in_use flag the CAS raises.                                             *)
RegisterStart(t) ==
    /\ pc[t] = "idle" /\ tid[t] = NoSlot
    /\ Goto(t, "claim")
    /\ idx' = [idx EXCEPT ![t] = 0]
    /\ UNCHANGED <<globalEpoch, slotVars, bucketVars, tid, epoch, tc, hand,
                   nodeVars>>

RegisterShare(t) ==                                                    \* mutant
    /\ pc[t] = "claim"
    /\ inUse' = inUse \cup {idx[t]}
    /\ tid' = [tid EXCEPT ![t] = idx[t]]
    /\ Goto(t, "reset")
    /\ UNCHANGED <<globalEpoch, localEpoch, active, threadCount, bucketVars,
                   epoch, idx, tc, hand, nodeVars>>
RegisterClaim(t) ==
    /\ pc[t] = "claim"
    /\ idx[t] \notin inUse
    /\ inUse' = inUse \cup {idx[t]}
    /\ tid' = [tid EXCEPT ![t] = idx[t]]
    /\ Goto(t, "reset")
    /\ UNCHANGED <<globalEpoch, localEpoch, active, threadCount, bucketVars,
                   epoch, idx, tc, hand, nodeVars>>

RegisterSkip(t) ==
    /\ pc[t] = "claim"
    /\ idx[t] \in inUse
    /\ \/ /\ idx[t] + 1 < MaxThreads
          /\ idx' = [idx EXCEPT ![t] = @ + 1]
          /\ UNCHANGED pc
       \/ /\ idx[t] + 1 = MaxThreads
          /\ Goto(t, "idle")                        \* return -1
          /\ UNCHANGED idx
    /\ UNCHANGED <<globalEpoch, slotVars, bucketVars, tid, epoch, tc, hand,
                   nodeVars>>

\* Two stores to a slot nobody reads the epoch of: it is not active.
RegisterReset(t) ==
    /\ pc[t] = "reset"
    /\ localEpoch' = [localEpoch EXCEPT ![tid[t]] = 0]
    /\ active' = active \ {tid[t]}
    /\ Goto(t, "raise")
    /\ UNCHANGED <<globalEpoch, inUse, threadCount, bucketVars, localVars,
                   nodeVars>>

\* The CAS loop amounts to an atomic maximum.
RegisterCount(t) ==                                                    \* mutant
    /\ pc[t] = "raise"
    /\ threadCount' = threadCount + 1
    /\ Goto(t, "idle")
    /\ UNCHANGED <<globalEpoch, localEpoch, active, inUse, bucketVars,
                   localVars, nodeVars>>
RegisterRaise(t) ==
    /\ pc[t] = "raise"
    /\ \/ tid[t] + 1 > threadCount /\ threadCount' = tid[t] + 1
       \/ tid[t] + 1 <= threadCount /\ UNCHANGED threadCount
    /\ Goto(t, "idle")
    /\ UNCHANGED <<globalEpoch, localEpoch, active, inUse, bucketVars,
                   localVars, nodeVars>>

(* skip_ebr_unregister_ *)
UnregisterClear(t) ==
    /\ pc[t] = "idle" /\ tid[t] # NoSlot
    /\ active' = active \ {tid[t]}
    /\ Goto(t, "release")
    /\ UNCHANGED <<globalEpoch, localEpoch, inUse, threadCount, bucketVars,
                   localVars, nodeVars>>

UnregisterRelease(t) ==
    /\ pc[t] = "release"
    /\ inUse' = inUse \ {tid[t]}
    /\ tid' = [tid EXCEPT ![t] = NoSlot]
    /\ Goto(t, "idle")
    /\ UNCHANGED <<globalEpoch, localEpoch, active, threadCount, bucketVars,
                   epoch, idx, tc, hand, nodeVars>>
-----------------------------------------------------------------------------
(* skip_ebr_check_tid_ aborts unless the slot is registered; the contract  *)
(* keeps every caller inside it.                                           *)
Registered(t) == tid[t] # NoSlot /\ tid[t] \in inUse

(* skip_ebr_pin_: announce, then read the epoch, then publish it.          *)
PinAnnounce(t) ==
    /\ pc[t] = "idle" /\ Registered(t)
    /\ active' = active \cup {tid[t]}
    /\ Goto(t, "readge")
    /\ UNCHANGED <<globalEpoch, localEpoch, inUse, threadCount, bucketVars,
                   localVars, nodeVars>>

PinRead(t) ==
    /\ pc[t] = "readge"
    /\ epoch' = [epoch EXCEPT ![t] = globalEpoch]
    /\ Goto(t, "publish")
    /\ UNCHANGED <<globalEpoch, slotVars, bucketVars, tid, idx, tc, hand,
                   nodeVars>>

PinPublish(t) ==
    /\ pc[t] = "publish"
    /\ localEpoch' = [localEpoch EXCEPT ![tid[t]] = epoch[t]]
    /\ Goto(t, "pinned")
    /\ UNCHANGED <<globalEpoch, active, inUse, threadCount, bucketVars,
                   localVars, nodeVars>>

(* skip_ebr_unpin_ *)
Unpin(t) ==
    /\ pc[t] = "pinned" /\ Registered(t)
    /\ active' = active \ {tid[t]}
    /\ waiting' = [n \in Nodes |-> waiting[n] \ {t}]
    /\ Goto(t, "idle")
    /\ UNCHANGED <<globalEpoch, localEpoch, inUse, threadCount, bucketVars,
                   localVars, status, tag>>
-----------------------------------------------------------------------------
(* skip_ebr_retire_ of a node its remover has just unlinked: read the      *)
(* epoch and allocate the entry.  When malloc fails the node is leaked.    *)
Retire(t, n) ==
    /\ pc[t] = "pinned" /\ status[n] = "linked"
    /\ tag' = [tag EXCEPT ![n] = globalEpoch]
    /\ waiting' = [waiting EXCEPT ![n] = PinnedThreads]
    /\ epoch' = [epoch EXCEPT ![t] = globalEpoch]
    /\ \/ /\ status' = [status EXCEPT ![n] = "retired"]
          /\ hand' = [hand EXCEPT ![t] = {n}]
          /\ Goto(t, "push")
       \/ /\ status' = [status EXCEPT ![n] = "leaked"]   \* entry == NULL
          /\ UNCHANGED <<hand, pc>>
    /\ UNCHANGED <<globalEpoch, slotVars, bucketVars, tid, idx, tc>>

LockAnyway(b) == retireLocks' = retireLocks \cup {b}                    \* mutant
Lock(b) ==
    /\ b \notin retireLocks
    /\ retireLocks' = retireLocks \cup {b}

PushLock(t) ==
    /\ pc[t] = "push"
    /\ Lock(epoch[t] % 3)
    /\ Goto(t, "link")
    /\ UNCHANGED <<globalEpoch, slotVars, retireLists, localVars, nodeVars>>

\* entry->next = head of the list
PushLink(t) ==
    /\ pc[t] = "link"
    /\ hand' = [hand EXCEPT ![t] = @ \cup retireLists[epoch[t] % 3]]
    /\ Goto(t, "append")
    /\ UNCHANGED <<globalEpoch, slotVars, bucketVars, tid, epoch, idx, tc,
                   nodeVars>>

\* head of the list = entry; unlock
PushKeepsLock(t) ==                                                    \* mutant
    /\ pc[t] = "append"
    /\ retireLists' = [retireLists EXCEPT ![epoch[t] % 3] = hand[t]]
    /\ hand' = [hand EXCEPT ![t] = {}]
    /\ Goto(t, "load")
    /\ UNCHANGED <<globalEpoch, slotVars, retireLocks, tid, epoch, idx, tc, nodeVars>>
PushUnlock(t) ==
    /\ pc[t] = "append"
    /\ retireLists' = [retireLists EXCEPT ![epoch[t] % 3] = hand[t]]
    /\ retireLocks' = retireLocks \ {epoch[t] % 3}
    /\ hand' = [hand EXCEPT ![t] = {}]
    /\ Goto(t, "load")
    /\ UNCHANGED <<globalEpoch, slotVars, tid, epoch, idx, tc, nodeVars>>
-----------------------------------------------------------------------------
(* skip_ebr_try_advance_: read the epoch and the high-water mark, ...      *)
AdvanceLoad(t) ==
    /\ pc[t] = "load"
    /\ epoch' = [epoch EXCEPT ![t] = globalEpoch]
    /\ Goto(t, "count")
    /\ UNCHANGED <<globalEpoch, slotVars, bucketVars, tid, idx, tc, hand,
                   nodeVars>>

AdvanceSkipsFirst(t) ==                                                \* mutant
    /\ pc[t] = "count"
    /\ tc' = [tc EXCEPT ![t] = threadCount]
    /\ idx' = [idx EXCEPT ![t] = 1]
    /\ Goto(t, "scan")
    /\ UNCHANGED <<globalEpoch, slotVars, bucketVars, tid, epoch, hand,
                   nodeVars>>
AdvanceCount(t) ==
    /\ pc[t] = "count"
    /\ tc' = [tc EXCEPT ![t] = threadCount]
    /\ idx' = [idx EXCEPT ![t] = 0]
    /\ Goto(t, "scan")
    /\ UNCHANGED <<globalEpoch, slotVars, bucketVars, tid, epoch, hand,
                   nodeVars>>

\* ... look at every slot below it, ...
ScanActive(t) ==
    /\ pc[t] = "scan" /\ idx[t] < tc[t]
    /\ \/ /\ idx[t] \in active
          /\ Goto(t, "local")
          /\ UNCHANGED idx
       \/ /\ idx[t] \notin active
          /\ idx' = [idx EXCEPT ![t] = @ + 1]
          /\ UNCHANGED pc
    /\ UNCHANGED <<globalEpoch, slotVars, bucketVars, tid, epoch, tc, hand,
                   nodeVars>>

ScanLocal(t) ==
    /\ pc[t] = "local"
    /\ \/ /\ localEpoch[idx[t]] < epoch[t]           \* it has not caught up
          /\ Goto(t, "pinned")
          /\ UNCHANGED idx
       \/ /\ localEpoch[idx[t]] >= epoch[t]
          /\ Goto(t, "scan")
          /\ idx' = [idx EXCEPT ![t] = @ + 1]
    /\ UNCHANGED <<globalEpoch, slotVars, bucketVars, tid, epoch, tc, hand,
                   nodeVars>>

\* ... and bump the epoch unless another thread has.  The epoch starts at
\* 1, so the early return for new_epoch < 2 is never taken.
AdvanceCas(t) ==
    /\ pc[t] = "scan" /\ idx[t] >= tc[t]
    /\ \/ /\ globalEpoch = epoch[t]
          /\ globalEpoch' = globalEpoch + 1
          /\ Goto(t, "take")
       \/ /\ globalEpoch # epoch[t]
          /\ Goto(t, "pinned")
          /\ UNCHANGED globalEpoch
    /\ UNCHANGED <<slotVars, bucketVars, localVars, nodeVars>>

\* new_epoch - 2, with new_epoch = cur_epoch + 1
NewestBucket(t) == epoch[t] % 3                                        \* mutant
OldBucket(t) == (epoch[t] - 1) % 3

TakeLock(t) ==
    /\ pc[t] = "take"
    /\ Lock(OldBucket(t))
    /\ Goto(t, "detach")
    /\ UNCHANGED <<globalEpoch, slotVars, retireLists, localVars, nodeVars>>

TakeList(t) ==
    /\ pc[t] = "detach"
    /\ hand' = [hand EXCEPT ![t] = retireLists[OldBucket(t)]]
    /\ Goto(t, "clear")
    /\ UNCHANGED <<globalEpoch, slotVars, bucketVars, tid, epoch, idx, tc,
                   nodeVars>>

TakeKeeps(t) ==                                                        \* mutant
    /\ pc[t] = "clear"
    /\ retireLocks' = retireLocks \ {OldBucket(t)}
    /\ Goto(t, "free")
    /\ UNCHANGED <<globalEpoch, slotVars, retireLists, localVars, nodeVars>>
TakeUnlock(t) ==
    /\ pc[t] = "clear"
    /\ retireLists' = [retireLists EXCEPT ![OldBucket(t)] = {}]
    /\ retireLocks' = retireLocks \ {OldBucket(t)}
    /\ Goto(t, "free")
    /\ UNCHANGED <<globalEpoch, slotVars, localVars, nodeVars>>

\* The order of the list does not matter to anyone: free any node of it.
FreeOne(t, n) ==
    /\ pc[t] = "free" /\ n \in hand[t]
    /\ status' = [status EXCEPT ![n] = "freed"]
    /\ hand' = [hand EXCEPT ![t] = @ \ {n}]
    /\ UNCHANGED <<globalEpoch, slotVars, bucketVars, pc, tid, epoch, idx, tc,
                   tag, waiting>>

FreeDone(t) ==
    /\ pc[t] = "free" /\ hand[t] = {}
    /\ Goto(t, "pinned")
    /\ UNCHANGED <<globalEpoch, slotVars, bucketVars, localVars, nodeVars>>

(* skip_ebr_drain_, called when no thread is active.                       *)
Drain ==
    /\ \A t \in Threads : pc[t] = "idle"
    /\ \E b \in Buckets : retireLists[b] # {}
    /\ status' = [n \in Nodes |-> IF \E b \in Buckets : n \in retireLists[b]
                                    THEN "freed" ELSE status[n]]
    /\ retireLists' = [b \in Buckets |-> {}]
    /\ UNCHANGED <<globalEpoch, slotVars, retireLocks, pc, localVars, tag,
                   waiting>>
-----------------------------------------------------------------------------
(* The steps of a call in progress: the scheduler runs them eventually.    *)
Step(t) ==
    \/ RegisterClaim(t) \/ RegisterSkip(t) \/ RegisterReset(t)
    \/ RegisterRaise(t) \/ UnregisterRelease(t)
    \/ PinRead(t) \/ PinPublish(t)
    \/ PushLock(t) \/ PushLink(t) \/ PushUnlock(t)
    \/ AdvanceLoad(t) \/ AdvanceCount(t) \/ ScanActive(t) \/ ScanLocal(t)
    \/ AdvanceCas(t) \/ TakeLock(t) \/ TakeList(t) \/ TakeUnlock(t)
    \/ (\E n \in Nodes : FreeOne(t, n)) \/ FreeDone(t)

(* The calls a thread may make, when it chooses to.                        *)
Call(t) ==
    \/ RegisterStart(t) \/ UnregisterClear(t)
    \/ PinAnnounce(t) \/ Unpin(t)
    \/ \E n \in Nodes : Retire(t, n)

Next == Drain \/ \E t \in Threads : Step(t) \/ Call(t)

Spec == Init /\ [][Next]_vars

(* A call in progress keeps running.  The retire locks are test-and-set    *)
(* spinlocks, but only finitely many retirements contend for them.         *)
FairSpec == Spec /\ \A t \in Threads : WF_vars(Step(t))
-----------------------------------------------------------------------------
TypeOK ==
    /\ globalEpoch \in Nat \ {0}
    /\ threadCount \in 0 .. MaxThreads
    /\ retireLists \in [Buckets -> SUBSET Nodes]
    /\ retireLocks \subseteq Buckets
    /\ localEpoch \in [Slots -> Nat]
    /\ active \subseteq Slots
    /\ inUse \subseteq Slots
    /\ pc \in [Threads -> PCs]
    /\ tid \in [Threads -> Slots \cup {NoSlot}]
    /\ epoch \in [Threads -> Nat]
    /\ idx \in [Threads -> Nat]
    /\ tc \in [Threads -> 0 .. MaxThreads]
    /\ hand \in [Threads -> SUBSET Nodes]
    /\ status \in [Nodes -> {"linked", "retired", "leaked", "freed"}]
    /\ tag \in [Nodes -> Nat]
    /\ waiting \in [Nodes -> SUBSET Threads]

(* No thread that was pinned when a node was retired is still pinned when  *)
(* the node is freed: a reference obtained under a pin stays valid until   *)
(* the unpin (skip_ebr_pin_, "nodes must not be freed until it unpins").   *)
NoUseAfterFree ==
    \A n \in Nodes : status[n] = "freed" => waiting[n] = {}

(* Two threads never own one slot, so no thread's announcement is          *)
(* overwritten or withdrawn by another (register, unregister recycling).   *)
SlotOwnership ==
    \A t, u \in Threads : tid[t] # NoSlot /\ tid[t] = tid[u] => t = u

(* The epoch cannot run ahead of a pinned thread by more than one, which   *)
(* is what makes three buckets enough.                                     *)
EpochLag ==
    \A t \in PinnedThreads : globalEpoch <= localEpoch[tid[t]] + 1

(* The retire lists are spliced under their locks: a retired node stays on *)
(* a list or in some thread's hand until it is freed, so it is freed, ...   *)
NothingLost ==
    \A n \in Nodes : status[n] = "retired" =>
        \/ \E b \in Buckets : n \in retireLists[b]
        \/ \E t \in Threads : n \in hand[t]

(* ... and freed once: what a thread is about to free is on no list and in *)
(* no other thread's hand.                                                 *)
FreedOnce ==
    \A t \in Threads : pc[t] = "free" =>
        \A n \in hand[t] :
            /\ status[n] = "retired"
            /\ \A b \in Buckets : n \notin retireLists[b]
            /\ \A u \in Threads \ {t} : n \notin hand[u]

(* Every call returns.                                                     *)
CallsReturn ==
    \A t \in Threads :
        pc[t] \notin {"idle", "pinned"} ~> pc[t] \in {"idle", "pinned"}

(* Reclamation as the list relies on it; a leaked node is one that stays  *)
(* retired.                                                                *)
Fate == [n \in Nodes |-> IF status[n] = "leaked" THEN "retired" ELSE status[n]]
GP == INSTANCE GracePeriod WITH pinned <- PinnedThreads, status <- Fate
Reclamation == GP!Spec
=============================================================================
