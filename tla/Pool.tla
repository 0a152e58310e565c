-------------------------------- MODULE Pool --------------------------------
(***************************************************************************)
(* The node pool (SKIPLIST_DECL_POOL): a slab of slots with a state word   *)
(* each, claimed by compare-and-swap from a rotating cursor and released   *)
(* by a store, from any thread.                                            *)
(*                                                                         *)
(* Every access to a slot's state word, the cursor and the slab is a step. *)
(* A slot that was handed to a caller is in `out` until somebody releases  *)
(* it: the caller passes the node to a list, and the list to reclamation,  *)
(* so any thread may be the one that does.                                 *)
(*                                                                         *)
(* The calling contract of the header is part of the model: nodes are      *)
(* released once and not written afterwards, the pool is attached and      *)
(* destroyed while nobody allocates, and a pool that is attached to no     *)
(* list is destroyed only when all its nodes are back.                     *)
(***************************************************************************)
EXTENDS Integers

CONSTANTS
    Threads,
    HeapNodes,      \* nodes that malloc hands out
    Capacity,       \* the capacity passed to init
    CursorLimit     \* the values of the cursor, a size_t

ASSUME CapacityAssumption == Capacity \in Nat \ {0}
ASSUME CursorAssumption == CursorLimit \in Nat \ {0} /\ Capacity <= CursorLimit

Slots == 0 .. Capacity - 1
NoSlot == -1        \* the NULL that alloc returns

VARIABLES
    \* struct _skip_pool; used is the set of slots whose state is 1
    capacity, slab, used, cursor, attached,
    \* what the slots hold, and the nodes that are allocated
    dirty, out, heap,
    \* the threads: where each one is, and its local variables
    pc, cap, start, tries, slot,
    \* history: the slots that were used at some moment of the alloc
    seen

poolVars == <<capacity, slab, used, cursor, attached>>
nodeVars == <<dirty, out, heap>>
scanVars == <<cap, start, tries>>
vars == <<poolVars, nodeVars, pc, scanVars, slot, seen>>

AllocAt   == {"probe", "zero", "got", "null"}
PCs       == AllocAt \cup {"idle", "store", "check", "teardown"}

Goto(t, l) == pc' = [pc EXCEPT ![t] = l]

Allocating == {t \in Threads : pc[t] \in AllocAt}
Destroying == {t \in Threads : pc[t] \in {"check", "teardown"}}
Releasing  == {t \in Threads : pc[t] = "store"}

Init ==
    /\ capacity = 0 /\ slab = FALSE /\ used = {} /\ cursor = 0 /\ attached = FALSE
    /\ dirty = {} /\ out = {} /\ heap = {}
    /\ pc    = [t \in Threads |-> "idle"]
    /\ cap   = [t \in Threads |-> 0]
    /\ start = [t \in Threads |-> 0]
    /\ tries = [t \in Threads |-> 0]
    /\ slot  = [t \in Threads |-> NoSlot]
    /\ seen  = [t \in Threads |-> {}]

-----------------------------------------------------------------------------
(* skip_pool_init_: nobody else knows the pool yet.  When an allocation    *)
(* fails the capacity has been set and there is no slab.                   *)
PoolInit(t) ==
    /\ \A u \in Threads : pc[u] = "idle"
    /\ ~slab
    /\ capacity' = Capacity
    /\ \/ /\ slab' = TRUE /\ used' = {} /\ cursor' = 0 /\ attached' = FALSE
          /\ dirty' = {}
       \/ UNCHANGED <<slab, used, cursor, attached, dirty>>
    /\ UNCHANGED <<out, heap, pc, scanVars, slot, seen>>

(* skip_pool_attach_                                                       *)
Attach(t) ==
    /\ slab
    /\ pc[t] = "idle"
    /\ Allocating \cup Destroying = {}
    /\ ~attached /\ attached' = TRUE
    /\ UNCHANGED <<capacity, slab, used, cursor, nodeVars, pc, scanVars, slot, seen>>

-----------------------------------------------------------------------------
(* skip_pool_alloc_: the cursor is incremented, then up to capacity slots  *)
(* are tried from there on.  A destroyed pool has no slots to try.         *)
AllocStart(t) ==
    /\ pc[t] = "idle"
    /\ slab \/ capacity = 0
    /\ Destroying = {}
    /\ cap' = [cap EXCEPT ![t] = capacity]
    /\ start' = [start EXCEPT ![t] = cursor]
    /\ cursor' = (cursor + 1) % CursorLimit
    /\ tries' = [tries EXCEPT ![t] = 0]
    /\ seen' = [seen EXCEPT ![t] = used]
    /\ Goto(t, "probe")
    /\ UNCHANGED <<capacity, slab, used, attached, nodeVars, slot>>

(* The slot tried: start + tries is a size_t.                              *)
ProbedRaw(t) == (start[t] + tries[t]) % CursorLimit                    \* mutant
Probed(t) == ((start[t] + tries[t]) % CursorLimit) % cap[t]

ClaimBlind(t) ==                                                       \* mutant
    /\ used' = used \cup {Probed(t)}
    /\ slot' = [slot EXCEPT ![t] = Probed(t)]
    /\ seen' = [u \in Threads |->
                  IF u \in Allocating THEN seen[u] \cup {Probed(t)} ELSE seen[u]]
    /\ Goto(t, "zero")
    /\ UNCHANGED tries
Claim(t) ==
    /\ Probed(t) \notin used
    /\ used' = used \cup {Probed(t)}
    /\ slot' = [slot EXCEPT ![t] = Probed(t)]
    /\ seen' = [u \in Threads |->
                  IF u \in Allocating THEN seen[u] \cup {Probed(t)} ELSE seen[u]]
    /\ Goto(t, "zero")
    /\ UNCHANGED tries

Taken(t) ==
    /\ Probed(t) \in used
    /\ tries' = [tries EXCEPT ![t] = @ + 1]
    /\ UNCHANGED <<used, slot, seen, pc>>

Probe(t) ==
    /\ pc[t] = "probe"
    /\ tries[t] < cap[t]
    /\ Claim(t) \/ Taken(t)
    /\ UNCHANGED <<capacity, slab, cursor, attached, nodeVars, cap, start>>

ExhaustedEarly(t) ==                                                   \* mutant
    /\ pc[t] = "probe"
    /\ tries[t] + 1 >= cap[t]
    /\ slot' = [slot EXCEPT ![t] = NoSlot]
    /\ Goto(t, "null")
    /\ UNCHANGED <<poolVars, nodeVars, scanVars, seen>>
Exhausted(t) ==
    /\ pc[t] = "probe"
    /\ tries[t] >= cap[t]
    /\ slot' = [slot EXCEPT ![t] = NoSlot]
    /\ Goto(t, "null")
    /\ UNCHANGED <<poolVars, nodeVars, scanVars, seen>>

(* The claimed slot is cleared and its levels array set up.                *)
ZeroHead(t) ==                                                         \* mutant
    /\ pc[t] = "zero"
    /\ Goto(t, "got")
    /\ UNCHANGED <<poolVars, nodeVars, scanVars, slot, seen>>
Zero(t) ==
    /\ pc[t] = "zero"
    /\ dirty' = dirty \ {slot[t]}
    /\ Goto(t, "got")
    /\ UNCHANGED <<poolVars, out, heap, scanVars, slot, seen>>

Forget(t) ==
    /\ slot' = [slot EXCEPT ![t] = NoSlot]
    /\ seen' = [seen EXCEPT ![t] = {}]
    /\ tries' = [tries EXCEPT ![t] = 0]
    /\ start' = [start EXCEPT ![t] = 0]
    /\ cap' = [cap EXCEPT ![t] = 0]
    /\ Goto(t, "idle")

(* skip_pool_alloc_node_ returns the node, or ENOMEM when there is none.   *)
AllocReturn(t) ==
    /\ \/ pc[t] = "got" /\ out' = out \cup {slot[t]}
       \/ pc[t] = "null" /\ UNCHANGED out
    /\ Forget(t)
    /\ UNCHANGED <<poolVars, dirty, heap>>

(* The caller of a failed alloc may take a node from the heap.             *)
AllocHeap(t, n) ==
    /\ pc[t] = "idle"
    /\ n \notin heap
    /\ heap' = heap \cup {n}
    /\ UNCHANGED <<poolVars, dirty, out, pc, scanVars, slot, seen>>

(* The owner of a node writes it.                                          *)
Write(t, i) ==
    /\ pc[t] = "idle"
    /\ i \in out
    /\ dirty' = dirty \cup {i}
    /\ UNCHANGED <<poolVars, out, heap, pc, scanVars, slot, seen>>

-----------------------------------------------------------------------------
(* The release hook of a list, skip_pool_free_node_ and skip_pool_free_:   *)
(* a node of the slab goes back to its slot, any other one to the heap.    *)
Release(t, i) ==
    /\ pc[t] = "idle"
    /\ i \in out
    /\ out' = out \ {i}
    /\ slot' = [slot EXCEPT ![t] = i]
    /\ Goto(t, "store")
    /\ UNCHANGED <<poolVars, dirty, heap, scanVars, seen>>

ReleaseHeap(t, n) ==
    /\ pc[t] = "idle"
    /\ n \in heap
    /\ heap' = heap \ {n}
    /\ UNCHANGED <<poolVars, dirty, out, pc, scanVars, slot, seen>>

Free(t) ==
    /\ pc[t] = "store"
    /\ used' = used \ {slot[t]}
    /\ slot' = [slot EXCEPT ![t] = NoSlot]
    /\ Goto(t, "idle")
    /\ UNCHANGED <<capacity, slab, cursor, attached, nodeVars, scanVars, seen>>

-----------------------------------------------------------------------------
(* skip_pool_destroy_: an attached pool is left alone when a slot is used. *)
Destroy(t) ==
    /\ pc[t] = "idle"
    /\ slab \/ capacity = 0
    /\ Allocating \cup Destroying = {}
    /\ attached \/ out \cup {slot[u] : u \in Releasing} = {}
    /\ tries' = [tries EXCEPT ![t] = 0]
    /\ Goto(t, IF attached THEN "check" ELSE "teardown")
    /\ UNCHANGED <<poolVars, nodeVars, cap, start, slot, seen>>

CheckShort(t) ==                                                       \* mutant
    /\ pc[t] = "check"
    /\ IF tries[t] + 1 >= capacity THEN Goto(t, "teardown") /\ UNCHANGED tries
       ELSE IF tries[t] \in used THEN Goto(t, "idle") /\ tries' = [tries EXCEPT ![t] = 0]
       ELSE tries' = [tries EXCEPT ![t] = @ + 1] /\ UNCHANGED pc
    /\ UNCHANGED <<poolVars, nodeVars, cap, start, slot, seen>>
Check(t) ==
    /\ pc[t] = "check"
    /\ IF tries[t] >= capacity THEN Goto(t, "teardown") /\ UNCHANGED tries
       ELSE IF tries[t] \in used THEN Goto(t, "idle") /\ tries' = [tries EXCEPT ![t] = 0]
       ELSE tries' = [tries EXCEPT ![t] = @ + 1] /\ UNCHANGED pc
    /\ UNCHANGED <<poolVars, nodeVars, cap, start, slot, seen>>

Teardown(t) ==
    /\ pc[t] = "teardown"
    /\ slab' = FALSE
    /\ capacity' = 0
    /\ used' = {}
    /\ dirty' = {}
    /\ tries' = [tries EXCEPT ![t] = 0]
    /\ Goto(t, "idle")
    /\ UNCHANGED <<cursor, attached, out, heap, cap, start, slot, seen>>

-----------------------------------------------------------------------------
(* Type correctness of the pool and of the threads' locals.                *)
TypeOK ==
    /\ capacity \in {0, Capacity} /\ slab \in BOOLEAN /\ attached \in BOOLEAN
    /\ used \subseteq Slots /\ cursor \in 0 .. CursorLimit - 1
    /\ dirty \subseteq Slots /\ out \subseteq Slots /\ heap \subseteq HeapNodes
    /\ pc \in [Threads -> PCs]
    /\ cap \in [Threads -> {0, Capacity}]
    /\ start \in [Threads -> 0 .. CursorLimit - 1]
    /\ tries \in [Threads -> 0 .. Capacity]
    /\ slot \in [Threads -> Slots \cup {NoSlot}]
    /\ seen \in [Threads -> SUBSET Slots]

(* A slot whose state is used has exactly one owner, and only those have   *)
(* one: the caller it was handed to, the thread that has claimed it and    *)
(* not returned it yet, or the thread that is releasing it.  Two threads   *)
(* never claim one slot, and no slot is used for good (sl.h:4549-4574).    *)
Owners == {t \in Threads : pc[t] \in {"zero", "got", "store"}}

Ownership ==
    /\ used = out \cup {slot[t] : t \in Owners}
    /\ \A t \in Owners : slot[t] \notin out
    /\ \A t, u \in Owners : slot[t] = slot[u] => t = u

(* A node is zeroed when alloc returns it, whatever its earlier owners     *)
(* wrote and wherever they released it (sl.h:4542, 4553).                  *)
Zeroed == \A t \in Threads : pc[t] = "got" => slot[t] \notin dirty

(* Alloc returns NULL only if it has met the pool at its limit: each slot  *)
(* was used at some moment of the call, though perhaps never all at once,  *)
(* while slots come back behind the scan.  The scan must not wrap the      *)
(* cursor: when the capacity does not divide the range of size_t, the      *)
(* slots behind the wrap are tried twice and others not at all             *)
(* (sl.h:4542-4560).                                                       *)
NullJustified ==
    \A t \in Threads :
        pc[t] = "null" /\ start[t] + cap[t] <= CursorLimit => 0 .. cap[t] - 1 \subseteq seen[t]

(* The slab is never torn down under a node that is handed out, or under a *)
(* thread that is about to store to a slot's state, though reclamation may *)
(* release nodes while destroy looks at the slots one by one               *)
(* (sl.h:4592-4600).                                                       *)
SlabKept == ~slab => out = {} /\ Owners = {}

-----------------------------------------------------------------------------
Next ==
    \E t \in Threads :
        \/ PoolInit(t) \/ Attach(t)
        \/ AllocStart(t) \/ Probe(t) \/ Exhausted(t) \/ Zero(t) \/ AllocReturn(t)
        \/ \E i \in Slots : Write(t, i) \/ Release(t, i)
        \/ \E n \in HeapNodes : AllocHeap(t, n) \/ ReleaseHeap(t, n)
        \/ Free(t)
        \/ Destroy(t) \/ Check(t) \/ Teardown(t)

Spec == Init /\ [][Next]_vars
=============================================================================
