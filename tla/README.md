# TLA+ specification of the skiplist library

This directory specifies `src/include/sl.h`, a header that generates a
concurrent sorted list.  It holds TLA+ modules translated from the code, TLC
models that check them on small instances, and theorems that TLAPS proves for
every instance.  `PROJECT.json` maps each definition to the source lines it
stands for.

    tlc -config Ebr_safety.cfg MCEbr          # model-check one run
    tlapm EbrProof.tla                        # check the proofs

## 1. The system

The library is one header.  A user instantiates it with `SKIPLIST_DECL` and,
optionally, `SKIPLIST_DECL_EBR`, `_SNAPSHOTS`, `_ARCHIVE`, `_VALIDATE`,
`_ACCESS`, `_DOT` and `_POOL`.

| Component | State | Operations | What makes it correct |
|---|---|---|---|
| Lock-free core | `sle_levels[].next` (pointer and deletion mark in one word), `sle_height`, `sle_prev` of every node; head height, tail height, `slh_length`, `slh_has_dups` | `insert`, `insert_dup`, `remove_node`, `contains`/`position_eq`, built from `_skip_locate_`, `_skip_lookup_`, `_skip_unlink_fully_` | linearizable to a set; levels sorted; a retired node unreachable; all calls return |
| Epoch-based reclamation | global epoch, three retire lists with spinlocks, one slot per thread (epoch, active, in use), high-water mark | `register`, `unregister`, `pin`, `unpin`, `retire`, `try_advance`, `drain` | no node freed under a thread that may hold it; none lost, none freed twice |
| Splay rebalancing (opt-in) | hit counters, splay counter | promotion and demotion of the nodes on a path, after an access | same set, same order, nothing resurrected |
| Node pool | a slab of slots with a used flag each, a cursor, the list's release hook | `pool_init`, `attach`, `pool_alloc`, `pool_free`, `destroy` | a slot has one owner; it is handed out clean; NULL means that each was taken at some moment of the call; the slab outlives its nodes |
| Snapshots (single-threaded) | current era, era of the last snapshot, an era per node, chain of preserved copies | `snapshot`, `restore`, `release_snapshots`, preservation by update and remove | restore brings back the list as of the snapshot |
| Archive | a byte stream | `serialize`, `deserialize` | round trip; truncation is reported |
| Positions and iteration | none of their own; they read level 0 and the backward hints | `position_{eq,lt,lte,gt,gte}`, `next`, `prev`, `prev_validated`, `FOREACH_H2T`, `_T2H`, `to_array` | an answer was in the list during the call and nothing that stayed is nearer; nothing that stayed is skipped |
| Access helpers | none of their own | `get`, `put`, `dup`, `set`, `del`, `contains`, `update`, `release` | those of the calls they make |
| Integrity check | none | `_skip_integrity_check_` | silent about a sound list, never about a damaged one |

How they interact: `insert`, `remove` and lookups run in any number of
threads on shared words, each access a single atomic load, store or
compare-and-swap.  A thread pins the epoch around its calls.  `remove` marks a
node's words from the top level down, the mark of level 0 being the moment it
takes effect, unlinks it at every level, and hands it to `ebr_retire` through a
callback of the list.  Reclamation frees it through `free_node`, which returns
it to the pool when one is attached.  Reclamation relies on the core for
"retired implies unlinked"; the core relies on reclamation for memory that
stays put while a thread may hold it.

What is hard: the interleavings of multi-word updates (a tower has a word per
level, the list has two heights, a length and a hint per node); helping, where
one thread completes another's removal; paths read by `locate` and used later;
the race between an insert (or a splay) that is still raising a node and a
remover of that node; and readers that walk words which change under them.

## 2. Modules

| Module | What it is | Lines of `sl.h` |
|---|---|---|
| `GracePeriod` | what reclamation promises: a retired node is freed only after every thread pinned at its retirement has unpinned | 2765-2876 |
| `Ebr` | epoch-based reclamation, one step per shared access | 2656-2924 |
| `EbrProof` | its inductive invariant and theorems | |
| `OrderedSet` | what the list promises: a set with calls that take effect at one moment | 1959-1998, 2474-2487 |
| `SkipList` | the lock-free core, one step per shared access | 1158-1324, 1692-1785, 1806-1915, 1959-2183, 2421-2539 |
| `Cursors` | reading in order: positions, loops, validated step back; extends `SkipList` | 476-527, 1035-1156, 2209-2370 |
| `Splay` | demotion and promotion of towers after an access; extends `Cursors` | 1327-1690, 1787-1804, 1917-1957 |
| `Validate` | the complaints of the integrity check about a list; extends `SkipList` | 3571-3920 |
| `Pool` | the node pool, one step per shared access | 4451-4663 |
| `PoolProof` | its inductive invariant and theorems | |
| `SkipListProof` | that the list, with cursors and splay, uses reclamation as `GracePeriod` demands | |
| `ListSteps` | the invariant of level 0 and a lemma per step that preserves it | |
| `ListProof` | the theorems about the shape of level 0 that follow | |
| `SetProof` | the length, and that the list implements a set (`UpdatesLinear`) | |
| `CursorProof` | what positions, loops and steps back answer beside inserts, removes and splays | |
| `SnapshotProof` | that a restore brings the list back, loop by loop, and what a load makes of an archive | |
| `SortedList` | the list as a sequence, for one thread: what locate, insert, remove and update do to it | 1700-1785, 2032-2049, 2381-2490 |
| `Versions` | what snapshots promise: restore brings a saved content back | 2930-2972, 3106-3138 |
| `Snapshots` | eras, preserved copies, restore, and the calls that change the list | 1098-1128, 2381-2458, 2984-3268, 4046-4106 |
| `Archive` | save and load as functions between lists and streams | 3375-3538 |
| `MCEbr`, `MCSkipList`, `MCPool`, `MCSnapshots` | the instances TLC runs; `MCSnapshots` also states the archive's properties | |

### Ebr

`pc[t]` is the place of thread `t` in the reclamation code.  Flags are sets of
the indices they are raised for (`active`, `inUse`, `retireLocks`); a retire
list is the set of its nodes, since nothing depends on its order.  The nodes a
thread is pushing, or has detached to free, are `hand[t]`; the two lines that
splice a list (`entry->next = head; head = entry`) are two steps, so that the
spinlock matters.  The CAS loop that raises the high-water mark is one atomic
maximum.  The seq_cst fences of `pin` and `try_advance` order the only two
pairs of accesses whose order matters, so memory is sequentially consistent in
the model.  `waiting[n]` is a history variable: the threads pinned when `n` was
retired that have not unpinned since.  When `malloc` fails a node is leaked.

The contract of the header is part of the model: pin and unpin use a slot the
thread owns (the code aborts otherwise), retire runs inside a pin, unregister
outside, drain when no thread is active.

### SkipList

`next[c, l]` is the pointer of cell `c` at level `l` and `marked` the set of
words whose low bit is set; a compare-and-swap expects an unmarked word, so it
succeeds only if `Holds`.  `loc[t]` holds the locals of the call in progress:
the predecessor and successor recorded at every level, the level, the loop
index and so on.  The coin is a choice of any height up to its cap.  Memory is
not reused: a retired node keeps its contents, which is what reclamation
guarantees as long as it is unlinked.  The CAS loops that only ever end in a
mark or a maximum (`Mark`, `Mark0`, `Grow`) are one step.  Snapshots are off, as
by default; splay is on in `Splay` only.  `Calls[t]` is a set of sets: a thread
makes one call of each set, in any order.

`live`, `seen` and `result` are history variables.  `live` is the set the list
stands for; it changes in `Link` (the level-0 CAS of an insert) and `Mark0`
(the level-0 mark of a remove).  `seen[t]` collects whether `t`'s key was in
the set during the call.  With these, `SkipList` implements `OrderedSet`:
`present` is `live`, a call has taken effect once its `pc` is past its
linearization point, and a result must be justified by what was true during
the call.  Two removes of one node may both return success, because the code
returns 0 to the one that finds the mark already set (`sl.h:2477-2479`);
`OrderedSet` allows it explicitly.  `OrderedSet` has two instances: in `Set`
every answer is justified (`Linearizable`); in `Updates` what a lookup *found*
and what the cursors answer is left open (`Loose`), and all inserts, removes and
failed lookups are justified (`UpdatesLinear`).  The first holds on small lists
only (section 4), the second is proved.

`From(c, l)` is what a walk of level `l` from `c` meets, said without recursion:
the cells in every set that holds `c`'s successor and, with a cell, its
successor.

`waiting[n]` is the set of threads that were in a call when `n` was retired and
still are.  `Protected` says that only they hold `n`, which is what makes its
memory safe to free after their calls; `Reclaimed` says that the list uses
reclamation as `GracePeriod` demands, so that together with the proof about
`Ebr` the two halves meet: a thread in a call is a thread that is pinned.

### Cursors

`stay[t]` and `was[t]` are history variables: the nodes that were in the list
during all of `t`'s cursor call, and those that were in it at some moment.  No
cursor is linearizable (`gte` and `gt` scan level 0 word by word), so
`Positions` states what holds instead: the answer was in the list during the
call, and no node that stayed lies between the key and the answer.  `Traverses`
and `StepsBack` say the same of loops and of `prev_validated`.  `found` is the
*first* of equal nodes, so `lte` answers with the first, although its comment
says "the last node that is less than or equal" (`sl.h:2294`); `Positions`
compares keys, and holds either way.

### Splay

`Rebalance` may happen after any locate that found a node, except a remove's:
the interval counter that picks one access in many is a choice.  So is the
share of traffic of each node on the path: `share` is the largest `d` such that
the node's hits are at most `total / 2^d`, from which the two conditions of
`_fix_skip_rebalance_` follow exactly (`TooHigh`, `TooLow`), and the
neighbour's gate may refuse a promotion.  The height is published before the
link (`Bump`), lowered after the unlink (`DemoteLow`), and a published link is
taken back when the node's level 0 turns out marked (`Recheck`, `Undo`,
`UndoCas`, and else the sweep of `SkipList`).

### Validate

`Complaints(L, concurrent)` is the set of complaints about a list `L`, a record
of the fields the check reads, so that it can be asked about lists that the
program never makes: `Damaged` changes one field of a sound list.  Order is
only looked at on level 0; `README.md:618` speaks of "every level".

### Pool

A thread's `pc` is its place in `skip_pool_alloc_` (`probe`, `zero`, `got`,
`null`), in a release (`store`) or in `destroy` (`check`, `teardown`).  `used`
is the set of slots whose state word is 1; the claim is the compare-and-swap of
that word.  The cursor is a `size_t` that only ever grows, so it is reduced
modulo `CursorLimit`, and the slot probed is `((start + tries) % CursorLimit) %
cap`.  `out` and `heap` are the nodes the callers hold, from the slab and from
`calloc`; `dirty` the slots with something in them.  `seen[t]` is a history
variable: the slots that were in use at some moment of `t`'s scan.

Contract: a pool is initialised before it is used, by one thread; a pool
attached to a list may be destroyed while nodes are out (the code then refuses),
an unattached one only when it has none; no allocation runs beside a destroy.
Without these the code itself makes no promise.

### Snapshots and Archive

Snapshots are for one thread (`sl.h:2946`), so a call is one step and the list
is the sequence of its nodes, each with key, value and era.  The copies are a
sequence, newest first, as the chain in `slh_snap.pres` is.  `restore` is the
whole function: the removals, which preserve copies themselves, the discarding
of the copies newer than the era, and the insertions, which stamp new eras.
`RestoreFails` is a restore whose `malloc` fails after the removals.  `saved`
and `restored` are history variables for the refinement of `Versions`:
`content` is the list without its eras.

`Contract` names what the caller must keep to beyond the header for the promise
to hold: restore only the oldest snapshot, do not empty the list with
`skip_release_` under a snapshot (it preserves nothing), and have memory for the
copies made while restore removes nodes (the result of those removals is not
looked at).

`Archive` is evaluated on every list `Snapshots` reaches.  A stream is the
sequence of the pieces that are read at once; `Damaged` lists every way it can
be wrong that can be noticed.  A count that is too low, or data that
`read_entry_blk` accepts, cannot be noticed and is left out.  A list with equal
keys does not survive its archive, since the load inserts without duplicates
(`sl.h:3530`): `RoundTrip` says where it stops.

## 3. Runs

| Run | Instance | Checks |
|---|---|---|
| `ebr_safety` | 3 threads, 2 slots, 2 nodes | TypeOK, NoUseAfterFree, SlotOwnership, EpochLag, NothingLost, FreedOnce |
| `ebr_live` | 2 threads, 2 slots, 2 nodes, fair | CallsReturn, Reclamation (refinement) |
| `alone` | 1 thread, 5 calls, every operation, 4 levels, equal keys, splay | SplayTypeOK, Healthy, Detects, Towers, FirstDuplicate, Positions, MeetsAll |
| `near` | 2 threads, neighbours on 2 levels, seek and traversal | Sorted, RetiredUnreachable, Towers, LiveReachable, Protected, Frozen, Traverses |
| `shared` | 2 threads, 5 calls on one key, 1 level, fair | UniqueKeys, Accounted, Linearizable, CallsReturn, Reclaimed (refinement) |
| `beside` | positions that may splay beside an insert and a remove, 3 levels | Positions, StepsBack, UpdatesLinear (refinement) |
| `pool` | 3 threads, 3 slots, 1 heap node, a cursor modulo 4 | TypeOK, SlabKept, Ownership, Zeroed, NullJustified |
| `snapshots` | 2 keys, 2 values, 3 nodes, eras up to 8, one thread | TypeOK, NewestFirst, RoundTrip, LoadStops, Exact (refinement) |
| `reach`, `stale`, `splay`, `restore` | the disagreements below | one property each, violated |

Bounds.  Each node is retired once, so with two nodes the epoch makes at least
two advances, the number after which a bucket is freed; a third thread exceeds
the slots.  In the core, `MaxHeight = 3` gives two usable levels (a node's
height is at most `MaxHeight - 2`), which is the least at which a level can be
above the head's height while another is not; `MaxHeight = 2` is a plain
lock-free list and leaves room for more calls on one key.  Calls of a thread
happen in any order and every insert draws any height.  Splay needs a walk of
two levels before it acts and a third to promote to, hence `MaxHeight = 4` where
it is on.  In the pool, three
threads on three slots can hold, claim and release every slot while one scans,
and a capacity of three does not divide `CursorLimit = 4`, so that scans wrap;
`NullJustified` is claimed for scans that do not (with a 64-bit cursor no scan
does).  Snapshots: eight eras are up to four snapshots, or two with four
changes, on lists that hold three equal keys.

Symmetry is used in `ebr_safety` (threads and nodes) and `pool` (threads),
where no temporal property is checked.

Fairness.  `WF_vars(Step(t))`: a call in progress keeps running, which any
scheduler provides; starting a call is never fair.  No lock is fair: the
retire locks are spinlocks, but finitely many retirements contend for them.

## 4. Disagreements between the code and what it says

1. `reach`.  An insert raising its node reads the level's word, finds no mark,
   and then links the level by a CAS on the *predecessor's* word
   (`sl.h:2095`).  A remove that marks, sweeps, verifies and retires the node
   in between leaves that CAS nothing to fail on, so the retired node is
   linked again.  The header argues that "no new predecessor can appear"
   (`sl.h:1221-1224`) because locate and insert hand out only unmarked
   successors; the insert of the node itself is the missing case.
2. `stale`.  After a failed CAS the insert locates again to refresh its path
   (`sl.h:2100-2102`), but locate records only the levels below the head's
   current height.  If a remove shrank the head, the entry of the level being
   linked keeps its old predecessor, and when that one is marked the insert
   retries for ever, alone.
3. `splay`.  A promotion publishes its link (`sl.h:1672`) and only then looks
   whether the node was removed meanwhile; if its remover has swept, verified
   and retired it, the node is reachable again until the link is taken back.
   The comment calls the window safe because the promoter is pinned
   (`sl.h:1350-1352`).  A lookup that begins after the retirement is not one
   that reclamation waits for; it picks the node up through the link and still
   holds it after the promoter has returned.
4. `restore`.  Restore puts back every copy with an era not above the target
   (`sl.h:3198`), also copies that were made before the target snapshot was
   taken.  A node removed between two snapshots comes back when the later one
   is restored, although "Multiple snapshots can be taken" (`sl.h:2938-2940`)
   and the algorithm's comment speaks of nodes of that era (`sl.h:3117`,
   `3171`).  No copy is left afterwards and the last snapshot's era is cleared,
   so that changes made after the restore are not preserved for the earlier
   snapshots either.  With the oldest snapshot only, `Exact` holds.

Met while modelling, and not the subject of a run:

- When the successor of a level has changed, an insert first stores it with a
  plain store (`sl.h:2089`, `RaiseSet`).  A mark set since the test before it is
  wiped out, the removed node is linked *unmarked*, and a lookup that starts
  after the remove has returned can find it.  `PromoteSet` is the same store in
  splay (`sl.h:1666`).  So `Linearizable` is false for lookups on larger lists:
  with three nodes of keys 1, 2, 3, where 2 and 3 are built with height 1, one
  thread inserting key 1 and another removing 2 and 1 and then looking up 1, TLC
  finds a run in which the thread whose own remove of 1 has returned is told
  that 1 is found.  The comments at `sl.h:2426` and `sl.h:2474` call the level-0
  mark the linearization point; the lookup only tests the mark of the level on
  which it meets its key.  `Linearizable` is checked in `shared`, on one level,
  where there is no such store.
- With equal keys two answers are not justified by a moment of the call: a
  lookup that says "missing" and a remove that loses the race for one of several
  equal nodes.  `OrderedSet` is a promise about lists without `insert_dup`.
- Promotion uses the path's predecessor without comparing it with what an insert
  has linked in between (`sl.h:1626`, "By locate's invariant"), so with splay a
  level can lose its order: `Sorted` fails under `SplaySpec` with one lookup
  beside one insert.  Two lookups can also demote a node below the level it is
  recorded at in the other's path and promote it there with itself as
  predecessor.
- With two threads a remove can pass on a backward hint its neighbour's insert
  has not yet corrected (`sl.h:2502`), and head and tail heights can end up
  different (`sl.h:2026`, `2522`), both of which the integrity check counts as
  errors, so `Healthy` is checked for one thread.  A handed-over hint can name a
  node retired before: a backward loop then walks on freed memory.  The macro
  forbids removes during the loop (`sl.h:509`), so `MeetsAll` is for one thread
  too; `man/sl.h.3:256-257` says that a pinned reader may iterate safely, which
  holds for the forward loop (`Traverses`, `Protected`).
- `skip_next_node_` returns the word as it is (`sl.h:1012`): on a node that has
  been removed it carries the mark.
- `README.md` and `sl.h:4612` speak of a fallback to the heap when the pool is
  full, where `skip_pool_alloc_node_` returns `ENOMEM` and the caller allocates
  (`sl.h:4623`).

## 5. Proofs

`EbrProof` proves about `Ebr`, for every set of threads and nodes and every
`MaxThreads` in `Nat \ {0}` (`MaxThreadsAssumption`, the only assumption):

| Theorem | Statement |
|---|---|
| `TypeCorrect` | `Spec => []TypeOK` |
| `SlotsExclusive` | `Spec => []SlotOwnership` |
| `EpochBound` | `Spec => []EpochLag` |
| `Safety` | `Spec => []NoUseAfterFree` |
| `Kept`, `Once` | `Spec => []NothingLost`, `Spec => []FreedOnce` |
| `Implements` | `Spec => Reclamation`, every step of the epochs is a step or a stutter of `GracePeriod` |

None of these is inductive alone.  The invariant `IInv` adds: who owns which
slot and what it announces (`SlotInv`); that epochs that have been read are in
the past (`PastInv`); that a scan in progress has seen every pinned thread
below its index at its epoch, the new ones included because they announce
before they read the epoch (`ScanInv`); that a thread that has bumped the epoch
holds it there until it has detached its bucket, because it is pinned itself
(`TakeInv`); that a thread a node waits for has a local epoch no later than the
node's tag (`GraceInv`); what each place of a thread implies about the nodes in
its hand (`HandInv`); and the locking discipline of the lists (`LockInv`).
The argument for `Safety`: a node in a bucket about to be freed has a tag two
behind the epoch; a thread it waits for would have a local epoch no later than
the tag, but the epoch is at most one ahead of any pinned thread.

`StepInv` has one lemma per part, each with a step per action; actions a part
does not look at are grouped in `QuietEffect`.

`PoolProof` proves about `Pool`, for every set of threads and heap nodes, every
capacity in `Nat \ {0}` and every cursor limit not below it
(`CapacityAssumption`, `CursorAssumption`):

| Theorem | Statement |
|---|---|
| `TypeCorrect` | `Spec => []TypeOK` |
| `OneOwner` | `Spec => []Ownership` |
| `NodesZeroed` | `Spec => []Zeroed` |
| `NullMeansFull` | `Spec => []NullJustified` |
| `SlabOutlives` | `Spec => []SlabKept` |

Its invariant adds what each place of a call implies (`CallInv`), that a destroy
has found the slots below its index unused and that nothing claims or releases
beside it (`DestroyInv`), and that a scan that has not wrapped has seen taken
every slot it tried (`ScanInv`).  `EverySlotTried` is the arithmetic: `capacity`
consecutive numbers modulo `capacity` are all slots.

`SkipListProof` proves about `Splay`, which contains `SkipList` and `Cursors`,
for every set of threads and nodes, every `MaxHeight`, built list and set of
calls (`SkipListAssumption`):

| Theorem | Statement |
|---|---|
| `RemovesApart` | `SplaySpec => []MarkInv`: a retired node carries its level-0 mark, and two removes never get past their mark with one node |
| `SplayReclaimed` | `SplaySpec => Reclaimed`: every step is a step or a stutter of `GracePeriod` |
| `ListReclaimed` | `Spec => Reclaimed`, for the list by itself |

The argument: a remove retires the node it marked at level 0, and only the
first to set that mark goes on; so a node is retired once if no step ever takes
a level-0 mark away.  Two do take marks away, the plain stores of `RaiseSet` and
`PromoteSet`, which is why `PlaceInv` carries the level they store to through
the calls: an insert that raises a node is at a level above 0 even after it has
located again, and a splay stores above the height it read.  `Effect` is what
every other step does (it retires nothing, keeps the level-0 marks and begins
no removal), with one case for each action.  Together with `EbrProof!Implements`
the list and its reclamation meet at `GracePeriod`: the list is a client of it,
the epochs an implementation.

### The list itself

`ListSteps`, `ListProof` and `SetProof` prove about `Splay`, that is about the
list with cursors and splay, for every finite set of threads and nodes, every
`MaxHeight`, built list and set of calls.  Besides `SkipListAssumption` they use
`CallsAssumption`: an insert brings a node of its own, as `skip_insert_` takes a
newly allocated one, and the built nodes have different keys.

| Theorem | Statement |
|---|---|
| `ListCorrect` | `SplaySpec => []ListFull`, the invariant |
| `SplayLiveReachable` | `SplaySpec => []LiveReachable` |
| `BottomSorted` | `SplaySpec => []SortedAt(0)`: level 0 ends in the tail and ascends |
| `SplayUniqueKeys` | `SplaySpec => []UniqueKeys` |
| `SplayFrozen` | `SplaySpec => Frozen` |
| `ListGood` | all of these for `Spec`, the list by itself |
| `SplayAccounted` | `SplaySpec => []Accounted` |
| `SplayUpdatesLinear` | `NoDuplicates => (SplaySpec => UpdatesLinear)` |

That a list is connected is a fact about paths, and induction along a path is
not available.  The invariant says it without: *every* set of cells that is
closed under the words of level 0, starting at some cell, holds every live node
above that cell (`Reach`, `LeadsOn`).  It is preserved because a step turns
every set closed after it into one closed before it: adding the cell that was
spliced out, or taking out the one linked, closes the set under the old words,
where the invariant gives the conclusion.  This needs that a step changes at
most one word of level 0, that the word is unmarked, and that what it is swung
to is what the marked cell pointed to; that is `Frozen`, and for each place of a
thread what its locals still say of the words they were read from (`Path`,
`Walking`, `Dead`): a cell recorded as a successor was met after its
predecessor, a marked cell's word does not change after it was read, a cell on
its way in is named by its inserter's locals only.  The plain stores of insert
and splay do not reach level 0, by the levels `Depths` bounds.  `ListSteps` has
one lemma for each of the model's steps, that the invariant of the acting thread
and of the words is kept; `Tidy` is what a step does to everybody else.

`UniqueKeys` follows from the order of level 0 and from `Linear`: of two nodes
on the walk one leads to the other.  `Accounted` is the same equation for the
finite sets of threads that have changed the set and have not counted it.

`SplayUpdatesLinear` is the refinement of `OrderedSet`.  Inserts and removes
that change the set take effect at the CAS and at the mark of level 0.  A locate
that finds nothing reads the last word of its path from an unmarked predecessor
whose successor is beyond the key: at that moment the key is missing.  A lookup
walks over marked cells, whose words may be of the past, and is justified in
hindsight: either its key was missing at some moment of the call, or the live
node that carries it is still ahead of the walk (`Ahead`), and a walk that
passes the key has no such node ahead.  `NoDuplicates` says that no call of the
instance is an `insert_dup`; without it the statement is false (section 4).

Changes to the model that made this possible: `Closed` and `From` replace a
recursive walk, and `SortedAt`, `UniqueKeys`, `Accounted` and `RetiredUnreachable`
are stated with them or with sets of threads; `Frozen` is about level 0, the only level where it
holds.

### What the cursors answer

`CursorProof` goes on from `SetProof`, under the same two assumptions, for every
instance, equal keys included:

| Theorem | Statement |
|---|---|
| `CursorsSeek` | `SplaySpec => []SeekInv`, the invariant |
| `SplayPositions` | `SplaySpec => Positions` |
| `SplayTraverses` | `SplaySpec => Traverses` |
| `SplayStepsBack` | `SplaySpec => StepsBack` |
| `CursorsGood` | the three of them for `CursorSpec`, without splay |

An answer is about the nodes that *stayed*: those in the list from the call to
the return (`stay`, a history variable).  `SeekInv` says what a cursor knows of
them at each place: a walk that stands on a cell it found unmarked has every
node that stayed with a larger key ahead of it (`Way`, the cells on the words of
level 0 from there), and what it has passed is accounted for, by a node already
met or by a key on the other side of the one asked for (`AtScan`, `AtWalk`,
`AtStep`, one formula for each kind of call).  Standing on a removed cell is
harmless because a removed cell's word is `Frozen` and led to the same nodes
when it was last read: every node ahead of a cell that stays live stays ahead
of it (`WayKept`, which is `LeadsOn` again), and what is ahead has no smaller
key (`WayLeast`, which needs the order of level 0 but no distinct keys).  When
another thread acts, `stay` can only shrink and `was` only grow (`Logs`); when
the cursor acts, its step consumes one cell of the way (`WayOn`).  `Goes`,
`Opens` and `Learns` sort the model's actions by what they do to that
knowledge, so that only the cursor's own steps are looked at one by one.
`SeekInv` was checked by TLC on the instances of `beside`, `alone` and `near`
before it was proved.

### What a restore and a load bring back

`SnapshotProof` proves about `Snapshots`, for every set of keys in `Int`, every
set of values, every bound and every `Contract` (`BoundsAssumption`):

| Theorem | Statement |
|---|---|
| `TypeCorrect` | `Spec => []TypeOK`, whatever the caller keeps to |
| `ChangedFirst` | `Oldest => (Spec => []NewestFirst)` |
| `RestoresExactly` | `Kept => (Spec => Exact)`: every call is a step of `Versions` |
| `ArchiveRoundTrip` | `Spec => []RoundTrip` |
| `ArchiveStops` | `Spec => []LoadStops` |

`Oldest` says that only the oldest snapshot is restored, `Kept` that the whole
contract is kept.  Without the first `Exact` is false (`restore`).

`ExactInv` is the invariant.  It says of the oldest snapshot what a restore made
now would build: take the nodes that are not newer than the era, in their order
(`Part`), and put the copies back one by one, from the newest; the chain of
contents that goes through ends in the content that was saved (`Rebuilds`,
`Chain`).  Along the chain a copy of a newer era is passed over, and a copy whose
key is already there must carry the flag that it had an equal next to it, or the
insertion would be refused.  An insertion under a snapshot adds a newer node and
changes nothing of this; a removal or an update of an old node takes it out of
the part and puts it in front of the chain, and to put back the *first* of a key
is to insert it (`OldTaken`); a removal of a newer node leaves both alone.  That
the nodes of one key go from newer to older (`NewerFirst`) is what makes the
first loop of a restore remove, by key, the very node it is at (`DropsIt`).  So
after the first loop the old nodes are left and the chain is as it was
(`DropsAll`, `DropRebuilds`), and the second loop runs along the chain
(`PutsChain`).

The two loops are recursive functions on `0 .. n`.  The library's induction rules
take an operator, which no backend can instantiate; `UpTo` is an induction over
a *set* of numbers, from the well-foundedness of the strict-subset order on
finite sets, and `LoopRuns` says with it that a loop has a run.  Everything about
the loops follows from their runs.

For this `Dropped` and `PutBack` are written as recursive functions, and
`Versions!Fail` says that a restore that fails drops nodes and moves none.
`ExactInv` is about `Rebuilds`, which quantifies over all chains, so it was not
run; `Exact` was checked first, on the instance of `snapshots`.

The archive is about one state: all that is needed of the reachable ones is that
the list is in order (`SnapType`).  `Load` is a loop over the records like the
two of a restore, written as a recursive function, and `LoadRun` says that a
sequence of results that starts with the header's and follows `LoadOne` ends in
`Load`.  While the records are whole and no key repeats, the list after `n` of
them is the first `n` nodes, because inserting a node greater than all before it
puts it at the end (`LoadsNext`, the one place the order is used); `LoadEarly`
and `LoadAll` say where that stops.  In an ordered list a key that occurs
before is the previous node's (`FreshIs`), which is how `RoundTrip` says it.
`DamagedStops` then finds for each damage the header's piece or the record that
is refused; a repeated key before it only ends the load earlier.

### Only model-checked

- `Towers`, `RetiredUnreachable` and `Protected` fail on instances other than
  `near`'s, and `Sorted` above level 0 fails with splay (`reach`, `splay` and the
  notes of section 4), so they are not theorems.  `CallsReturn` is liveness, and
  `stale` refutes it in general.  `Linearizable`: see section 4.
- `SplayTypeOK`, which is about all levels: with several threads that splay a
  demotion can read the word of a level that a promotion has announced and not
  yet stored.
- `MeetsAll`, `FirstDuplicate`, `Healthy`, `Detects`: about one thread, on the
  levels of the list and on data that recursion walks over.
- `Ebr!CallsReturn`: liveness.

## 6. Not modelled

- The DOT output (formatting), the build without atomics (the same code with
  plain accesses; one thread of `SkipList`), examples, benchmark and tests.
- The hit counters as numbers: what splay reads in them is a choice, and the
  halving at `SIZE_MAX / 2` (`Adjust`) does not happen.
- An archive's bytes and byte order are abstracted to its pieces.
- Relaxed memory: the model is sequentially consistent; the code orders the
  accesses that matter with acquire/release pairs on the same words and with
  two seq_cst fences in reclamation.
- Wrap-around of the 64-bit epoch is out of reach of any run and left out.
- Snapshots, archive and pool together with several threads on the list: the
  first two are single-threaded by contract, the pool meets the list only in
  allocation and in the release hook, which `Pool` models.

## 7. Plan

Done: `GracePeriod`, `Ebr`, `EbrProof`; `OrderedSet`, `SkipList`, `Cursors`,
`Splay`, `Validate`, `SkipListProof`, `ListSteps`, `ListProof`, `SetProof`,
`CursorProof`; `Pool`, `PoolProof`; `SortedList`, `Versions`, `Snapshots`,
`SnapshotProof`, `Archive`.

Left: the upper levels of the list for one thread (`Towers`, and with it what the
integrity check says), and the order of the upper levels beside other threads,
without splay.
