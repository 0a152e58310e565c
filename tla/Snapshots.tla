----------------------------- MODULE Snapshots -----------------------------
(***************************************************************************)
(* Snapshots (SKIPLIST_DECL_SNAPSHOTS), a feature for one thread, so that  *)
(* a call is a step.  A snapshot is an era.  Nodes carry the era of their  *)
(* last change; the first change of a node that is not newer than the last *)
(* snapshot preserves a copy of it, and a restore drops the nodes that are *)
(* newer than the snapshot and puts the copies back.                       *)
(*                                                                         *)
(* Contract is what the caller keeps to beyond the header's contract:      *)
(*   "oldest"  of the snapshots only the oldest is restored                *)
(*   "keep"    skip_release_ is not called under a snapshot                *)
(*   "memory"  a restore does not run out of memory while it removes nodes *)
(***************************************************************************)
EXTENDS SortedList

CONSTANTS
    Keys, Vals,
    MaxLen,     \* bound on the length of the list
    MaxEra,     \* bound on the era counter
    Contract

ASSUME BoundsAssumption ==
    /\ Keys \subseteq Int /\ MaxLen \in Nat /\ MaxEra \in Nat
    /\ Contract \subseteq {"oldest", "keep", "memory"}

VARIABLES
    list,       \* the nodes, in order
    pres,       \* slh_snap.pres: the preserved copies, newest first
    curEra, presEra,
    saved,      \* history: the content of the list when each snapshot was taken
    restored    \* history: the snapshot that the last call restored, else 0

vars == <<list, pres, curEra, presEra, saved, restored>>

Content(l) == [i \in DOMAIN l |-> [key |-> l[i].key, val |-> l[i].val]]

(* skip_init_, skip_snapshots_init_                                        *)
Init ==
    /\ list = <<>> /\ pres = <<>> /\ curEra = 0 /\ presEra = 0
    /\ saved = <<>> /\ restored = 0

-----------------------------------------------------------------------------
(* The calls act on the list, the copies and the era counter, which a      *)
(* restore threads through a series of them.                               *)
State == [list |-> list, pres |-> pres, cur |-> curEra]

Becomes(s) == list' = s.list /\ pres' = s.pres /\ curEra' = s.cur

(* _skip_preserve_node_: a node as old as the last snapshot is copied,     *)
(* with a flag that remembers that it had an equal next to it.             *)
Old(n) == n.era <= presEra

Preserved(s, i) ==
    IF Old(s.list[i])
      THEN <<[node |-> s.list[i], dup |-> HasTwin(s.list, i)]>> \o s.pres
      ELSE s.pres

(* skip_insert_ and skip_insert_dup_: the era is stamped when the node is  *)
(* in.                                                                     *)
Stamped(s, n) == IF presEra > 0 THEN [n EXCEPT !.era = s.cur] ELSE n

InsertIn(s, n, dup) ==
    IF Matches(s.list, n.key) /\ ~dup THEN s
    ELSE [s EXCEPT !.list = Inserted(s.list, Stamped(s, n)),
                   !.cur  = IF presEra > 0 THEN @ + 1 ELSE @]

(* skip_remove_node_: the first node of the key.                           *)
RemoveFrom(s, k) ==
    IF ~Matches(s.list, k) THEN s
    ELSE [list |-> Removed(s.list, k),
          pres |-> IF presEra > 0 THEN Preserved(s, First(s.list, k)) ELSE s.pres,
          cur  |-> IF presEra > 0 THEN s.cur + 1 ELSE s.cur]

\* mutant
UpdateUnstamped(s, k, v) ==
    LET i == First(s.list, k) IN
    IF presEra > 0
      THEN [list |-> [s.list EXCEPT ![i].val = v],
            pres |-> Preserved(s, i),
            cur  |-> s.cur + 1]
      ELSE [s EXCEPT !.list[i].val = v]

\* mutant
UpdateAhead(s, k, v) ==
    LET i == First(s.list, k) IN
    IF presEra > 0
      THEN [list |-> [s.list EXCEPT ![i].val = v, ![i].era = s.cur + 1],
            pres |-> Preserved(s, i),
            cur  |-> s.cur]
      ELSE [s EXCEPT !.list[i].val = v]

(* skip_update_: the live node moves to a new era, so that it is preserved *)
(* once for a snapshot.                                                    *)
UpdateIn(s, k, v) ==
    LET i == First(s.list, k) IN
    IF presEra > 0
      THEN [list |-> [s.list EXCEPT ![i].val = v, ![i].era = s.cur + 1],
            pres |-> Preserved(s, i),
            cur  |-> s.cur + 1]
      ELSE [s EXCEPT !.list[i].val = v]

-----------------------------------------------------------------------------
Room == presEra > 0 => curEra < MaxEra

(* skip_put_, skip_dup_: a refused node is freed.                          *)
Insert(k, v, dup) ==
    /\ Room /\ Len(list) < MaxLen
    /\ Becomes(InsertIn(State, [key |-> k, val |-> v, era |-> 0], dup))
    /\ restored' = 0 /\ UNCHANGED <<presEra, saved>>

(* skip_set_, skip_del_; when the copy cannot be made nothing changes.     *)
Update(k, v) ==
    /\ Room /\ Matches(list, k)
    /\ Becomes(UpdateIn(State, k, v))
    /\ restored' = 0 /\ UNCHANGED <<presEra, saved>>

Delete(k) ==
    /\ Room
    /\ Becomes(RemoveFrom(State, k))
    /\ restored' = 0 /\ UNCHANGED <<presEra, saved>>

(* skip_release_ empties the list and preserves nothing.                   *)
Release ==
    /\ Room /\ list # <<>>
    /\ "keep" \in Contract => presEra = 0
    /\ list' = <<>>
    /\ curEra' = IF presEra > 0 THEN curEra + 1 ELSE curEra
    /\ restored' = 0 /\ UNCHANGED <<pres, presEra, saved>>

(* skip_snapshot_                                                          *)
Snapshot ==
    /\ curEra + 2 <= MaxEra
    /\ presEra' = curEra + 1
    /\ curEra' = curEra + 2
    /\ saved' = [e \in DOMAIN saved \cup {presEra'} |->
                   IF e = presEra' THEN Content(list) ELSE saved[e]]
    /\ restored' = 0 /\ UNCHANGED <<list, pres>>

(* skip_release_snapshots_                                                 *)
ReleaseSnapshots ==
    /\ presEra > 0
    /\ pres' = <<>> /\ presEra' = 0
    /\ saved' = <<>>
    /\ restored' = 0 /\ UNCHANGED <<list, curEra>>

-----------------------------------------------------------------------------
(* skip_restore_snapshot_.  The nodes newer than the era are removed, each *)
(* by its key; a removal whose copy cannot be made fails unnoticed.        *)
Newer(e) == {i \in DOMAIN list : list[i].era > e}

Dropped(e, failed) ==
    LET run[i \in 0 .. Len(list)] ==
            IF i = 0 THEN State
            ELSE IF i \in Newer(e) \ failed THEN RemoveFrom(run[i - 1], list[i].key)
            ELSE run[i - 1]
    IN  run[Len(list)]

(* The copies newer than the era are discarded, all the others put back,   *)
(* the newest first.  No copy is left, so the last snapshot's era is       *)
(* cleared.                                                                *)
PutBack(s, e) ==
    LET run[i \in 0 .. Len(s.pres)] ==
            IF i = 0 THEN [s EXCEPT !.pres = <<>>]
            ELSE LET p == s.pres[i] IN
                 IF p.node.era <= e THEN InsertIn(run[i - 1], p.node, p.dup)
                 ELSE run[i - 1]
    IN  run[Len(s.pres)]

Restorable(e) ==
    /\ e \in DOMAIN saved
    /\ "oldest" \in Contract => \A f \in DOMAIN saved : e <= f

CopyFails(e) ==
    IF "memory" \in Contract \/ presEra = 0 THEN {}
    ELSE {i \in Newer(e) : Old(list[i])}

Restore(e) ==
    /\ Restorable(e)
    /\ e < curEra
    /\ \E failed \in SUBSET CopyFails(e) : Becomes(PutBack(Dropped(e, failed), e))
    /\ presEra' = 0
    /\ saved' = [f \in {g \in DOMAIN saved : g < e} |-> saved[f]]
    /\ restored' = e

(* Memory runs out between the removals and the copies.                    *)
RestoreFails(e) ==
    /\ Restorable(e)
    /\ e < curEra
    /\ curEra + Len(list) <= MaxEra
    /\ \E failed \in SUBSET CopyFails(e) : Becomes(Dropped(e, failed))
    /\ restored' = 0 /\ UNCHANGED <<presEra, saved>>

-----------------------------------------------------------------------------
Next ==
    \/ \E k \in Keys, v \in Vals :
          \/ \E dup \in BOOLEAN : Insert(k, v, dup)
          \/ Update(k, v)
    \/ \E k \in Keys : Delete(k)
    \/ Release \/ Snapshot \/ ReleaseSnapshots
    \/ \E e \in DOMAIN saved : Restore(e) \/ RestoreFails(e)

Spec == Init /\ [][Next]_vars

-----------------------------------------------------------------------------
Nodes == [key : Keys, val : Vals, era : 0 .. curEra]

(* Type correctness and the order of the list; no node is from a later era *)
(* than the list.                                                          *)
TypeOK ==
    /\ \A i \in DOMAIN list : list[i] \in Nodes
    /\ \A i \in DOMAIN pres : pres[i] \in [node : Nodes, dup : BOOLEAN]
    /\ curEra \in Nat /\ presEra \in 0 .. curEra
    /\ DOMAIN saved \subseteq 1 .. curEra /\ restored \in 0 .. curEra
    /\ InOrder(list)

(* Of the nodes with one key, those changed since the oldest snapshot come *)
(* first.  Restore removes each newer node by its key, which takes the     *)
(* first node of that key: in any other order it would free another node,  *)
(* and go on with a pointer to a freed one (sl.h:3166-3167, 2443).         *)
NewestFirst ==
    \A e \in DOMAIN saved, i \in 1 .. Len(list) - 1 :
        list[i].key = list[i + 1].key /\ list[i].era <= e => list[i + 1].era <= e

(* Snapshots keep what Versions promises: a restore brings the content     *)
(* back exactly, equal keys in their old order, whatever was inserted,     *)
(* removed, updated, taken, failed and tried again in between              *)
(* (sl.h:2938-2940, 3106-3111).                                            *)
V == INSTANCE Versions WITH content <- Content(list), Eras <- 1 .. MaxEra

Exact == V!Spec
=============================================================================
