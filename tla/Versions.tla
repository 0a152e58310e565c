------------------------------ MODULE Versions ------------------------------
(***************************************************************************)
(* What snapshots promise: restoring a snapshot brings the content of the  *)
(* list back as it was when the snapshot was taken, and drops the later    *)
(* snapshots.                                                              *)
(***************************************************************************)
EXTENDS SortedList

CONSTANTS Keys, Vals, Eras

VARIABLES
    content,    \* the keys and values of the list, in order
    saved,      \* the snapshots that can be restored: era -> content
    restored    \* the snapshot that the last call restored, 0 for other calls

Init == content = <<>> /\ saved = <<>> /\ restored = 0

Put  == \E k \in Keys, v \in Vals : content' = Inserted(content, [key |-> k, val |-> v])
Set  == \E k \in Keys, v \in Vals :
            Matches(content, k) /\ content' = Updated(content, [key |-> k, val |-> v])
Del  == \E k \in Keys : Matches(content, k) /\ content' = Removed(content, k)
Clear == content' = <<>>

Change == (Put \/ Set \/ Del \/ Clear) /\ restored' = 0 /\ UNCHANGED saved

Take ==
    \E e \in Eras :
        /\ \A f \in DOMAIN saved : f < e
        /\ saved' = [f \in DOMAIN saved \cup {e} |-> IF f = e THEN content ELSE saved[f]]
        /\ restored' = 0
        /\ UNCHANGED content

Restore ==
    \E e \in DOMAIN saved :
        /\ content' = saved[e]
        /\ saved' = [f \in {g \in DOMAIN saved : g < e} |-> saved[f]]
        /\ restored' = e

(* A restore that runs out of memory may already have dropped nodes; the   *)
(* snapshot can still be restored.                                         *)
Fail ==
    /\ \E n \in 0 .. Len(content) : \E kept \in [1 .. n -> DOMAIN content] :
          /\ \A i, j \in 1 .. n : i < j => kept[i] < kept[j]
          /\ content' = [i \in 1 .. n |-> content[kept[i]]]
    /\ restored' = 0
    /\ UNCHANGED saved

Forget == saved' = <<>> /\ restored' = 0 /\ UNCHANGED content

Next == Change \/ Take \/ Restore \/ Fail \/ Forget

Spec == Init /\ [][Next]_<<content, saved, restored>>
=============================================================================
