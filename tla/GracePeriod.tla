---------------------------- MODULE GracePeriod ----------------------------
(***************************************************************************)
(* What deferred reclamation promises to the threads of a skip list: a     *)
(* retired node is freed only when every thread that was pinned at the     *)
(* moment it was retired has unpinned.  Threads that pin later cannot have *)
(* a reference to it, because a node is unlinked before it is retired.     *)
(***************************************************************************)
CONSTANTS Threads, Nodes

VARIABLES
    pinned,     \* the threads between pin and unpin
    status,     \* what has become of each node
    waiting     \* per node, the pinned threads its release waits for

gpVars == <<pinned, status, waiting>>

GPTypeOK ==
    /\ pinned \in SUBSET Threads
    /\ status \in [Nodes -> {"linked", "retired", "freed"}]
    /\ waiting \in [Nodes -> SUBSET Threads]

Init ==
    /\ pinned = {}
    /\ status = [n \in Nodes |-> "linked"]
    /\ waiting = [n \in Nodes |-> {}]

Pin(t) ==
    /\ t \notin pinned
    /\ pinned' = pinned \cup {t}
    /\ UNCHANGED <<status, waiting>>

Unpin(t) ==
    /\ t \in pinned
    /\ pinned' = pinned \ {t}
    /\ waiting' = [n \in Nodes |-> waiting[n] \ {t}]
    /\ UNCHANGED status

Retire(t, n) ==
    /\ t \in pinned
    /\ status[n] = "linked"
    /\ status' = [status EXCEPT ![n] = "retired"]
    /\ waiting' = [waiting EXCEPT ![n] = pinned]
    /\ UNCHANGED pinned

\* Several nodes may be released in one step: drain empties every list.
Free(S) ==
    /\ \A n \in S : status[n] = "retired" /\ waiting[n] = {}
    /\ status' = [n \in Nodes |-> IF n \in S THEN "freed" ELSE status[n]]
    /\ UNCHANGED <<pinned, waiting>>

Next ==
    \/ \E t \in Threads : Pin(t) \/ Unpin(t) \/ \E n \in Nodes : Retire(t, n)
    \/ \E S \in SUBSET Nodes : Free(S)

Spec == Init /\ [][Next]_gpVars
=============================================================================
