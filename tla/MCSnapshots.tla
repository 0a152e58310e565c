---------------------------- MODULE MCSnapshots ----------------------------
(***************************************************************************)
(* Instances of Snapshots for TLC, and the archive of every list they      *)
(* reach.                                                                  *)
(***************************************************************************)
EXTENDS Snapshots, Archive

(* A list without equal keys comes back from its archive as it was; of a   *)
(* list with equal keys the load stops at the first repeated key, for it   *)
(* inserts without duplicates (sl.h:3530).                                 *)
RoundTrip ==
    LET l == Content(list)
        r == Load(Save(l))
        twins == {i \in DOMAIN l : i > 1 /\ l[i - 1].key = l[i].key}
    IN  IF twins = {} THEN r = [rc |-> "ok", list |-> l]
        ELSE r.rc = "EEXIST" /\ r.list = SubSeq(l, 1, Min(twins) - 1)

(* The load of a damaged stream reports an error, and leaves only some of  *)
(* the first nodes, in their order (sl.h:3322-3326).                       *)
LoadStops ==
    LET l == Content(list) IN
    \A s \in Damaged(Save(l)) :
        LET r == Load(s) IN r.rc # "ok" /\ IsPrefix(r.list, l)
=============================================================================
