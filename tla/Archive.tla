------------------------------ MODULE Archive ------------------------------
(***************************************************************************)
(* SKIPLIST_DECL_ARCHIVE: a list saved to a stream and loaded from it.  A  *)
(* stream is the sequence of the pieces that are read at once: the magic,  *)
(* the version, the count, and for every record its length and its data.   *)
(* A length is fit or not (SKIPLIST_ARCHIVE_MAX_RECORD); ok is what        *)
(* read_entry_blk says of the data.                                        *)
(***************************************************************************)
EXTENDS SortedList

Header == 3

(* skip_serialize_.  A write that fails, a node that is too long or memory *)
(* that runs out leave a beginning of this, and the caller is told.        *)
Save(l) ==
    <<"SKPL", 1, Len(l)>> \o
    [i \in 1 .. 2 * Len(l) |->
        IF i % 2 = 1 THEN "fit" ELSE [ok |-> TRUE, node |-> l[i \div 2]]]

-----------------------------------------------------------------------------
(* skip_deserialize_ into an empty list.  A piece that is missing or cut   *)
(* short ends the load; so does the first record that is refused, and what *)
(* was loaded before stays.                                                *)
LoadHeader(s) ==
    CASE Len(s) < 1         -> "EIO"
      [] s[1] # "SKPL"      -> "EINVAL"
      [] Len(s) < 2         -> "EIO"
      [] s[2] # 1           -> "EINVAL"
      [] Len(s) < Header    -> "EIO"
      [] OTHER              -> "ok"

\* mutant
RefusedNoTwins(s, n, l) ==
    LET at == Header + 2 * n IN    \* the data of record n, its length before it
    CASE at - 1 > Len(s)              -> "EIO"
      [] s[at - 1] # "fit"            -> "EINVAL"
      [] at > Len(s)                  -> "EIO"
      [] ~s[at].ok                    -> "EINVAL"
      [] OTHER                        -> "ok"

Refused(s, n, l) ==
    LET at == Header + 2 * n IN    \* the data of record n, its length before it
    CASE at - 1 > Len(s)              -> "EIO"
      [] s[at - 1] # "fit"            -> "EINVAL"
      [] at > Len(s)                  -> "EIO"
      [] ~s[at].ok                    -> "EINVAL"
      [] Matches(l, s[at].node.key)   -> "EEXIST"
      [] OTHER                        -> "ok"

\* mutant
LoadOnePast(s, r, n) ==
    LET rc == Refused(s, n, r.list) IN
    IF rc = "ok" THEN [r EXCEPT !.list = Inserted(@, s[Header + 2 * n].node)]
                 ELSE r

LoadOne(s, r, n) ==
    LET rc == IF r.rc = "ok" THEN Refused(s, n, r.list) ELSE r.rc IN
    IF rc = "ok" THEN [r EXCEPT !.list = Inserted(@, s[Header + 2 * n].node)]
                 ELSE [r EXCEPT !.rc = rc]

Load(s) ==
    LET rc == LoadHeader(s)
        records == IF rc = "ok" THEN s[3] ELSE 0
        run[n \in 0 .. records] ==
            IF n = 0 THEN [rc |-> rc, list |-> <<>>] ELSE LoadOne(s, run[n - 1], n)
    IN  run[records]

(* What can become of a stream and be noticed: it is cut anywhere, its     *)
(* header or a length is wrong, the count is too high, a record's data is  *)
(* not what read_entry_blk accepts.                                        *)
Damaged(s) ==
    {SubSeq(s, 1, n) : n \in 0 .. Len(s) - 1}
      \cup {[s EXCEPT ![1] = "PLKS"], [s EXCEPT ![2] = 2], [s EXCEPT ![3] = @ + 1]}
      \cup {[s EXCEPT ![i] = "unfit"] : i \in {j \in Header + 1 .. Len(s) : j % 2 = 0}}
      \cup {[s EXCEPT ![i].ok = FALSE] : i \in {j \in Header + 1 .. Len(s) : j % 2 = 1}}
=============================================================================
