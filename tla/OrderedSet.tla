----------------------------- MODULE OrderedSet -----------------------------
(***************************************************************************)
(* What a skip list promises the threads that share it: a set of nodes,    *)
(* one per key unless the caller asked for a duplicate, and calls that     *)
(* take effect at one moment between their invocation and their return.    *)
(*                                                                         *)
(* A call that changes nothing is justified by what the set held at some   *)
(* moment while it ran: seen[t] collects the answers to "is my key there?" *)
(* over the time t's call is in progress.  What a user of the module does  *)
(* not promise, operations or answers of theirs, is Loose.                 *)
(***************************************************************************)
CONSTANTS
    Threads, Nodes, KeyOf, NoCall,
    Invocations,    \* the calls there are
    Loose

VARIABLES
    present,    \* the nodes in the set
    call,       \* the call each thread has in progress, or NoCall
    effect,     \* the threads whose call in progress has changed the set
    seen,       \* what each call in progress has seen of its key
    result      \* what each thread's last call returned

osVars == <<present, call, effect, seen, result>>

Has(S, k) == \E n \in S : KeyOf[n] = k

(* The answers every call in progress will have seen once the set is S.    *)
SeenWith(S) ==
    [t \in DOMAIN call |->
        seen[t] \cup {Has(S, call[t].key) : x \in {call[t]} \ {NoCall}}]

Init ==
    /\ present \in SUBSET Nodes
    /\ call = [t \in Threads |-> NoCall]
    /\ effect = {}
    /\ seen = [t \in Threads |-> {}]
    /\ result = [t \in Threads |-> "none"]

Invoke(t) ==
    /\ call[t] = NoCall
    /\ \E c \in Invocations \ {NoCall} :
          /\ call' = [call EXCEPT ![t] = c]
          /\ seen' = [seen EXCEPT ![t] = {Has(present, c.key)}]
    /\ result' = [result EXCEPT ![t] = "none"]
    /\ UNCHANGED <<present, effect>>

Add(t) ==
    /\ call[t] # NoCall /\ call[t].op \in {"insert", "insert_dup"}
    /\ t \notin effect /\ call[t].node \notin present
    /\ call[t].op = "insert" => ~ Has(present, call[t].key)
    /\ present' = present \cup {call[t].node}
    /\ effect' = effect \cup {t}
    /\ seen' = SeenWith(present')
    /\ UNCHANGED <<call, result>>

Take(t) ==
    /\ call[t] # NoCall /\ call[t].op = "remove" /\ t \notin effect
    /\ \E n \in present : KeyOf[n] = call[t].key /\ present' = present \ {n}
    /\ effect' = effect \cup {t}
    /\ seen' = SeenWith(present')
    /\ UNCHANGED <<call, result>>

(* Two removes of one key may both report success: the loser's key was     *)
(* there when it looked and gone when it returned.                         *)
Justified(t, r) ==
    \/ r = "ok" /\ t \in effect
    \/ r = "ok" /\ call[t].op = "remove" /\ seen[t] = BOOLEAN
    \/ r = "exists" /\ call[t].op = "insert" /\ t \notin effect /\ TRUE \in seen[t]
    \/ r = "noent" /\ call[t].op = "remove" /\ t \notin effect /\ FALSE \in seen[t]
    \/ r = "found" /\ call[t].op = "contains" /\ TRUE \in seen[t]
    \/ r = "missing" /\ call[t].op = "contains" /\ FALSE \in seen[t]

Return(t) ==
    /\ call[t] # NoCall
    /\ \/ call[t].op \in Loose \/ result'[t] \in Loose
       \/ Justified(t, result'[t])
    /\ result' = [result EXCEPT ![t] = result'[t]]
    /\ call' = [call EXCEPT ![t] = NoCall]
    /\ effect' = effect \ {t}
    /\ seen' = [seen EXCEPT ![t] = {}]
    /\ UNCHANGED present

Next == \E t \in Threads : Invoke(t) \/ Add(t) \/ Take(t) \/ Return(t)

Spec == Init /\ [][Next]_osVars
=============================================================================
