------------------------------ MODULE DhtShard ------------------------------
(***************************************************************************)
(* What the local shard of the DHT promises to its readers: contents are   *)
(* never taken back, the mark of an entry only moves forward in its life,  *)
(* and a link can be there only when its base is.  DhtStore implements it. *)
(***************************************************************************)
CONSTANTS
    Entry, Link,
    LinkBase  \* the base of each link

VARIABLES
    stored,  \* entries in the content storage
    mark,    \* how far the life of each entry has gone
    links    \* the links that a reader is told of

vars == <<stored, mark, links>>

(* CrudStatus; Rejected and Locked are never set by any reducer. *)
CrudStatus == {"live", "modified", "deleted"}

Init ==
    /\ stored = {}
    /\ mark = [e \in Entry |-> "none"]
    /\ links = {}

Store(e) ==
    /\ stored' = stored \cup {e}
    /\ UNCHANGED <<mark, links>>

(* An update may arrive before the entry. *)
Mark(e, s) ==
    /\ \/ s = "live" /\ mark[e] = "none" /\ e \in stored
       \/ s = "modified" /\ mark[e] \in {"none", "live"}
       \/ s = "deleted" /\ mark[e] \in {"none", "live"} /\ e \in stored
    /\ mark' = [mark EXCEPT ![e] = s]
    /\ UNCHANGED <<stored, links>>

AddLink(l) ==
    /\ LinkBase[l] \in stored
    /\ links' = links \cup {l}
    /\ UNCHANGED <<stored, mark>>

RemoveLink(l) ==
    /\ LinkBase[l] \in stored
    /\ links' = links \ {l}
    /\ UNCHANGED <<stored, mark>>

Next ==
    \/ \E e \in Entry : Store(e)
    \/ \E e \in Entry, s \in CrudStatus : Mark(e, s)
    \/ \E l \in Link : AddLink(l) \/ RemoveLink(l)

Spec == Init /\ [][Next]_vars
=============================================================================
