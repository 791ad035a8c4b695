------------------------------ MODULE EavQuery ------------------------------
(***************************************************************************)
(* The query that every EAVI storage runs on its set of EAVIs              *)
(* (core_types/src/eav/query.rs) and the operations of a set that is       *)
(* ordered, and whose elements are told apart, by their index alone        *)
(* (Ord for EntityAttributeValueIndex, core_types/src/eav/eavi.rs).        *)
(***************************************************************************)
EXTENDS Naturals, FiniteSets

(* EaviQuery::eav_check; a filter is the set of values that it accepts. *)
EavCheck(x, E, A, V) == x.entity \in E /\ x.attribute \in A /\ x.value \in V

(* latest.index() == eavi.index(): x is the last of the EAVIs of S with its *)
(* entity, its value and an attribute that the query accepts.               *)
IsLatest(x, S, A) ==
    \A y \in S : EavCheck(y, {x.entity}, A, {x.value}) => y.index <= x.index

(* EaviQuery::run with IndexFilter::LatestByAttribute. *)
FetchLatest(S, E, A, V) == {x \in S : EavCheck(x, E, A, V) /\ IsLatest(x, S, A)}

(* increment_key_till_no_collision: the first free index from i on. *)
FirstFreeIndex(S, i) ==
    CHOOSE k \in i .. i + Cardinality(S) :
        /\ \A x \in S : x.index # k
        /\ \A j \in i .. k - 1 : \E x \in S : x.index = j

(* BTreeSet::insert keeps what it has. *)
InsertByIndex(S, x) == IF \E y \in S : y.index = x.index THEN S ELSE S \cup {x}

(* Collecting into a BTreeSet keeps one element for each index. *)
CollectByIndex(S) == {x \in S : x = CHOOSE y \in S : y.index = x.index}
=============================================================================
