------------------------------ MODULE DhtStore ------------------------------
(***************************************************************************)
(* The agent's shard of the DHT (core/src/dht): the reducers of the six    *)
(* actions that write it, each write to the content or to the meta storage *)
(* a step of its own, and a reader that looks up an entry and its metadata *)
(* meanwhile (core/src/nucleus/actions/get_entry.rs).                      *)
(*                                                                         *)
(* The storages are locked for one call at a time, so a reader sees what a *)
(* reducer has written so far.  EAVIs get their indices in the order of    *)
(* the additions (IndicesInOrder of EavStorage).                           *)
(***************************************************************************)
EXTENDS EavQuery, Sequences

CONSTANTS
    Entry,
    SysEntry,   \* the entries that are of a system type
    Header,
    Link,       \* a link stands for its LinkAdd entry: base, type, tag, target
    LinkBase,
    None,
    MaxActions  \* bound on the number of actions reduced

ASSUME LinkBaseType == LinkBase \in [Link -> Entry]
ASSUME SysEntryType == SysEntry \subseteq Entry
ASSUME MaxActionsType == MaxActions \in Nat

VARIABLES
    content,  \* the content storage: addresses of entries and of headers
    meta,     \* the meta storage: EAVIs
    stamp,    \* index of the latest EAVI
    cur,      \* the action being reduced, or None
    step,     \* which of its writes comes next
    actions,  \* DhtStore::actions, in the order of the answers
    count,    \* number of actions so far
    rd        \* get_entry_with_meta in another thread

store == <<content, meta, stamp>>
vars == <<content, meta, stamp, cur, step, actions, count, rd>>

CrudStatus == {"live", "modified", "deleted"}
Attribute == {"crud-status", "crud-link", "entry-header", "link", "removed-link"}
Value == CrudStatus \cup Entry \cup Header \cup Link

(* Action::Commit, Hold, UpdateEntry, RemoveEntry, AddLink, RemoveLink: the *)
(* entity that it is about, and what it says of it.                         *)
Action ==
    [kind : {"commit"}, at : Entry, to : {None}]
        \cup [kind : {"hold"}, at : Entry, to : Header]
        \cup [kind : {"update", "remove"}, at : Entry, to : Entry]
        \cup {[kind |-> k, at |-> LinkBase[l], to |-> l] : k \in {"add_link", "remove_link"}, l \in Link}

ASSUME NoneIsNone == None \notin Entry \cup Action

-----------------------------------------------------------------------------
(* Queries on a set of EAVIs.                                              *)

(* The values that a query for one entity and one attribute returns. *)
Fetch(M, e, a) == {x.value : x \in FetchLatest(M, {e}, {a}, Value)}

Statuses(M, e) == Fetch(M, e, "crud-status")

CrudLinks(M, e) == Fetch(M, e, "crud-link")

(* get_entry_crud_meta_from_dht: "look for crud-status by life-cycle       *)
(* order: Deleted, Modified, Live".                                        *)
LifeCycle(S) ==
    IF "deleted" \in S THEN "deleted"
    ELSE IF "modified" \in S THEN "modified"
    ELSE IF S = {} THEN "none" ELSE "live"

(* Faulty: the query is for links alone, not also for removed ones. *)
GetLinksIgnoringRemoved(M, b) ==
    {x.value : x \in FetchLatest(M, {b}, {"link"}, Value)}

(* DhtStore::get_links, for any type and tag. *)
GetLinks(M, b) ==
    {x.value : x \in {y \in FetchLatest(M, {b}, {"link", "removed-link"}, Value) :
                          y.attribute = "link"}}

-----------------------------------------------------------------------------
(* The reducers.                                                           *)

Write(at, attribute, value) == [entity |-> at, attribute |-> attribute, value |-> value]

(* reduce_store_entry_inner *)
StoreEntry(e) == <<Write(e, "content", e), Write(e, "crud-status", "live")>>

(* DhtStore::add_header_for_entry *)
AddHeaderForEntry(e, h) == <<Write(e, "content", h), Write(e, "entry-header", h)>>

(* Faulty: the status of an entry is not looked at. *)
PreconditionAnyStatus(a) ==
    CASE a.kind \in {"add_link", "remove_link"} -> a.at \in content
      [] a.kind = "remove" -> a.at \in content \ SysEntry
      [] OTHER -> TRUE

(* What a reducer requires before it writes anything. *)
Precondition(a) ==
    CASE a.kind \in {"add_link", "remove_link"} -> a.at \in content
      [] a.kind = "remove" -> a.at \in content \ SysEntry /\ Statuses(meta, a.at) \subseteq {"live"}
      [] OTHER -> TRUE

(* What it then writes, one storage call after the other. *)
Writes(a) ==
    CASE a.kind = "commit"      -> StoreEntry(a.at)
      [] a.kind = "hold"        -> StoreEntry(a.at) \o AddHeaderForEntry(a.at, a.to)
      [] a.kind = "update"      -> <<Write(a.at, "crud-status", "modified"), Write(a.at, "crud-link", a.to)>>
      [] a.kind = "remove"      -> <<Write(a.at, "crud-status", "deleted"), Write(a.at, "crud-link", a.to)>>
      [] a.kind = "add_link"    -> <<Write(a.at, "link", a.to)>>
      [] a.kind = "remove_link" -> <<Write(a.at, "removed-link", a.to)>>

(* actions_mut().insert: Commit and Hold leave no answer. *)
Answer(a, ok) ==
    actions' = IF a.kind \in {"commit", "hold"} THEN actions
               ELSE Append(actions, [action |-> a, ok |-> ok])

Init ==
    /\ content = {} /\ meta = {} /\ stamp = 0
    /\ cur = None /\ step = 1
    /\ actions = <<>> /\ count = 0
    /\ rd = [pc |-> "idle", at |-> None, status |-> "none", link |-> None,
             before |-> "none", linked |-> FALSE]

(* dht::reduce finds the reducer, which checks and begins to write. *)
Reduce(a) ==
    /\ cur = None
    /\ count < MaxActions
    /\ count' = count + 1
    /\ IF Precondition(a)
          THEN cur' = a /\ step' = 1 /\ UNCHANGED actions
          ELSE Answer(a, FALSE) /\ UNCHANGED <<cur, step>>
    /\ UNCHANGED <<store, rd>>

(* The next call on a storage; after the last one the answer is recorded. *)
WriteNext ==
    /\ cur # None
    /\ LET w == Writes(cur)[step] IN
       IF w.attribute = "content"
          THEN content' = content \cup {w.value} /\ UNCHANGED <<meta, stamp>>
          ELSE /\ meta' = meta \cup {[entity |-> w.entity, attribute |-> w.attribute,
                                      value |-> w.value, index |-> stamp + 1]}
               /\ stamp' = stamp + 1
               /\ UNCHANGED content
    /\ IF step < Len(Writes(cur))
          THEN step' = step + 1 /\ UNCHANGED <<cur, actions>>
          ELSE step' = 1 /\ cur' = None /\ Answer(cur, TRUE)
    /\ UNCHANGED <<count, rd>>

(* The call fails: the reducer gives up, what it wrote stays. *)
WriteFails ==
    /\ cur # None
    /\ cur' = None /\ step' = 1
    /\ Answer(cur, FALSE)
    /\ UNCHANGED <<store, count, rd>>

-----------------------------------------------------------------------------
(* get_entry_with_meta: three look-ups, each under a lock of its own.      *)

(* What a look-up of e in one step would say. *)
Status(e) == IF e \in content THEN LifeCycle(Statuses(meta, e)) ELSE "none"

(* Has an update or a removal of e been answered? *)
Linked(e) ==
    \E i \in DOMAIN actions :
        actions[i].ok /\ actions[i].action.at = e /\ actions[i].action.kind \in {"update", "remove"}

ReadEntry(e) ==
    /\ rd.pc \in {"idle", "done"}
    /\ rd' = [pc |-> IF e \in content THEN "status" ELSE "done", at |-> e, status |-> "none",
              link |-> None, before |-> Status(e), linked |-> Linked(e)]
    /\ UNCHANGED <<store, cur, step, actions, count>>

(* Faulty: the status that was set last counts. *)
ReadStatusLast ==
    /\ rd.pc = "status"
    /\ LET S == FetchLatest(meta, {rd.at}, {"crud-status"}, Value)
           last == {x.value : x \in {y \in S : \A z \in S : z.index <= y.index}} IN
       rd' = [rd EXCEPT !.pc = IF S = {} THEN "done" ELSE "link", !.status = LifeCycle(last)]
    /\ UNCHANGED <<store, cur, step, actions, count>>

ReadStatus ==
    /\ rd.pc = "status"
    /\ LET S == Statuses(meta, rd.at) IN
       rd' = [rd EXCEPT !.pc = IF S = {} THEN "done" ELSE "link", !.status = LifeCycle(S)]
    /\ UNCHANGED <<store, cur, step, actions, count>>

(* More than one crud-link makes the assertion panic. *)
ReadLink ==
    /\ rd.pc = "link"
    /\ LET L == CrudLinks(meta, rd.at) IN
       rd' = IF Cardinality(L) > 1 THEN [rd EXCEPT !.pc = "panicked"]
             ELSE [rd EXCEPT !.pc = "done", !.link = IF L = {} THEN None ELSE CHOOSE x \in L : TRUE]
    /\ UNCHANGED <<store, cur, step, actions, count>>

Next ==
    \/ \E a \in Action : Reduce(a)
    \/ WriteNext \/ WriteFails
    \/ \E e \in Entry : ReadEntry(e)
    \/ ReadStatus \/ ReadLink

Spec == Init /\ [][Next]_vars

-----------------------------------------------------------------------------
(* Properties.                                                             *)

(* Every variable holds a value of its declared kind. *)
TypeOK ==
    /\ content \subseteq Entry \cup Header
    /\ meta \subseteq [entity : Entry, attribute : Attribute, value : Value, index : 1 .. stamp]
    /\ stamp \in Nat
    /\ cur \in Action \cup {None}
    /\ step \in 1 .. 4
    /\ actions \in Seq([action : Action, ok : BOOLEAN])
    /\ count \in 0 .. MaxActions
    /\ rd \in [pc : {"idle", "status", "link", "done", "panicked"}, at : Entry \cup {None},
               status : CrudStatus \cup {"none"}, link : Value \cup {None},
               before : CrudStatus \cup {"none"}, linked : BOOLEAN]

(* The header that an entry-header EAVI points to is in the content        *)
(* storage, and so is the entry: get_headers drops no header, whatever     *)
(* writes failed and at whatever moment it reads.                          *)
HeadersResolve ==
    \A x \in meta : x.attribute = "entry-header" => {x.entity, x.value} \subseteq content

(* The answers about link l. *)
Answered(l) ==
    {i \in DOMAIN actions :
        actions[i].ok /\ actions[i].action.kind \in {"add_link", "remove_link"}
            /\ actions[i].action.to = l}

(* A link is reported exactly when the last modification of it that was    *)
(* answered with Ok added it: links can be added again after a removal,    *)
(* and a removal of a link that is not there is no obstacle later on.      *)
LinksFollowLast ==
    \A l \in Link :
        l \in GetLinks(meta, LinkBase[l]) <=>
            \E i \in Answered(l) :
                /\ actions[i].action.kind = "add_link"
                /\ \A j \in Answered(l) : j <= i

Rank(s) == CASE s = "none" -> 0 [] s = "live" -> 1 [] s = "modified" -> 2 [] s = "deleted" -> 3

(* A reader is never told less than what was so when it began, nor more    *)
(* than what is so when it is done, although it looks three times; and the *)
(* new address is there if the update was answered before.                 *)
ReadsForward ==
    rd.pc = "done" =>
        /\ Rank(rd.before) <= Rank(rd.status)
        /\ Rank(rd.status) <= Rank(Status(rd.at))
        /\ rd.linked /\ rd.status # "none" => rd.link # None

(* The reducers implement the shard that readers are promised, step by     *)
(* step: in particular a deleted entry stays deleted when it is held again *)
(* and a modified entry is never deleted.                                  *)
Shard == INSTANCE DhtShard WITH
    stored <- content \cap Entry,
    mark   <- [e \in Entry |-> LifeCycle(Statuses(meta, e))],
    links  <- {l \in Link : l \in GetLinks(meta, LinkBase[l])}

ImplementsShard == Shard!Spec

(* The assertion in get_entry_crud_meta_from_dht: at most one crud-link. *)
AtMostOneCrudLink == rd.pc # "panicked"
=============================================================================
