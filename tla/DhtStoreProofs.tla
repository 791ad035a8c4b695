--------------------------- MODULE DhtStoreProofs ---------------------------
(***************************************************************************)
(* Proofs about DhtStore, for any number of entries, headers, links and    *)
(* actions.                                                                *)
(***************************************************************************)
EXTENDS DhtStore, SequenceTheorems, TLAPS

EAVI == [entity : Entry, attribute : Attribute, value : Value, index : Nat]

(* An EAVI that is later than all others adds its value to what the query  *)
(* for its entity and attribute returns, and changes no other answer.      *)
LEMMA FetchAdd ==
    ASSUME NEW M, NEW x \in EAVI, NEW e, NEW a,
           M \subseteq EAVI,
           \A y \in M : y.index < x.index
    PROVE  Fetch(M \cup {x}, e, a) =
               Fetch(M, e, a) \cup (IF x.entity = e /\ x.attribute = a THEN {x.value} ELSE {})
<1> DEFINE N == M \cup {x}
<1>1. \A y \in M : y \in EAVI /\ y.index \in Nat /\ x.index \in Nat /\ y.index < x.index
  BY DEF EAVI
<1>2. ASSUME NEW v \in Fetch(N, e, a), ~(x.entity = e /\ x.attribute = a /\ v = x.value)
      PROVE  v \in Fetch(M, e, a)
  <2>1. PICK y \in FetchLatest(N, {e}, {a}, Value) : v = y.value
    BY DEF Fetch
  <2>2. y \in N /\ y.entity = e /\ y.attribute = a /\ y.value \in Value
    BY <2>1 DEF FetchLatest, EavCheck
  <2>3. y \in M
    BY <1>2, <2>1, <2>2
  <2>4. y \in FetchLatest(M, {e}, {a}, Value)
    BY <2>1, <2>3 DEF FetchLatest, EavCheck, IsLatest
  <2> QED
    BY <2>1, <2>4 DEF Fetch
<1>3. ASSUME x.entity = e, x.attribute = a
      PROVE  x.value \in Fetch(N, e, a)
  <2>1. x.value \in Value
    BY DEF EAVI
  <2>2. \A y \in N : y.index <= x.index
    BY <1>1 DEF EAVI
  <2>3. x \in FetchLatest(N, {e}, {a}, Value)
    BY <1>3, <2>1, <2>2 DEF FetchLatest, EavCheck, IsLatest
  <2> QED
    BY <2>3 DEF Fetch
<1>4. ASSUME NEW v \in Fetch(M, e, a), ~(x.entity = e /\ x.attribute = a /\ v = x.value)
      PROVE  v \in Fetch(N, e, a)
  <2>1. PICK y \in FetchLatest(M, {e}, {a}, Value) : v = y.value
    BY DEF Fetch
  <2>2. y \in FetchLatest(N, {e}, {a}, Value)
    BY <1>4, <2>1 DEF FetchLatest, EavCheck, IsLatest
  <2> QED
    BY <2>1, <2>2 DEF Fetch
<1> HIDE DEF N
<1>5. Fetch(N, e, a) =
          Fetch(M, e, a) \cup (IF x.entity = e /\ x.attribute = a THEN {x.value} ELSE {})
  BY <1>2, <1>3, <1>4
<1> QED
  BY <1>5 DEF N

(* The same for links: the latest modification decides about its link. *)
LEMMA LinksAdd ==
    ASSUME NEW M, NEW x \in EAVI, NEW b, NEW l,
           M \subseteq EAVI,
           \A y \in M : y.index < x.index
    PROVE  l \in GetLinks(M \cup {x}, b) <=>
               IF x.entity = b /\ x.value = l /\ x.attribute \in {"link", "removed-link"}
               THEN x.attribute = "link"
               ELSE l \in GetLinks(M, b)
<1> DEFINE N == M \cup {x}
           A == {"link", "removed-link"}
           hit == x.entity = b /\ x.value = l /\ x.attribute \in A
<1>1. \A y \in M : y \in EAVI /\ y.index \in Nat /\ x.index \in Nat /\ y.index < x.index
  BY DEF EAVI
<1>2. x.value \in Value
  BY DEF EAVI
<1>3. ASSUME hit, x.attribute = "link"
      PROVE  l \in GetLinks(N, b)
  <2>1. \A y \in N : y.index <= x.index
    BY <1>1 DEF EAVI
  <2>2. x \in FetchLatest(N, {b}, A, Value)
    BY <1>2, <1>3, <2>1 DEF FetchLatest, EavCheck, IsLatest
  <2> QED
    BY <1>3, <2>2 DEF GetLinks
<1>4. ASSUME hit, x.attribute # "link"
      PROVE  l \notin GetLinks(N, b)
  <2> SUFFICES ASSUME NEW y \in FetchLatest(N, {b}, A, Value), y.attribute = "link", y.value = l
               PROVE  FALSE
    BY DEF GetLinks
  <2>1. y \in M /\ y.entity = b
    BY <1>4 DEF FetchLatest, EavCheck
  <2>2. x.index <= y.index
    BY <1>4, <2>1 DEF FetchLatest, EavCheck, IsLatest
  <2> QED
    BY <1>1, <2>1, <2>2
<1>5. ASSUME ~hit, l \in GetLinks(N, b)
      PROVE  l \in GetLinks(M, b)
  <2>1. PICK y \in FetchLatest(N, {b}, A, Value) : y.attribute = "link" /\ y.value = l
    BY <1>5 DEF GetLinks
  <2>2. y \in M
    BY <1>5, <2>1 DEF FetchLatest, EavCheck
  <2>3. y \in FetchLatest(M, {b}, A, Value)
    BY <2>1, <2>2 DEF FetchLatest, EavCheck, IsLatest
  <2> QED
    BY <2>1, <2>3 DEF GetLinks
<1>6. ASSUME ~hit, l \in GetLinks(M, b)
      PROVE  l \in GetLinks(N, b)
  <2>1. PICK y \in FetchLatest(M, {b}, A, Value) : y.attribute = "link" /\ y.value = l
    BY <1>6 DEF GetLinks
  <2>2. y \in FetchLatest(N, {b}, A, Value)
    BY <1>6, <2>1 DEF FetchLatest, EavCheck, IsLatest
  <2> QED
    BY <2>1, <2>2 DEF GetLinks
<1> QED
  BY <1>3, <1>4, <1>5, <1>6

-----------------------------------------------------------------------------
(* The invariant.                                                          *)

(* What a reducer has checked or written before its next write. *)
StepOK ==
    cur # None =>
        /\ step \in 1 .. Len(Writes(cur))
        /\ cur.kind \in {"commit", "hold"} /\ step > 1 => cur.at \in content
        /\ cur.kind = "hold" /\ step > 3 => cur.to \in content
        /\ cur.kind \in {"add_link", "remove_link"} => cur.at \in content
        /\ cur.kind = "remove" => cur.at \in content
        /\ cur.kind = "remove" /\ step = 1 => Statuses(meta, cur.at) \subseteq {"live"}

IInv == TypeOK /\ StepOK /\ HeadersResolve

(* Two pairs make a tuple of four. *)
LEMMA ConcatTwoTwo == \A a, b, c, d : <<a, b>> \o <<c, d>> = <<a, b, c, d>>
<1> SUFFICES ASSUME NEW a, NEW b, NEW c, NEW d
             PROVE  <<a, b>> \o <<c, d>> = <<a, b, c, d>>
  OBVIOUS
<1> DEFINE S == {a, b, c, d}
           s == <<a, b>> \o <<c, d>>
           t == <<a, b, c, d>>
<1>1. <<a, b>> \in Seq(S) /\ <<c, d>> \in Seq(S) /\ t \in Seq(S) /\ Len(t) = 4
  OBVIOUS
<1>2. /\ s \in Seq(S) /\ Len(s) = 4
      /\ \A i \in 1 .. 4 : s[i] = IF i <= 2 THEN <<a, b>>[i] ELSE <<c, d>>[i - 2]
  BY <1>1, ConcatProperties
<1>3. s[1] = a /\ s[2] = b /\ s[3] = c /\ s[4] = d
  BY <1>2
<1>4. \A i \in 1 .. 4 : s[i] = t[i]
  BY <1>3
<1> HIDE DEF S, s, t
<1>5. s = t
  BY <1>1, <1>2, <1>4, SeqEqual
<1> QED
  BY <1>5 DEF s, t

(* What each reducer writes, in full. *)
LEMMA WritesOf ==
    ASSUME NEW a
    PROVE  /\ a.kind = "commit" =>
                  Writes(a) = <<Write(a.at, "content", a.at), Write(a.at, "crud-status", "live")>>
           /\ a.kind = "hold" =>
                  Writes(a) = <<Write(a.at, "content", a.at), Write(a.at, "crud-status", "live"),
                                Write(a.at, "content", a.to), Write(a.at, "entry-header", a.to)>>
           /\ a.kind = "update" =>
                  Writes(a) = <<Write(a.at, "crud-status", "modified"), Write(a.at, "crud-link", a.to)>>
           /\ a.kind = "remove" =>
                  Writes(a) = <<Write(a.at, "crud-status", "deleted"), Write(a.at, "crud-link", a.to)>>
           /\ a.kind = "add_link" => Writes(a) = <<Write(a.at, "link", a.to)>>
           /\ a.kind = "remove_link" => Writes(a) = <<Write(a.at, "removed-link", a.to)>>
<1>1. CASE a.kind = "commit"
  BY <1>1 DEF Writes, StoreEntry
<1>2. CASE a.kind = "hold"
  <2>1. Writes(a) = StoreEntry(a.at) \o AddHeaderForEntry(a.at, a.to)
    BY <1>2 DEF Writes
  <2>2. Writes(a) = <<Write(a.at, "content", a.at), Write(a.at, "crud-status", "live"),
                      Write(a.at, "content", a.to), Write(a.at, "entry-header", a.to)>>
    BY <2>1, ConcatTwoTwo DEF StoreEntry, AddHeaderForEntry
  <2> QED
    BY <1>2, <2>2
<1>3. CASE a.kind = "update"
  BY <1>3 DEF Writes
<1>4. CASE a.kind = "remove"
  BY <1>4 DEF Writes
<1>5. CASE a.kind = "add_link"
  BY <1>5 DEF Writes
<1>6. CASE a.kind = "remove_link"
  BY <1>6 DEF Writes
<1> QED
  BY <1>1, <1>2, <1>3, <1>4, <1>5, <1>6

(* The six kinds of actions. *)
LEMMA ActionCases ==
    ASSUME NEW a \in Action
    PROVE  /\ a.at \in Entry
           /\ \/ a.kind = "commit"
              \/ a.kind = "hold" /\ a.to \in Header
              \/ a.kind \in {"update", "remove"} /\ a.to \in Entry
              \/ a.kind \in {"add_link", "remove_link"} /\ a.to \in Link /\ a.at = LinkBase[a.to]
BY LinkBaseType DEF Action

(* A reducer makes one to four writes. *)
LEMMA WritesLen ==
    ASSUME NEW a \in Action
    PROVE  Len(Writes(a)) \in 1 .. 4
BY WritesOf, ActionCases

(* The content storage gets v. *)
Stores(v) == content' = content \cup {v} /\ meta' = meta /\ stamp' = stamp

(* The meta storage gets an EAVI. *)
Adds(e, a, v) ==
    /\ meta' = meta \cup {[entity |-> e, attribute |-> a, value |-> v, index |-> stamp + 1]}
    /\ stamp' = stamp + 1
    /\ content' = content

(* The cases of a write. *)
WriteCase(e, v) ==
    \/ v \in Entry \cup Header /\ Stores(v)
    \/ v = "live" /\ e \in content /\ Adds(e, "crud-status", v)
    \/ v = "modified" /\ Adds(e, "crud-status", v)
    \/ v = "deleted" /\ e \in content /\ Statuses(meta, e) \subseteq {"live"} /\ Adds(e, "crud-status", v)
    \/ v \in Entry /\ Adds(e, "crud-link", v)
    \/ v \in Header /\ {e, v} \subseteq content /\ Adds(e, "entry-header", v)
    \/ v \in Link /\ e = LinkBase[v] /\ e \in content /\ cur.kind = "add_link" /\ Adds(e, "link", v)
    \/ v \in Link /\ e = LinkBase[v] /\ e \in content /\ cur.kind = "remove_link" /\ Adds(e, "removed-link", v)

(* A write is one of these, at an entry. *)
LEMMA WriteIsCase ==
    ASSUME TypeOK, StepOK, WriteNext
    PROVE  \E e \in Entry, v \in Value : e = cur.at /\ WriteCase(e, v)
<1> DEFINE w == Writes(cur)[step]
<1>1. cur # None /\ cur \in Action /\ step \in 1 .. Len(Writes(cur)) /\ step \in 1 .. 4
  BY DEF TypeOK, StepOK, WriteNext
<1>2. IF w.attribute = "content" THEN Stores(w.value) ELSE Adds(w.entity, w.attribute, w.value)
  BY DEF WriteNext, Stores, Adds
<1>3. cur.at \in Entry
  BY <1>1, ActionCases
<1>c. CASE cur.kind = "commit"
  <2>0. Len(Writes(cur)) = 2
    BY <1>c, WritesOf
  <2>1. step \in {1, 2}
    BY <1>1, <2>0
  <2>2. CASE step = 1
    <3>1. w = Write(cur.at, "content", cur.at)
      BY <1>c, <2>2, WritesOf
    <3>2. Stores(cur.at)
      BY <1>2, <3>1 DEF Write
    <3> QED
      BY <1>3, <3>2 DEF WriteCase, Value
  <2>3. CASE step = 2
    <3>1. w = Write(cur.at, "crud-status", "live")
      BY <1>c, <2>3, WritesOf
    <3>2. Adds(cur.at, "crud-status", "live")
      BY <1>2, <3>1 DEF Write
    <3>3. cur.at \in content
      BY <1>1, <1>c, <2>3 DEF StepOK
    <3> QED
      BY <1>3, <3>2, <3>3 DEF WriteCase, Value, CrudStatus
  <2> QED
    BY <2>1, <2>2, <2>3
<1>h. CASE cur.kind = "hold"
  <2>1. step \in {1, 2, 3, 4} /\ cur.to \in Header
    BY <1>1, <1>h, ActionCases
  <2>2. CASE step = 1
    <3>1. w = Write(cur.at, "content", cur.at)
      BY <1>h, <2>2, WritesOf
    <3>2. Stores(cur.at)
      BY <1>2, <3>1 DEF Write
    <3> QED
      BY <1>3, <3>2 DEF WriteCase, Value
  <2>3. CASE step = 2
    <3>1. w = Write(cur.at, "crud-status", "live")
      BY <1>h, <2>3, WritesOf
    <3>2. Adds(cur.at, "crud-status", "live")
      BY <1>2, <3>1 DEF Write
    <3>3. cur.at \in content
      BY <1>1, <1>h, <2>3 DEF StepOK
    <3> QED
      BY <1>3, <3>2, <3>3 DEF WriteCase, Value, CrudStatus
  <2>4. CASE step = 3
    <3>1. w = Write(cur.at, "content", cur.to)
      BY <1>h, <2>4, WritesOf
    <3>2. Stores(cur.to)
      BY <1>2, <3>1 DEF Write
    <3> QED
      BY <1>3, <2>1, <3>2 DEF WriteCase, Value
  <2>5. CASE step = 4
    <3>1. w = Write(cur.at, "entry-header", cur.to)
      BY <1>h, <2>5, WritesOf
    <3>2. Adds(cur.at, "entry-header", cur.to)
      BY <1>2, <3>1 DEF Write
    <3>3. {cur.at, cur.to} \subseteq content
      BY <1>1, <1>h, <2>5 DEF StepOK
    <3> QED
      BY <1>3, <2>1, <3>2, <3>3 DEF WriteCase, Value
  <2> QED
    BY <2>1, <2>2, <2>3, <2>4, <2>5
<1>u. CASE cur.kind = "update"
  <2>0. Len(Writes(cur)) = 2
    BY <1>u, WritesOf
  <2>1. step \in {1, 2} /\ cur.to \in Entry
    BY <1>1, <1>u, <2>0, ActionCases
  <2>2. CASE step = 1
    <3>1. w = Write(cur.at, "crud-status", "modified")
      BY <1>u, <2>2, WritesOf
    <3>2. Adds(cur.at, "crud-status", "modified")
      BY <1>2, <3>1 DEF Write
    <3> QED
      BY <1>3, <3>2 DEF WriteCase, Value, CrudStatus
  <2>3. CASE step = 2
    <3>1. w = Write(cur.at, "crud-link", cur.to)
      BY <1>u, <2>3, WritesOf
    <3>2. Adds(cur.at, "crud-link", cur.to)
      BY <1>2, <3>1 DEF Write
    <3> QED
      BY <1>3, <2>1, <3>2 DEF WriteCase, Value
  <2> QED
    BY <2>1, <2>2, <2>3
<1>r. CASE cur.kind = "remove"
  <2>0. Len(Writes(cur)) = 2
    BY <1>r, WritesOf
  <2>1. step \in {1, 2} /\ cur.to \in Entry
    BY <1>1, <1>r, <2>0, ActionCases
  <2>2. CASE step = 1
    <3>1. w = Write(cur.at, "crud-status", "deleted")
      BY <1>r, <2>2, WritesOf
    <3>2. Adds(cur.at, "crud-status", "deleted")
      BY <1>2, <3>1 DEF Write
    <3>3. cur.at \in content /\ Statuses(meta, cur.at) \subseteq {"live"}
      BY <1>1, <1>r, <2>2 DEF StepOK
    <3> QED
      BY <1>3, <3>2, <3>3 DEF WriteCase, Value, CrudStatus
  <2>3. CASE step = 2
    <3>1. w = Write(cur.at, "crud-link", cur.to)
      BY <1>r, <2>3, WritesOf
    <3>2. Adds(cur.at, "crud-link", cur.to)
      BY <1>2, <3>1 DEF Write
    <3> QED
      BY <1>3, <2>1, <3>2 DEF WriteCase, Value
  <2> QED
    BY <2>1, <2>2, <2>3
<1>a. CASE cur.kind = "add_link"
  <2>0. Len(Writes(cur)) = 1
    BY <1>a, WritesOf
  <2>1. step = 1 /\ cur.to \in Link /\ cur.at = LinkBase[cur.to]
    BY <1>1, <1>a, <2>0, ActionCases
  <2>2. w = Write(cur.at, "link", cur.to)
    BY <1>a, <2>1, WritesOf
  <2>3. Adds(cur.at, "link", cur.to)
    BY <1>2, <2>2 DEF Write
  <2>4. cur.at \in content
    BY <1>1, <1>a DEF StepOK
  <2> QED
    BY <1>3, <1>a, <2>1, <2>3, <2>4 DEF WriteCase, Value
<1>m. CASE cur.kind = "remove_link"
  <2>0. Len(Writes(cur)) = 1
    BY <1>m, WritesOf
  <2>1. step = 1 /\ cur.to \in Link /\ cur.at = LinkBase[cur.to]
    BY <1>1, <1>m, <2>0, ActionCases
  <2>2. w = Write(cur.at, "removed-link", cur.to)
    BY <1>m, <2>1, WritesOf
  <2>3. Adds(cur.at, "removed-link", cur.to)
    BY <1>2, <2>2 DEF Write
  <2>4. cur.at \in content
    BY <1>1, <1>m DEF StepOK
  <2> QED
    BY <1>3, <1>m, <2>1, <2>3, <2>4 DEF WriteCase, Value
<1> HIDE DEF w
<1> QED
  BY <1>1, <1>c, <1>h, <1>u, <1>r, <1>a, <1>m, ActionCases

-----------------------------------------------------------------------------
(* Each part of the invariant is kept.                                     *)

(* Initially the invariant holds. *)
LEMMA InitIInv == Init => IInv
<1> SUFFICES ASSUME Init PROVE IInv
  OBVIOUS
<1>1. content = {} /\ meta = {} /\ stamp = 0 /\ cur = None /\ step = 1 /\ actions = <<>> /\ count = 0
  BY DEF Init
<1>2. rd \in [pc : {"idle", "status", "link", "done", "panicked"}, at : Entry \cup {None},
              status : CrudStatus \cup {"none"}, link : Value \cup {None},
              before : CrudStatus \cup {"none"}, linked : BOOLEAN]
  BY DEF Init
<1>3. TypeOK
  BY <1>1, <1>2, MaxActionsType DEF TypeOK
<1> QED
  BY <1>1, <1>3 DEF IInv, StepOK, HeadersResolve

(* The answers stay well typed. *)
LEMMA AnswerType ==
    ASSUME NEW a \in Action, NEW ok \in BOOLEAN, Answer(a, ok),
           actions \in Seq([action : Action, ok : BOOLEAN])
    PROVE  actions' \in Seq([action : Action, ok : BOOLEAN])
<1>1. [action |-> a, ok |-> ok] \in [action : Action, ok : BOOLEAN]
  OBVIOUS
<1> DEFINE S == [action : Action, ok : BOOLEAN]
<1>2. actions' = actions \/ actions' = Append(actions, [action |-> a, ok |-> ok])
  BY DEF Answer
<1> HIDE DEF S
<1>3. actions \in Seq(S) /\ [action |-> a, ok |-> ok] \in S
  BY <1>1 DEF S
<1>4. actions' \in Seq(S)
  BY <1>2, <1>3
<1> QED
  BY <1>4 DEF S

(* The next of at most four steps. *)
LEMMA NextStep ==
    ASSUME NEW k \in 1 .. 4, NEW n \in 1 .. 4, NEW j, (k < n /\ j = k + 1) \/ j = 1
    PROVE  j \in 1 .. 4
OBVIOUS

(* LifeCycle yields a status. *)
LEMMA LifeCycleType == \A S : LifeCycle(S) \in CrudStatus \cup {"none"}
BY DEF LifeCycle, CrudStatus

(* A step keeps the type invariant. *)
LEMMA TypeStep ==
    ASSUME IInv, [Next]_vars
    PROVE  TypeOK'
<1> USE DEF IInv
<1>1. CASE UNCHANGED vars
  BY <1>1 DEF TypeOK, vars
<1>2. ASSUME NEW a \in Action, Reduce(a)
      PROVE  TypeOK'
  <2>1. actions' \in Seq([action : Action, ok : BOOLEAN])
    BY <1>2, AnswerType DEF Reduce, TypeOK
  <2>2. cur' \in Action \cup {None} /\ step' \in 1 .. 4
    <3>1. (cur' = a /\ step' = 1) \/ (cur' = cur /\ step' = step)
      BY <1>2 DEF Reduce
    <3> QED
      BY <3>1 DEF TypeOK
  <2>3. count' \in 0 .. MaxActions
    BY <1>2, MaxActionsType DEF Reduce, TypeOK
  <2> QED
    BY <1>2, <2>1, <2>2, <2>3 DEF Reduce, TypeOK, store
<1>3. CASE WriteNext
  <2>1. cur \in Action /\ step \in 1 .. Len(Writes(cur)) /\ step \in 1 .. 4 /\ stamp \in Nat
    BY <1>3 DEF TypeOK, StepOK, WriteNext
  <2>2. actions' \in Seq([action : Action, ok : BOOLEAN])
    BY <1>3, <2>1, AnswerType DEF WriteNext, TypeOK
  <2>3. cur' \in Action \cup {None}
    BY <1>3 DEF WriteNext, TypeOK
  <2>4. step' \in 1 .. 4
    <3>1. Len(Writes(cur)) \in 1 .. 4
      BY <2>1, WritesLen
    <3>2. (step < Len(Writes(cur)) /\ step' = step + 1) \/ step' = 1
      BY <1>3 DEF WriteNext
    <3> QED
      BY <2>1, <3>1, <3>2, NextStep
  <2>5. content' \subseteq Entry \cup Header
    <3>1. PICK e \in Entry, v \in Value : WriteCase(e, v)
      BY <1>3, WriteIsCase
    <3> QED
      BY <3>1 DEF TypeOK, WriteCase, Stores, Adds
  <2>6. stamp' \in Nat /\ meta' \subseteq [entity : Entry, attribute : Attribute, value : Value, index : 1 .. stamp']
    <3>1. PICK e \in Entry, v \in Value : WriteCase(e, v)
      BY <1>3, WriteIsCase
    <3>2. \/ meta' = meta /\ stamp' = stamp
          \/ \E a \in Attribute : Adds(e, a, v)
      BY <3>1 DEF WriteCase, Stores, Attribute
    <3>3. ASSUME NEW a \in Attribute, Adds(e, a, v)
          PROVE  stamp' \in Nat /\ meta' \subseteq [entity : Entry, attribute : Attribute, value : Value, index : 1 .. stamp']
      BY <2>1, <3>3 DEF TypeOK, Adds
    <3> QED
      BY <2>1, <3>2, <3>3 DEF TypeOK
  <2> QED
    BY <1>3, <2>2, <2>3, <2>4, <2>5, <2>6 DEF WriteNext, TypeOK
<1>4. CASE WriteFails
  <2>1. actions' \in Seq([action : Action, ok : BOOLEAN])
    BY <1>4, AnswerType DEF WriteFails, TypeOK
  <2> QED
    BY <1>4, <2>1 DEF WriteFails, TypeOK, store
<1>5. ASSUME NEW e \in Entry, ReadEntry(e)
      PROVE  TypeOK'
  <2>1. Status(e) \in CrudStatus \cup {"none"}
    BY LifeCycleType DEF Status
  <2>2. Linked(e) \in BOOLEAN
    BY DEF Linked
  <2> QED
    BY <1>5, <2>1, <2>2 DEF ReadEntry, TypeOK, store
<1>6. CASE ReadStatus
  BY <1>6, LifeCycleType DEF ReadStatus, TypeOK, store
<1>7. CASE ReadLink
  <2>1. CrudLinks(meta, rd.at) \subseteq Value
    BY DEF CrudLinks, Fetch, FetchLatest, EavCheck
  <2> QED
    BY <1>7, <2>1 DEF ReadLink, TypeOK, store
<1> QED
  BY <1>1, <1>2, <1>3, <1>4, <1>5, <1>6, <1>7 DEF Next

(* Contents are never taken back. *)
LEMMA ContentGrows ==
    ASSUME [Next]_vars
    PROVE  content \subseteq content'
BY DEF Next, vars, Reduce, WriteNext, WriteFails, ReadEntry, ReadStatus, ReadLink, store

(* A step other than a write leaves the storages alone. *)
LEMMA StoreUnchanged ==
    ASSUME [Next]_vars, ~WriteNext
    PROVE  content' = content /\ meta' = meta /\ stamp' = stamp
BY DEF Next, vars, Reduce, WriteFails, ReadEntry, ReadStatus, ReadLink, store

(* A step keeps what a reducer relies on. *)
LEMMA StepOKStep ==
    ASSUME IInv, [Next]_vars
    PROVE  StepOK'
<1>1. CASE \E a \in Action : Reduce(a)
  <2>1. PICK a \in Action : Reduce(a)
    BY <1>1
  <2>2. content' = content /\ meta' = meta
    BY <2>1 DEF Reduce, store
  <2>3. CASE Precondition(a)
    <3>1. cur' = a /\ step' = 1
      BY <2>1, <2>3 DEF Reduce
    <3>2. 1 \in 1 .. Len(Writes(a))
      <4>1. Len(Writes(a)) \in 1 .. 4
        BY WritesLen
      <4> QED
        BY <4>1
    <3>3. a.kind \in {"add_link", "remove_link", "remove"} => a.at \in content
      BY <2>3 DEF Precondition
    <3>4. a.kind = "remove" => Statuses(meta, a.at) \subseteq {"live"}
      BY <2>3 DEF Precondition
    <3> QED
      BY <2>2, <3>1, <3>2, <3>3, <3>4 DEF StepOK
  <2>4. CASE ~Precondition(a)
    BY <2>1, <2>2, <2>4 DEF Reduce, IInv, StepOK
  <2> QED
    BY <2>3, <2>4
<1>2. CASE WriteNext
  <2> SUFFICES ASSUME cur' # None PROVE StepOK'
    BY DEF StepOK
  <2>1. cur' = cur /\ cur # None /\ step < Len(Writes(cur)) /\ step' = step + 1
    BY <1>2 DEF WriteNext
  <2>2. cur \in Action /\ step \in 1 .. Len(Writes(cur)) /\ Len(Writes(cur)) \in Nat
    <3>1. cur \in Action /\ step \in 1 .. Len(Writes(cur))
      BY <2>1 DEF IInv, TypeOK, StepOK
    <3> QED
      BY <3>1, WritesLen
  <2>3. step' \in 1 .. Len(Writes(cur)) /\ step' > 1 /\ (step > 1 \/ step = 1) /\ (step' > 3 => step > 3 \/ step = 3)
    BY <2>1, <2>2
  <2>4. content \subseteq content'
    BY ContentGrows
  <2>5. ASSUME cur.kind \in {"commit", "hold"}
        PROVE  cur.at \in content'
    <3>1. CASE step > 1
      BY <2>1, <2>4, <2>5, <3>1 DEF IInv, StepOK
    <3>2. CASE step = 1
      <4>1. Writes(cur)[1] = Write(cur.at, "content", cur.at)
        BY <2>5, WritesOf
      <4> QED
        BY <1>2, <3>2, <4>1 DEF WriteNext, Write
    <3> QED
      BY <2>3, <3>1, <3>2
  <2>6. ASSUME cur.kind = "hold", step' > 3
        PROVE  cur.to \in content'
    <3>1. CASE step > 3
      BY <2>1, <2>4, <2>6, <3>1 DEF IInv, StepOK
    <3>2. CASE step = 3
      <4>1. Writes(cur)[3] = Write(cur.at, "content", cur.to)
        BY <2>6, WritesOf
      <4> QED
        BY <1>2, <3>2, <4>1 DEF WriteNext, Write
    <3> QED
      BY <2>3, <2>6, <3>1, <3>2
  <2>7. cur.kind \in {"add_link", "remove_link", "remove"} => cur.at \in content'
    BY <2>1, <2>4 DEF IInv, StepOK
  <2>8. step' # 1
    BY <2>3
  <2> QED
    BY <2>1, <2>3, <2>5, <2>6, <2>7, <2>8 DEF StepOK
<1>3. CASE WriteFails
  BY <1>3 DEF WriteFails, StepOK
<1>4. CASE UNCHANGED <<content, meta, cur, step>>
  BY <1>4 DEF IInv, StepOK
<1> QED
  BY <1>1, <1>2, <1>3, <1>4 DEF Next, vars, ReadEntry, ReadStatus, ReadLink, store

(* A step keeps HeadersResolve. *)
LEMMA HeadersStep ==
    ASSUME IInv, [Next]_vars
    PROVE  HeadersResolve'
<1>1. CASE WriteNext
  <2>1. PICK e \in Entry, v \in Value : WriteCase(e, v)
    BY <1>1, WriteIsCase DEF IInv
  <2>2. content \subseteq content'
    BY ContentGrows
  <2>3. \A x \in meta' \ meta : x.attribute = "entry-header" => {x.entity, x.value} \subseteq content
    BY <2>1 DEF WriteCase, Stores, Adds
  <2> QED
    BY <2>2, <2>3 DEF IInv, HeadersResolve
<1>2. CASE ~WriteNext
  BY <1>2, StoreUnchanged DEF IInv, HeadersResolve
<1> QED
  BY <1>1, <1>2

(* The invariant is inductive. *)
LEMMA Inductive == IInv /\ [Next]_vars => IInv'
BY TypeStep, StepOKStep, HeadersStep DEF IInv

(* It holds in every reachable state. *)
LEMMA Invariant == Spec => []IInv
BY InitIInv, Inductive, PTL DEF Spec

(* The variables of the shard keep their types, whatever is reduced and    *)
(* read, and wherever a write fails.                                       *)
THEOREM TypeCorrect == Spec => []TypeOK
<1>1. IInv => TypeOK
  BY DEF IInv
<1> QED
  BY <1>1, Invariant, PTL

(* get_headers finds the content of every header that the meta storage     *)
(* knows of, at every moment of a Hold and after a Hold that failed.       *)
THEOREM HeadersAlwaysResolve == Spec => []HeadersResolve
<1>1. IInv => HeadersResolve
  BY DEF IInv
<1> QED
  BY <1>1, Invariant, PTL

-----------------------------------------------------------------------------
(* The reducers implement DhtShard.                                        *)

(* What an addition does to the answers of the queries. *)
LEMMA AddsEffect ==
    ASSUME TypeOK, NEW e \in Entry, NEW a \in Attribute, NEW v \in Value, Adds(e, a, v)
    PROVE  /\ \A d, b : Fetch(meta', d, b) =
                  Fetch(meta, d, b) \cup (IF d = e /\ b = a THEN {v} ELSE {})
           /\ \A d, l : l \in GetLinks(meta', d) <=>
                  IF d = e /\ v = l /\ a \in {"link", "removed-link"}
                  THEN a = "link" ELSE l \in GetLinks(meta, d)
<1> DEFINE x == [entity |-> e, attribute |-> a, value |-> v, index |-> stamp + 1]
<1>1. meta' = meta \cup {x} /\ stamp \in Nat
  BY DEF Adds, TypeOK
<1>2. x \in EAVI /\ x.entity = e /\ x.attribute = a /\ x.value = v
  BY <1>1 DEF EAVI
<1>3. meta \subseteq EAVI /\ \A y \in meta : y.index < x.index
  BY <1>1 DEF TypeOK, EAVI
<1> HIDE DEF x
<1>4. ASSUME NEW d, NEW b
      PROVE  Fetch(meta', d, b) = Fetch(meta, d, b) \cup (IF d = e /\ b = a THEN {v} ELSE {})
  BY <1>1, <1>2, <1>3, FetchAdd
<1>5. ASSUME NEW d, NEW l
      PROVE  l \in GetLinks(meta', d) <=>
                 IF d = e /\ v = l /\ a \in {"link", "removed-link"}
                 THEN a = "link" ELSE l \in GetLinks(meta, d)
  BY <1>1, <1>2, <1>3, LinksAdd
<1> QED
  BY <1>4, <1>5

(* The refinement mapping. *)
Marks == [e \in Entry |-> LifeCycle(Statuses(meta, e))]
Links == {l \in Link : l \in GetLinks(meta, LinkBase[l])}

(* A mark moves to what the old statuses and the new one make of it. *)
LEMMA MarkStep ==
    ASSUME TypeOK, NEW e \in Entry, NEW v \in CrudStatus, Adds(e, "crud-status", v)
    PROVE  /\ Marks' = [Marks EXCEPT ![e] = LifeCycle(Statuses(meta, e) \cup {v})]
           /\ Links' = Links
<1>1. v \in Value /\ "crud-status" \in Attribute
  BY DEF Value, Attribute
<1>2. \A d \in Entry : Statuses(meta', d) = Statuses(meta, d) \cup (IF d = e THEN {v} ELSE {})
  BY <1>1, AddsEffect DEF Statuses
<1>3. \A d \in Entry : LifeCycle(Statuses(meta', d)) =
          IF d = e THEN LifeCycle(Statuses(meta, e) \cup {v}) ELSE LifeCycle(Statuses(meta, d))
  <2> TAKE d \in Entry
  <2>1. CASE d = e
    BY <1>2, <2>1
  <2>2. CASE d # e
    <3>1. Statuses(meta', d) = Statuses(meta, d)
      BY <1>2, <2>2
    <3> QED
      BY <2>2, <3>1
  <2> QED
    BY <2>1, <2>2
<1>4. Links' = Links
  BY <1>1, AddsEffect DEF Links
<1> QED
  BY <1>3, <1>4 DEF Marks

(* An addition that is no status leaves the marks. *)
LEMMA NoMarkStep ==
    ASSUME TypeOK, NEW e \in Entry, NEW a \in Attribute \ {"crud-status"}, NEW v \in Value, Adds(e, a, v)
    PROVE  Marks' = Marks
<1>0. a \in Attribute /\ a # "crud-status"
  OBVIOUS
<1>1. \A d \in Entry : Statuses(meta', d) = Statuses(meta, d)
  <2>0. \A d, b : Fetch(meta', d, b) = Fetch(meta, d, b) \cup (IF d = e /\ b = a THEN {v} ELSE {})
    BY <1>0, AddsEffect
  <2>1. \A d \in Entry : Fetch(meta', d, "crud-status") = Fetch(meta, d, "crud-status") \cup {}
    BY <1>0, <2>0
  <2> QED
    BY <2>1 DEF Statuses
<1> QED
  BY <1>1 DEF Marks

(* Each step of the store is a step of the shard, or none. *)
LEMMA ShardStep ==
    ASSUME IInv, [Next]_vars
    PROVE  [Shard!Next]_Shard!vars
<1> DEFINE stored == content \cap Entry
<1>0. Shard!vars = <<stored, Marks, Links>> /\ (Shard!vars)' = <<stored', Marks', Links'>>
  BY DEF Shard!vars, Marks, Links
<1>1. CASE ~WriteNext
  <2>1. content' = content /\ meta' = meta
    BY <1>1, StoreUnchanged
  <2> QED
    BY <1>0, <2>1 DEF Marks, Links
<1>2. CASE WriteNext
  <2>0. TypeOK
    BY DEF IInv
  <2>1. PICK e \in Entry, v \in Value : WriteCase(e, v)
    BY <1>2, WriteIsCase DEF IInv
  <2>2. CASE v \in Entry \cup Header /\ Stores(v)
    <3>1. Marks' = Marks /\ Links' = Links /\ stored' = stored \cup ({v} \cap Entry)
      BY <2>2 DEF Marks, Links, Stores
    <3>2. CASE v \in Entry
      <4>1. Shard!Store(v)
        BY <3>1, <3>2 DEF Shard!Store, Marks, Links
      <4> QED
        BY <3>2, <4>1 DEF Shard!Next
    <3>3. CASE v \notin Entry
      BY <1>0, <3>1, <3>3
    <3> QED
      BY <3>2, <3>3
  <2>3. ASSUME v \in CrudStatus, Adds(e, "crud-status", v),
               \/ v = "live" /\ e \in content
               \/ v = "modified"
               \/ v = "deleted" /\ e \in content /\ Statuses(meta, e) \subseteq {"live"}
        PROVE  [Shard!Next]_Shard!vars
    <3> DEFINE S == Statuses(meta, e)
    <3>1. Marks' = [Marks EXCEPT ![e] = LifeCycle(S \cup {v})] /\ Links' = Links /\ stored' = stored
      BY <2>0, <2>3, MarkStep DEF Adds
    <3>2. Marks[e] = LifeCycle(S) /\ Marks = [d \in Entry |-> Marks[d]]
      BY DEF Marks
    <3>3. CASE LifeCycle(S \cup {v}) = LifeCycle(S)
      <4>1. Marks' = Marks
        BY <3>1, <3>2, <3>3
      <4> QED
        BY <1>0, <3>1, <4>1
    <3>4. CASE LifeCycle(S \cup {v}) # LifeCycle(S)
      <4>1. /\ LifeCycle(S \cup {v}) = v
            /\ \/ v = "live" /\ Marks[e] = "none" /\ e \in stored
               \/ v = "modified" /\ Marks[e] \in {"none", "live"}
               \/ v = "deleted" /\ Marks[e] \in {"none", "live"} /\ e \in stored
        BY <2>3, <3>2, <3>4 DEF LifeCycle
      <4>2. Shard!Mark(e, v)
        BY <3>1, <4>1 DEF Shard!Mark, Marks, Links
      <4> QED
        BY <2>3, <4>2 DEF Shard!Next, Shard!CrudStatus, CrudStatus
    <3> QED
      BY <3>3, <3>4
  <2>4. ASSUME NEW a \in {"crud-link", "entry-header"}, Adds(e, a, v)
        PROVE  [Shard!Next]_Shard!vars
    <3>1. Marks' = Marks /\ stored' = stored
      BY <2>0, <2>4, NoMarkStep DEF Attribute, Adds
    <3>2. Links' = Links
      BY <2>0, <2>4, AddsEffect DEF Attribute, Links
    <3> QED
      BY <1>0, <3>1, <3>2
  <2>5. ASSUME v \in Link, e = LinkBase[v], e \in content, Adds(e, "link", v)
        PROVE  [Shard!Next]_Shard!vars
    <3>1. Marks' = Marks /\ stored' = stored /\ e \in stored
      BY <2>0, <2>5, NoMarkStep DEF Attribute, Adds
    <3>2. Links' = Links \cup {v}
      BY <2>0, <2>5, AddsEffect DEF Attribute, Links
    <3>3. Shard!AddLink(v)
      BY <2>5, <3>1, <3>2 DEF Shard!AddLink, Marks, Links
    <3> QED
      BY <2>5, <3>3 DEF Shard!Next
  <2>6. ASSUME v \in Link, e = LinkBase[v], e \in content, Adds(e, "removed-link", v)
        PROVE  [Shard!Next]_Shard!vars
    <3>1. Marks' = Marks /\ stored' = stored /\ e \in stored
      BY <2>0, <2>6, NoMarkStep DEF Attribute, Adds
    <3>2. Links' = Links \ {v}
      BY <2>0, <2>6, AddsEffect DEF Attribute, Links
    <3>3. Shard!RemoveLink(v)
      BY <2>6, <3>1, <3>2 DEF Shard!RemoveLink, Marks, Links
    <3> QED
      BY <2>6, <3>3 DEF Shard!Next
  <2> QED
    BY <2>1, <2>2, <2>3, <2>4, <2>5, <2>6 DEF WriteCase, CrudStatus
<1> QED
  BY <1>1, <1>2

(* The empty store is an empty shard. *)
LEMMA ShardInit == Init => Shard!Init
<1> SUFFICES ASSUME Init PROVE Shard!Init
  OBVIOUS
<1>1. content = {} /\ meta = {}
  BY DEF Init
<1>2. \A e \in Entry : Statuses(meta, e) = {}
  BY <1>1 DEF Statuses, Fetch, FetchLatest
<1>3. \A b : GetLinks(meta, b) = {}
  BY <1>1 DEF GetLinks, FetchLatest
<1> QED
  BY <1>1, <1>2, <1>3 DEF Shard!Init, LifeCycle

(* The store implements the shard that readers are promised: contents      *)
(* stay, marks move forward only (deleted entries stay deleted, modified   *)
(* ones are never deleted) and links appear only where the base is stored. *)
THEOREM StoreImplementsShard == Spec => ImplementsShard
BY ShardInit, ShardStep, Invariant, PTL DEF Spec, ImplementsShard, Shard!Spec

-----------------------------------------------------------------------------
(* Links follow the last answer.                                           *)

LinkKind == {"add_link", "remove_link"}
LastAdds(l) ==
    \E i \in Answered(l) :
        /\ actions[i].action.kind = "add_link"
        /\ \A j \in Answered(l) : j <= i

(* An answer that is an error, or about no link, changes nothing here. *)
LEMMA OtherAnswer ==
    ASSUME actions \in Seq([action : Action, ok : BOOLEAN]), NEW a \in Action, NEW ok \in BOOLEAN,
           Answer(a, ok), ok => a.kind \notin LinkKind, NEW l \in Link
    PROVE  LastAdds(l)' <=> LastAdds(l)
<1> DEFINE r == [action |-> a, ok |-> ok]
<1>1. CASE actions' = actions
  BY <1>1 DEF LastAdds, Answered
<1>2. CASE actions' = Append(actions, r)
  <2>1. DOMAIN actions' = DOMAIN actions \cup {Len(actions) + 1}
    BY <1>2
  <2>2. \A i \in DOMAIN actions : actions'[i] = actions[i]
    BY <1>2
  <2>3. actions'[Len(actions) + 1] = r
    BY <1>2
  <2>4. Answered(l)' = Answered(l)
    BY <2>1, <2>2, <2>3 DEF Answered, LinkKind
  <2>5. Answered(l) \subseteq DOMAIN actions
    BY DEF Answered
  <2> QED
    BY <2>2, <2>4, <2>5 DEF LastAdds
<1> QED
  BY <1>1, <1>2 DEF Answer

(* The answer to a modification of link k decides about k alone. *)
LEMMA LinkAnswer ==
    ASSUME actions \in Seq([action : Action, ok : BOOLEAN]), NEW a \in Action,
           Answer(a, TRUE), a.kind \in LinkKind, NEW l \in Link
    PROVE  LastAdds(l)' <=> IF a.to = l THEN a.kind = "add_link" ELSE LastAdds(l)
<1> DEFINE r == [action |-> a, ok |-> TRUE]
           n == Len(actions) + 1
<1>1. actions' = Append(actions, r)
  BY DEF Answer, LinkKind
<1>2. DOMAIN actions' = DOMAIN actions \cup {n} /\ \A i \in DOMAIN actions : i < n /\ i \in Nat
  BY <1>1
<1>3. \A i \in DOMAIN actions : actions'[i] = actions[i]
  BY <1>1
<1>4. actions'[n] = r
  BY <1>1
<1>n. n \in Nat
  OBVIOUS
<1> HIDE DEF n
<1>5. Answered(l) \subseteq DOMAIN actions
  BY DEF Answered
<1>6. CASE a.to = l
  <2>1. Answered(l)' = Answered(l) \cup {n}
    BY <1>2, <1>3, <1>4, <1>6 DEF Answered, LinkKind
  <2>2. \A i \in Answered(l)' : i <= n /\ (n <= i => i = n)
    BY <1>2, <1>5, <1>n, <2>1
  <2> QED
    BY <1>4, <1>6, <2>1, <2>2 DEF LastAdds
<1>7. CASE a.to # l
  <2>1. Answered(l)' = Answered(l)
    BY <1>2, <1>3, <1>4, <1>7 DEF Answered
  <2> QED
    BY <1>3, <1>5, <1>7, <2>1 DEF LastAdds
<1> QED
  BY <1>6, <1>7

(* A step keeps links and answers together. *)
LEMMA LinksStep ==
    ASSUME IInv, LinksFollowLast, [Next]_vars
    PROVE  LinksFollowLast'
<1> SUFFICES ASSUME NEW l \in Link
             PROVE  l \in GetLinks(meta', LinkBase[l]) <=> LastAdds(l)'
  BY DEF LinksFollowLast, LastAdds
<1>0. l \in GetLinks(meta, LinkBase[l]) <=> LastAdds(l)
  BY DEF LinksFollowLast, LastAdds
<1>t. TypeOK /\ actions \in Seq([action : Action, ok : BOOLEAN])
  BY DEF IInv, TypeOK
<1>1. CASE WriteNext /\ cur.kind \in LinkKind
  <2> DEFINE b == IF cur.kind = "add_link" THEN "link" ELSE "removed-link"
  <2>1. cur \in Action /\ step \in 1 .. Len(Writes(cur)) /\ cur # None
    BY <1>1 DEF IInv, TypeOK, StepOK, WriteNext
  <2>2. cur.at \in Entry /\ cur.to \in Link /\ cur.at = LinkBase[cur.to]
    BY <1>1, <2>1, ActionCases DEF LinkKind
  <2>3. Writes(cur) = <<Write(cur.at, b, cur.to)>>
    BY <1>1, WritesOf DEF LinkKind
  <2>4. step = 1 /\ Len(Writes(cur)) = 1
    BY <2>1, <2>3
  <2>5. Adds(cur.at, b, cur.to)
    BY <1>1, <2>3, <2>4 DEF WriteNext, Write, Adds
  <2>6. Answer(cur, TRUE)
    <3>1. ~(step < Len(Writes(cur)))
      BY <2>4
    <3>2. IF step < Len(Writes(cur)) THEN UNCHANGED <<cur, actions>> ELSE Answer(cur, TRUE)
      BY <1>1 DEF WriteNext
    <3> QED
      BY <3>1, <3>2
  <2>7. LastAdds(l)' <=> IF cur.to = l THEN cur.kind = "add_link" ELSE LastAdds(l)
    BY <1>1, <1>t, <2>1, <2>6, LinkAnswer
  <2>8. l \in GetLinks(meta', LinkBase[l]) <=>
            IF cur.to = l THEN b = "link" ELSE l \in GetLinks(meta, LinkBase[l])
    <3>1. b \in Attribute /\ b \in {"link", "removed-link"} /\ cur.to \in Value
      BY <2>2 DEF Attribute, Value
    <3> HIDE DEF b
    <3>2. \A d, k : k \in GetLinks(meta', d) <=>
              IF d = cur.at /\ cur.to = k /\ b \in {"link", "removed-link"}
              THEN b = "link" ELSE k \in GetLinks(meta, d)
      BY <1>t, <2>2, <2>5, <3>1, AddsEffect
    <3> QED
      BY <2>2, <3>1, <3>2
  <2> QED
    BY <1>0, <1>1, <2>7, <2>8 DEF LinkKind
<1>2. CASE WriteNext /\ cur.kind \notin LinkKind
  <2>1. PICK e \in Entry, v \in Value : WriteCase(e, v)
    BY <1>2, WriteIsCase DEF IInv
  <2>2. \/ meta' = meta
        \/ \E a \in Attribute \ {"link", "removed-link"} : Adds(e, a, v)
    BY <1>2, <2>1 DEF WriteCase, Stores, Attribute, LinkKind
  <2>3. l \in GetLinks(meta', LinkBase[l]) <=> l \in GetLinks(meta, LinkBase[l])
    <3>1. ASSUME NEW a \in Attribute \ {"link", "removed-link"}, Adds(e, a, v)
          PROVE  l \in GetLinks(meta', LinkBase[l]) <=> l \in GetLinks(meta, LinkBase[l])
      <4>1. a \in Attribute /\ a \notin {"link", "removed-link"}
        OBVIOUS
      <4>2. \A d, k : k \in GetLinks(meta', d) <=>
                IF d = e /\ v = k /\ a \in {"link", "removed-link"}
                THEN a = "link" ELSE k \in GetLinks(meta, d)
        BY <1>t, <3>1, <4>1, AddsEffect
      <4> QED
        BY <4>1, <4>2
    <3> QED
      BY <2>2, <3>1
  <2>4. cur \in Action
    BY <1>2 DEF IInv, TypeOK, WriteNext
  <2>5. actions' = actions \/ Answer(cur, TRUE)
    BY <1>2 DEF WriteNext
  <2>6. LastAdds(l)' <=> LastAdds(l)
    <3>1. CASE actions' = actions
      BY <3>1 DEF LastAdds, Answered
    <3>2. CASE Answer(cur, TRUE)
      BY <1>2, <1>t, <2>4, <3>2, OtherAnswer
    <3> QED
      BY <2>5, <3>1, <3>2
  <2> QED
    BY <1>0, <2>3, <2>6
<1>3. CASE ~WriteNext
  <2>1. meta' = meta
    BY <1>3, StoreUnchanged
  <2>2. actions' = actions \/ \E a \in Action : Answer(a, FALSE)
    BY <1>3, <1>t DEF Next, vars, Reduce, WriteFails, ReadEntry, ReadStatus, ReadLink, TypeOK
  <2>3. LastAdds(l)' <=> LastAdds(l)
    <3>1. CASE actions' = actions
      BY <3>1 DEF LastAdds, Answered
    <3>2. CASE \E a \in Action : Answer(a, FALSE)
      BY <1>t, <3>2, OtherAnswer
    <3> QED
      BY <2>2, <3>1, <3>2
  <2> QED
    BY <1>0, <2>1, <2>3
<1> QED
  BY <1>1, <1>2, <1>3

(* get_links reports a link exactly when the last modification of it that  *)
(* was answered with Ok added it.                                          *)
THEOREM LinksAlwaysFollowLast == Spec => []LinksFollowLast
<1>1. Init => LinksFollowLast
  <2> SUFFICES ASSUME Init PROVE LinksFollowLast
    OBVIOUS
  <2>1. meta = {} /\ actions = <<>>
    BY DEF Init
  <2>2. \A b : GetLinks(meta, b) = {}
    BY <2>1 DEF GetLinks, FetchLatest
  <2>3. \A l : Answered(l) = {}
    BY <2>1 DEF Answered
  <2> QED
    BY <2>2, <2>3 DEF LinksFollowLast
<1>2. IInv /\ LinksFollowLast /\ [Next]_vars => LinksFollowLast'
  BY LinksStep
<1> QED
  BY <1>1, <1>2, Invariant, PTL DEF Spec

-----------------------------------------------------------------------------
(* What a reader is told while the reducers write.                         *)

(* The answers only grow. *)
LEMMA FetchGrows ==
    ASSUME IInv, [Next]_vars
    PROVE  \A e, a : Fetch(meta, e, a) \subseteq Fetch(meta', e, a)
<1>1. CASE ~WriteNext
  BY <1>1, StoreUnchanged
<1>2. CASE WriteNext
  <2>1. PICK e \in Entry, v \in Value : WriteCase(e, v)
    BY <1>2, WriteIsCase DEF IInv
  <2>2. meta' = meta \/ \E a \in Attribute : Adds(e, a, v)
    BY <2>1 DEF WriteCase, Stores, Attribute
  <2>3. ASSUME NEW a \in Attribute, Adds(e, a, v)
        PROVE  \A d, b : Fetch(meta, d, b) \subseteq Fetch(meta', d, b)
    <3>1. \A d, b : Fetch(meta', d, b) = Fetch(meta, d, b) \cup (IF d = e /\ b = a THEN {v} ELSE {})
      BY <2>3, AddsEffect DEF IInv
    <3> QED
      BY <3>1
  <2> QED
    BY <2>2, <2>3
<1> QED
  BY <1>1, <1>2

(* More statuses make no lower a status. *)
LEMMA RankGrows ==
    ASSUME NEW S, NEW T, S \subseteq T
    PROVE  Rank(LifeCycle(S)) <= Rank(LifeCycle(T))
<1>1. \A U : /\ LifeCycle(U) \in {"none", "live", "modified", "deleted"}
             /\ (LifeCycle(U) = "deleted" <=> "deleted" \in U)
             /\ (LifeCycle(U) = "modified" <=> "deleted" \notin U /\ "modified" \in U)
             /\ (LifeCycle(U) = "none" <=> U = {})
  BY DEF LifeCycle
<1>2. /\ Rank("none") = 0 /\ Rank("live") = 1 /\ Rank("modified") = 2 /\ Rank("deleted") = 3
  BY DEF Rank
<1>3. CASE LifeCycle(T) = "deleted"
  BY <1>1, <1>2, <1>3
<1>4. CASE LifeCycle(T) = "modified"
  BY <1>1, <1>2, <1>4
<1>5. CASE LifeCycle(T) = "live"
  BY <1>1, <1>2, <1>5
<1>6. CASE LifeCycle(T) = "none"
  BY <1>1, <1>2, <1>6
<1> QED
  BY <1>1, <1>3, <1>4, <1>5, <1>6

LEMMA RankType == \A s \in CrudStatus \cup {"none"} : Rank(s) \in 0 .. 3
  BY DEF Rank, CrudStatus

LEMMA StatusType == \A e : Status(e) \in CrudStatus \cup {"none"}
  BY LifeCycleType DEF Status

LEMMA StatusGrows ==
    ASSUME IInv, [Next]_vars, NEW e
    PROVE  Rank(Status(e)) <= Rank(Status(e)')
<1>1. content \subseteq content' /\ Statuses(meta, e) \subseteq Statuses(meta', e)
  BY ContentGrows, FetchGrows DEF Statuses
<1>2. Rank(LifeCycle(Statuses(meta, e))) <= Rank(LifeCycle(Statuses(meta', e)))
  BY <1>1, RankGrows
<1>3. Rank("none") = 0 /\ Rank(LifeCycle(Statuses(meta', e))) \in 0 .. 3
  BY LifeCycleType, RankType DEF Rank
<1> QED
  BY <1>1, <1>2, <1>3 DEF Status

(* An update or removal that was answered has left its crud-link, and      *)
(* crud-links lead to entries.                                             *)
LinksLeft ==
    /\ \A e : Linked(e) => CrudLinks(meta, e) # {}
    /\ \A x \in meta : x.attribute = "crud-link" => x.value \in Entry

LEMMA LinksLeftStep ==
    ASSUME IInv, LinksLeft, [Next]_vars
    PROVE  LinksLeft'
<1>0. /\ TypeOK /\ StepOK /\ actions \in Seq([action : Action, ok : BOOLEAN])
      /\ \A e : CrudLinks(meta, e) \subseteq CrudLinks(meta', e)
  BY FetchGrows DEF IInv, TypeOK, CrudLinks
<1>1. \A x \in meta' : x.attribute = "crud-link" => x.value \in Entry
  <2>1. CASE ~WriteNext
    BY <2>1, StoreUnchanged DEF LinksLeft
  <2>2. CASE WriteNext
    <3>1. PICK e \in Entry, v \in Value : WriteCase(e, v)
      BY <1>0, <2>2, WriteIsCase
    <3>2. \/ meta' = meta
          \/ \E a : Adds(e, a, v) /\ (a = "crud-link" => v \in Entry)
      BY <3>1 DEF WriteCase, Stores
    <3> QED
      BY <3>2 DEF Adds, LinksLeft
  <2> QED
    BY <2>1, <2>2
<1>2. ASSUME NEW e, Linked(e)'
      PROVE  CrudLinks(meta', e) # {}
  <2>1. CASE Linked(e)
    BY <1>0, <2>1 DEF LinksLeft
  <2>2. CASE ~Linked(e)
    <3>1. PICK i \in DOMAIN actions' : /\ actions'[i].ok /\ actions'[i].action.at = e
                                       /\ actions'[i].action.kind \in {"update", "remove"}
      BY <1>2 DEF Linked
    <3>2. ASSUME NEW a, NEW ok, Answer(a, ok)
          PROVE  ok /\ a.at = e /\ a.kind \in {"update", "remove"}
      <4>1. actions' = Append(actions, [action |-> a, ok |-> ok])
        BY <2>2, <3>1, <3>2 DEF Answer, Linked
      <4>2. /\ DOMAIN actions' = 1 .. Len(actions) + 1 /\ DOMAIN actions = 1 .. Len(actions)
            /\ Len(actions) \in Nat
            /\ \A j \in 1 .. Len(actions) : actions'[j] = actions[j]
            /\ actions'[Len(actions) + 1] = [action |-> a, ok |-> ok]
        BY <1>0, <4>1
      <4>3. i = Len(actions) + 1
        BY <2>2, <3>1, <4>2 DEF Linked
      <4> QED
        BY <3>1, <4>2, <4>3
    <3>3. actions' # actions
      BY <2>2, <3>1 DEF Linked
    <3>4. WriteNext /\ Answer(cur, TRUE) /\ ~(step < Len(Writes(cur)))
      BY <3>2, <3>3 DEF Next, vars, Reduce, WriteNext, WriteFails, ReadEntry, ReadStatus, ReadLink
    <3>5. cur.at = e /\ cur.kind \in {"update", "remove"} /\ cur \in Action
      BY <1>0, <3>2, <3>4 DEF WriteNext, TypeOK
    <3>6. /\ Len(Writes(cur)) = 2
          /\ Writes(cur)[2] = [entity |-> e, attribute |-> "crud-link", value |-> cur.to]
      BY <3>5, WritesOf DEF Write
    <3>7. step = 2
      BY <1>0, <3>4, <3>6 DEF StepOK, WriteNext, TypeOK
    <3>8. Adds(e, "crud-link", cur.to)
      BY <3>4, <3>6, <3>7 DEF WriteNext, Adds
    <3>9. e \in Entry /\ cur.to \in Value /\ "crud-link" \in Attribute
      BY <3>5, ActionCases DEF Value, Attribute
    <3>10. \A d, b : Fetch(meta', d, b) =
               Fetch(meta, d, b) \cup (IF d = e /\ b = "crud-link" THEN {cur.to} ELSE {})
      BY <1>0, <3>8, <3>9, AddsEffect
    <3>11. cur.to \in Fetch(meta', e, "crud-link")
      BY <3>10
    <3> QED
      BY <3>11 DEF CrudLinks
  <2> QED
    BY <2>1, <2>2
<1> QED
  BY <1>1, <1>2 DEF LinksLeft

(* What a reader has been told between its look-ups. *)
ReaderInv ==
    /\ rd.linked => Linked(rd.at)
    /\ rd.pc = "status" => rd.at \in content /\ Rank(rd.before) <= Rank(Status(rd.at))
    /\ rd.pc \in {"link", "done"} =>
          Rank(rd.before) <= Rank(rd.status) /\ Rank(rd.status) <= Rank(Status(rd.at))
    /\ rd.pc = "done" => (rd.linked /\ rd.status # "none" => rd.link # None)

(* Answers stay. *)
LEMMA LinkedStays ==
    ASSUME TypeOK, [Next]_vars, NEW e, Linked(e)
    PROVE  Linked(e)'
<1>1. actions \in Seq([action : Action, ok : BOOLEAN])
  BY DEF TypeOK
<1>2. actions' = actions \/ \E x : actions' = Append(actions, x)
  BY DEF Next, vars, Reduce, WriteNext, WriteFails, ReadEntry, ReadStatus, ReadLink, Answer
<1>3. PICK i \in DOMAIN actions : /\ actions[i].ok /\ actions[i].action.at = e
                                  /\ actions[i].action.kind \in {"update", "remove"}
  BY DEF Linked
<1>4. i \in DOMAIN actions' /\ actions'[i] = actions[i]
  BY <1>1, <1>2
<1> QED
  BY <1>3, <1>4 DEF Linked

LEMMA ReaderStep ==
    ASSUME IInv, LinksLeft, ReaderInv, [Next]_vars
    PROVE  ReaderInv'
<1>0. /\ TypeOK /\ rd.status \in CrudStatus \cup {"none"} /\ rd.before \in CrudStatus \cup {"none"}
      /\ content \subseteq content'
  BY ContentGrows DEF IInv, TypeOK
<1>1. /\ \A s \in CrudStatus \cup {"none"} : Rank(s) \in 0 .. 3
      /\ \A e : Status(e) \in CrudStatus \cup {"none"}
  BY RankType, StatusType
<1>2. CASE rd' = rd
  <2>1. Rank(Status(rd.at)) <= Rank(Status(rd.at)') /\ Rank(Status(rd.at)') \in 0 .. 3
    <3> DEFINE e == rd.at
    <3>1. Status(e)' \in CrudStatus \cup {"none"}
      BY <1>2, LifeCycleType DEF Status
    <3> QED
      BY <3>1, <1>1, <1>2, StatusGrows
  <2>2. Rank(Status(rd.at)) \in 0 .. 3 /\ Rank(rd.status) \in 0 .. 3 /\ Rank(rd.before) \in 0 .. 3
    BY <1>0, <1>1
  <2>3. rd.linked => Linked(rd.at)'
    BY <1>0, <1>2, LinkedStays DEF ReaderInv
  <2> QED
    BY <1>0, <1>2, <2>1, <2>2, <2>3 DEF ReaderInv
<1>3. ASSUME NEW e \in Entry, ReadEntry(e)
      PROVE  ReaderInv'
  <2>1. /\ rd' = [pc |-> IF e \in content THEN "status" ELSE "done", at |-> e, status |-> "none",
                  link |-> None, before |-> Status(e), linked |-> Linked(e)]
        /\ content' = content /\ meta' = meta /\ actions' = actions
    BY <1>3 DEF ReadEntry, store
  <2>2. Status(e)' = Status(e) /\ (Linked(e)' <=> Linked(e))
    BY <2>1 DEF Status, Linked
  <2>3. Rank(Status(e)) \in 0 .. 3 /\ Rank("none") = 0
    BY <1>1 DEF Rank
  <2>4. e \notin content => Status(e) = "none"
    BY DEF Status
  <2> QED
    BY <2>1, <2>2, <2>3, <2>4 DEF ReaderInv
<1>4. CASE ReadStatus
  <2> DEFINE S == Statuses(meta, rd.at)
  <2>1. /\ rd' = [rd EXCEPT !.pc = IF S = {} THEN "done" ELSE "link", !.status = LifeCycle(S)]
        /\ content' = content /\ meta' = meta /\ actions' = actions /\ rd.pc = "status"
    BY <1>4 DEF ReadStatus, store
  <2>2. /\ rd'.at = rd.at /\ rd'.before = rd.before /\ rd'.linked = rd.linked /\ rd'.status = LifeCycle(S)
        /\ rd'.pc = IF S = {} THEN "done" ELSE "link"
    BY <1>0, <2>1 DEF TypeOK
  <2>3. Status(rd.at) = LifeCycle(S) /\ (S = {} => LifeCycle(S) = "none")
    BY <2>1 DEF ReaderInv, Status, LifeCycle
  <2>4. Status(rd.at)' = Status(rd.at) /\ (Linked(rd.at)' <=> Linked(rd.at))
    BY <2>1, <2>2 DEF Status, Linked
  <2> HIDE DEF S
  <2>5. Rank(LifeCycle(S)) \in 0 .. 3
    BY <1>1, LifeCycleType
  <2> QED
    BY <2>1, <2>2, <2>3, <2>4, <2>5 DEF ReaderInv
<1>5. CASE ReadLink
  <2> DEFINE L == CrudLinks(meta, rd.at)
  <2>1. /\ rd' = IF Cardinality(L) > 1 THEN [rd EXCEPT !.pc = "panicked"]
                 ELSE [rd EXCEPT !.pc = "done", !.link = IF L = {} THEN None ELSE CHOOSE x \in L : TRUE]
        /\ content' = content /\ meta' = meta /\ actions' = actions /\ rd.pc = "link"
    BY <1>5 DEF ReadLink, store
  <2>2. L \subseteq Entry
    BY DEF LinksLeft, CrudLinks, Fetch, FetchLatest, EavCheck
  <2>3. L # {} => (CHOOSE x \in L : TRUE) # None
    BY <2>2, NoneIsNone
  <2>4. rd.linked => L # {}
    BY DEF LinksLeft, ReaderInv
  <2> HIDE DEF L
  <2>5. /\ rd'.at = rd.at /\ rd'.before = rd.before /\ rd'.linked = rd.linked /\ rd'.status = rd.status
        /\ rd'.pc \in {"done", "panicked"}
        /\ rd'.pc = "done" /\ L # {} => rd'.link # None
    BY <1>0, <2>1, <2>3 DEF TypeOK
  <2>6. Status(rd.at)' = Status(rd.at) /\ (Linked(rd.at)' <=> Linked(rd.at))
    BY <2>1, <2>5 DEF Status, Linked
  <2> QED
    BY <2>1, <2>4, <2>5, <2>6 DEF ReaderInv
<1>6. \/ rd' = rd \/ (\E e \in Entry : ReadEntry(e)) \/ ReadStatus \/ ReadLink
  BY DEF Next, vars, Reduce, WriteNext, WriteFails
<1> QED
  BY <1>2, <1>3, <1>4, <1>5, <1>6

(* get_entry_with_meta, which looks three times while the reducers write,  *)
(* never tells less than what was so when it began nor more than what is   *)
(* so when it is done, and finds the crud-link of an update or removal     *)
(* that was answered before.                                               *)
THEOREM ReadsNeverBack == Spec => []ReadsForward
<1> DEFINE I == IInv /\ LinksLeft /\ ReaderInv
<1>1. Init => I
  <2> SUFFICES ASSUME Init
               PROVE  LinksLeft /\ ReaderInv
    BY InitIInv
  <2>1. \A e : ~Linked(e)
    BY DEF Init, Linked
  <2> QED
    BY <2>1 DEF Init, LinksLeft, ReaderInv
<1>2. I /\ [Next]_vars => I'
  BY Inductive, LinksLeftStep, ReaderStep
<1>3. I => ReadsForward
  BY DEF ReaderInv, ReadsForward
<1> HIDE DEF I
<1> QED
  BY <1>1, <1>2, <1>3, PTL DEF Spec

=============================================================================
