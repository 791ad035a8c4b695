------------------------------ MODULE EavTests ------------------------------
(***************************************************************************)
(* The test suite that every EAVI storage has to pass                      *)
(* (core_types/src/cas/storage.rs, EavTestSuite), run on the example and   *)
(* memory storages, the pickle storage and the file storage with a clock   *)
(* that may stand still between two additions, and the texts of the        *)
(* attributes (core_types/src/eav/eavi.rs), which are the names of the     *)
(* file storage's directories.                                             *)
(*                                                                         *)
(* A text is a sequence of pieces; "_" is a piece of its own.              *)
(***************************************************************************)
EXTENDS EavQuery, SequencesExt

CONSTANTS
    Pieces,   \* the pieces the texts of link types and tags are made of
    MaxText   \* bound on their length

VARIABLES
    suite,  \* the running test of the suite
    kind,   \* the storage it runs on
    store,  \* the EAVIs stored
    added,  \* the EAVIs that add_eavi returned, in order
    now,    \* the clock
    attr    \* an attribute, for the questions about texts

vars == <<suite, kind, store, added, now, attr>>

-----------------------------------------------------------------------------
(* Attributes.                                                              *)

Texts == UNION {[1 .. n -> Pieces] : n \in 0 .. MaxText}

LinkTag(type, tag) == [k |-> "link_tag", type |-> type, tag |-> tag]

RemovedLink(type, tag) == [k |-> "removed_link", type |-> type, tag |-> tag]

Plain(k) == [k |-> k, type |-> <<>>, tag |-> <<>>]

PlainKinds == {"crud-status", "crud-link", "entry-header", "link", "link_remove", "pending-entry"}

Unrecognized == Plain("unrecognized")

Sep == <<"_", "_">>

(* Display for Attribute *)
Display(a) ==
    CASE a.k = "link_tag" -> <<"link">> \o Sep \o a.type \o Sep \o a.tag
      [] a.k = "removed_link" -> <<"removed_link">> \o Sep \o a.type \o Sep \o a.tag
      [] OTHER -> <<a.k>>

(* Where "__" is found in s after the prefix of three pieces. *)
Seps(s) == {p \in 4 .. Len(s) - 1 : s[p] = "_" /\ s[p + 1] = "_"}

Begins(s, word) == Len(s) >= 3 /\ s[1] = word /\ s[2] = "_" /\ s[3] = "_"

(* LINK_REGEX.captures: the first group takes all it can.                   *)
Captures(s) ==
    LET p == CHOOSE p \in Seps(s) : \A q \in Seps(s) : q <= p
    IN  <<SubSeq(s, 4, p - 1), SubSeq(s, p + 2, Len(s))>>

(* LINK_REGEX.is_match: a "." matches no line break. *)
IsLinkText(s, word) ==
    Begins(s, word) /\ Seps(s) # {} /\ \A i \in DOMAIN s : s[i] # "\n"

(* Attribute::try_from *)
TryFrom(s) ==
    IF IsLinkText(s, "link") THEN LinkTag(Captures(s)[1], Captures(s)[2])
    ELSE IF IsLinkText(s, "removed_link")
    THEN RemovedLink(Captures(s)[1], Captures(s)[2])
    ELSE IF Len(s) = 1 /\ s[1] \in PlainKinds THEN Plain(s[1])
    ELSE Unrecognized

Forbidden == {"/", ":", "*", "?", "<", ">", "\"", "'", "\\", "|", "+"}

validate_attribute(a) ==
    a.k \in {"link_tag", "removed_link"} => \A i \in DOMAIN a.type : a.type[i] \notin Forbidden

-----------------------------------------------------------------------------
(* The storages.  A filter of a query is the set of what it accepts.        *)

(* EaviQuery::run with IndexFilter::Range *)
FetchRange(S, E, A, V, lo, hi) ==
    {x \in S : EavCheck(x, E, A, V) /\ lo <= x.index /\ x.index <= hi}

(* EavFileStorage::fetch_eavi: by the names of the directories, and the     *)
(* index filter runs on what they hold in common.                           *)
ByDirectory(S, E, A, V) ==
    CollectByIndex({x \in S : x.entity \in E /\ x.value \in V
                                /\ TryFrom(Display(x.attribute)) \in A})

Entities(S) == {x.entity : x \in S}
Attributes(S) == {x.attribute : x \in S}
Values(S) == {x.value : x \in S}

Latest(S, E, A, V) ==
    IF kind = "file"
    THEN LET B == ByDirectory(S, E, A, V)
         IN  FetchLatest(B, Entities(B), Attributes(B), Values(B))
    ELSE FetchLatest(S, E, A, V)

InRange(S, E, A, V, lo, hi) ==
    IF kind = "file"
    THEN LET B == ByDirectory(S, E, A, V)
         IN  FetchRange(B, Entities(B), Attributes(B), Values(B), lo, hi)
    ELSE FetchRange(S, E, A, V, lo, hi)

(* The EAVI add_eavi stores and returns: the index is raised until it is    *)
(* free (example, memory), read from the clock again until it is free       *)
(* (pickle), or kept (file).                                                *)
Returned(S, x) ==
    IF kind = "file" THEN x ELSE [x EXCEPT !.index = FirstFreeIndex(S, @)]

-----------------------------------------------------------------------------
(* The suite: what each test adds and what it asserts.                      *)

Adds(e, a, v) == [entity |-> e, attribute |-> a, value |-> v]

Words(p) == p \o <<"one", "_", "to", "_", "many">>

OneToMany == LinkTag(Words(<<>>), <<>>)

FavouriteColor == LinkTag(<<"favourite-color">>, <<>>)

Prefixed == <<LinkTag(Words(<<"a", "_">>), <<>>), LinkTag(Words(<<"b", "_">>), <<>>),
              LinkTag(Words(<<"c", "_">>), <<>>), LinkTag(Words(<<"d", "_">>), <<>>)>>

Contents == {"foo", "bar", "baz", "blue"}

AllAttributes == {OneToMany, FavouriteColor} \cup ToSet(Prefixed)

test_round_trip_adds == <<Adds("foo", FavouriteColor, "blue")>>

test_round_trip ==
    LET A == {FavouriteColor}
    IN  IF added = <<>>
        THEN {Latest(store, {"foo"}, A, {"blue"}) = {}}
        ELSE {Latest(store, q[1], q[2], q[3]) = {added[1]} : q \in
                 { <<{"foo"}, A, {"blue"}>>, <<Contents, A, {"blue"}>>,
                   <<{"foo"}, AllAttributes, {"blue"}>>, <<{"foo"}, A, Contents>>,
                   <<Contents, AllAttributes, Contents>> }}

test_one_to_many_adds ==
    LET once == <<Adds("foo", OneToMany, "foo"), Adds("foo", OneToMany, "bar"),
                  Adds("foo", OneToMany, "baz")>>
    IN  once \o once

test_one_to_many ==
    IF Len(added) < 6 THEN {}
    ELSE {Latest(store, {"foo"}, {OneToMany}, Contents) = {added[4], added[5], added[6]}}
           \cup {{<<x.entity, x.attribute>> : x \in Latest(store, Contents, {OneToMany}, {many})}
                   = {<<"foo", OneToMany>>}
                   /\ Cardinality(Latest(store, Contents, {OneToMany}, {many})) = 1
                 : many \in {"foo", "bar", "baz"}}

test_many_to_one_adds ==
    LET once == <<Adds("foo", OneToMany, "foo"), Adds("bar", OneToMany, "foo"),
                  Adds("baz", OneToMany, "foo")>>
    IN  once \o once

test_many_to_one ==
    IF Len(added) < 6 THEN {}
    ELSE {Latest(store, Contents, {OneToMany}, {"foo"}) = {added[4], added[5], added[6]}}
           \cup {{<<x.entity, x.attribute>> : x \in Latest(store, {many}, {OneToMany}, Contents)}
                   = {<<many, OneToMany>>}
                   /\ Cardinality(Latest(store, {many}, {OneToMany}, Contents)) = 1
                 : many \in {"foo", "bar", "baz"}}

test_range_adds ==
    [s \in 1 .. 5 |-> Adds(IF s % 2 = 1 THEN "foo" ELSE "bar", OneToMany, "foo")]

test_range ==
    LET ones == {added[1], added[3], added[5]}
        twos == {added[2], added[4]}
        Between(e, i, j) == InRange(store, e, {OneToMany}, {"foo"}, added[i].index, added[j].index)
    IN  IF Len(added) < 5 THEN {}
        ELSE {Between({"foo"}, 1, 5) = ones, Between({"bar"}, 2, 4) = twos,
              Between(Contents, 3, 5) = {added[3], added[4], added[5]}}

test_multiple_attributes_adds ==
    [i \in 1 .. 5 |-> Adds("foo", Prefixed[IF i = 5 THEN 1 ELSE i], "foo")]

test_multiple_attributes ==
    IF Len(added) < 4 THEN {}
    ELSE {Latest(store, {"foo"}, ToSet(Prefixed), Contents) = {Last(added)}}

(* eavi.rs: attribute_try_from_string, validate_attribute_paths *)
attribute_try_from_string ==
    {TryFrom(<<"crud-status">>) = Plain("crud-status"),
     TryFrom(<<"link", "_", "_", "sometype", "_", "_", "tagalog">>)
        = LinkTag(<<"sometype">>, <<"tagalog">>),
     TryFrom(<<"unknown ", "\\", "and", "/", "/", " invalid ", "/", " attribute">>)
        = Unrecognized}

validate_attribute_paths ==
    {validate_attribute(LinkTag(<<n>>, <<>>)) : n \in {"abc", "abc123", "123"}}
      \cup {~validate_attribute(LinkTag(<<"link", "_", c>>, <<>>)) :
              c \in {":", "\"", "/", "\\", "?"}}

-----------------------------------------------------------------------------
SuiteAdds ==
    [round_trip |-> test_round_trip_adds, one_to_many |-> test_one_to_many_adds,
     many_to_one |-> test_many_to_one_adds, range |-> test_range_adds,
     multiple_attributes |-> test_multiple_attributes_adds, texts |-> <<>>]

SuiteAsserts ==
    CASE suite = "round_trip" -> test_round_trip
      [] suite = "one_to_many" -> test_one_to_many
      [] suite = "many_to_one" -> test_many_to_one
      [] suite = "range" -> test_range
      [] suite = "multiple_attributes" -> test_multiple_attributes
      [] suite = "texts" -> attribute_try_from_string \cup validate_attribute_paths

Init ==
    /\ suite \in DOMAIN SuiteAdds
    /\ kind \in {"memory", "pickle", "file"}
    /\ store = {}
    /\ added = <<>>
    /\ now = 1
    /\ attr \in IF suite = "texts"
                THEN {Plain(k) : k \in PlainKinds}
                       \cup {LinkTag(t, g) : t \in Texts, g \in Texts}
                       \cup {RemovedLink(t, g) : t \in Texts, g \in Texts}
                ELSE {Unrecognized}

(* The next EAVI of the test is made, stamped and added.  The clock need    *)
(* not have moved since the one before; the file storage relies on it.      *)
Add ==
    /\ Len(added) < Len(SuiteAdds[suite])
    /\ \E stamp \in IF kind = "file" THEN {now + 1} ELSE {now, now + 1} :
         LET next == SuiteAdds[suite][Len(added) + 1]
             y == Returned(store, [entity |-> next.entity, attribute |-> next.attribute,
                                   value |-> next.value, index |-> stamp])
         IN  /\ store' = InsertByIndex(store, y)
             /\ added' = Append(added, y)
             /\ now' = IF kind = "pickle" THEN y.index ELSE stamp
    /\ UNCHANGED <<suite, kind, attr>>

Spec == Init /\ [][Add]_vars

-----------------------------------------------------------------------------
(* Whatever the clock does between two additions, the memory and pickle     *)
(* storages pass the suite, and so does the file storage when no two EAVIs  *)
(* of a test have the same stamp.                                           *)
EavSuitePasses == SuiteAsserts \subseteq {TRUE}

(* The file storage reads an attribute back from the name of its directory: *)
(* that is the attribute it wrote when the tag has no line break, does not  *)
(* begin with "_" and has no "__" in it, whatever the link type is.         *)
TextsReadBack ==
    LET tag == <<"_">> \o attr.tag
        plainTag == \A i \in 1 .. Len(tag) - 1 : ~(tag[i] = "_" /\ tag[i + 1] = "_")
        oneLine == "\n" \notin (ToSet(attr.tag) \cup ToSet(attr.type))
    IN  (attr # Unrecognized /\ plainTag /\ oneLine) => TryFrom(Display(attr)) = attr

(* An attribute that EntityAttributeValueIndex::new accepts is found again  *)
(* in the file storage under its own name.                                  *)
AcceptedReadBack ==
    (attr # Unrecognized /\ validate_attribute(attr)) => TryFrom(Display(attr)) = attr

=============================================================================
