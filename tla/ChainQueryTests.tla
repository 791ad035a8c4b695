-------------------------- MODULE ChainQueryTests --------------------------
(***************************************************************************)
(* The tests of chain_store.rs and entry_type.rs: each stores the headers  *)
(* of its chain one by one and asks its questions as soon as the header    *)
(* they start from is stored.                                              *)
(***************************************************************************)
EXTENDS ChainQuery

VARIABLE test   \* the name of the running test

testVars == <<chain, pager, test>>

TestEntryType == App(<<"t", "estEntryTyp", "e">>)
TestEntryTypeB == App(<<"t", "estEntryTyp", "e", "B">>)

(* chain_store.query(start header, names, default options) *)
Asked(hs, top, names) == Query(hs, top, names, 0, 0).headers

-----------------------------------------------------------------------------
iterator_test_chain == <<TestEntryType, TestEntryTypeB>>

iterator_test(hs) ==
    IF Len(hs) = 2
    THEN {Iter(hs, 2) = <<2, 1>>, Iter(hs, 1) = <<1>>}
    ELSE {}

type_iterator_test_chain == <<TestEntryType, TestEntryTypeB, TestEntryType>>

type_iterator_test(hs) ==
    IF Len(hs) = 3
    THEN {IterType(hs, 3, TestEntryType) = <<3, 1>>,
          IterType(hs, 2, TestEntryType) = <<1>>,
          IterType(hs, 3, TestEntryTypeB) = <<2>>,
          IterType(hs, 2, TestEntryTypeB) = <<2>>}
    ELSE {}

-----------------------------------------------------------------------------
(* query_test: the headers a to e, f to h, and i. *)
query_test_chain ==
    <<TestEntryType, TestEntryTypeB, TestEntryTypeB,
      App(<<"another", "/", "something">>), App(<<"another", "/", "different">>)>>

query_test_spaced ==
    <<App(<<"ns", "/", "on", "e">>), App(<<"ns", "/", "sub", "/", "t", "wo">>),
      App(<<"ns", "/", "sub", "/", "t", "hre", "e">>)>>

query_test_system == <<App(<<"%", "system_entry_typ", "e">>)>>

AnotherAll == <<Lit("another"), Lit("/"), Star>>

(* a to e: one name, one name and a limit, no name. *)
query_test_names(hs) ==
    LET TypeB == Literal(to_string(TestEntryTypeB))
    IN  IF Len(hs) = 5
        THEN {Asked(hs, 5, <<TypeB>>) = <<3, 2>>,
              Query(hs, 5, <<TypeB>>, 0, 1).headers = <<3>>,
              Asked(hs, 5, <<>>) = <<5, 4, 3, 2, 1>>}
        ELSE {}

(* a to e: wild cards. *)
query_test_globs(hs) ==
    LET TestTypes == <<Lit("t"), Lit("estEntryTyp"), Lit("e"), Star>>
    IN  IF Len(hs) = 5
        THEN {Asked(hs, 5, << <<Everything>> >>) = <<5, 4, 3, 2, 1>>,
              Asked(hs, 5, <<AnotherAll, TestTypes>>) = <<5, 4, 3, 2, 1>>,
              Asked(hs, 5, <<AnotherAll>>) = <<5, 4>>}
        ELSE {}

(* a to h: name spaces. *)
query_test_spaces(hs) ==
    IF Len(hs) = 8
    THEN {Asked(hs, 8, <<AnotherAll, <<Lit("ns"), Between, Lit("t"), Star>> >>) = <<8, 7, 5, 4>>,
          Asked(hs, 8, << <<Prefix, Star, OneOf({"e", "B"})>> >>) = <<8, 6, 3, 2, 1>>}
    ELSE {}

(* a to i: system types or not, ending in "e"; addresses and headers. *)
query_test_systems(hs) ==
    LET NotSystem == <<NotIn({"%"}), Star, Lit("e")>>
        Spaced == <<Prefix>> \o NotSystem
        answer == invoke_query(hs, QueryArgs(<<Spaced>>, 0, 0, TRUE, FALSE))
    IN  IF Len(hs) = 9
        THEN {Asked(hs, 9, <<NotSystem>>) = <<1>>,
              Asked(hs, 9, << <<Lit("%"), Star, Lit("e")>> >>) = <<9>>,
              Asked(hs, 9, <<Spaced>>) = <<8, 6, 1>>,
              [k \in DOMAIN answer.items |-> answer.items[k].header]
                = <<{hs[8]}, {hs[6]}, {hs[1]}>>}
        ELSE {}

-----------------------------------------------------------------------------
(* glob_query_test: separators are plain characters, or special. *)
glob_query_test(hs) ==
    LET StarRs == <<Star, Lit(".rs")>>
        LibRs == Literal(<<"src", "/", "lib", ".rs">>)
        SrcFoo == <<Lit("src"), Between, Lit("foo"), Lit(".rs")>>
        AllFoo == <<Prefix, Lit("foo"), Lit(".rs")>>
        foo == <<"foo", ".rs">>
        deep == <<"src", "/", "bar", "/", "baz", "/", "foo", ".rs">>
        bar == <<"foo", "/", "bar", ".rs">>
        toml == <<"Cargo", ".toml">>
    IN  {IsMatch(StarRs, foo, FALSE), IsMatch(StarRs, bar, FALSE), ~IsMatch(StarRs, toml, FALSE),
         IsMatch(StarRs, foo, TRUE), ~IsMatch(StarRs, bar, TRUE), ~IsMatch(StarRs, toml, TRUE),
         Matches(<<StarRs, LibRs, SrcFoo>>, deep, FALSE) = {0, 2},
         Matches(<<StarRs, LibRs, SrcFoo, AllFoo>>, deep, TRUE) = {2, 3},
         Matches(<<StarRs, LibRs, SrcFoo, AllFoo>>, foo, TRUE) = {0, 3}}

-----------------------------------------------------------------------------
(* entry_type.rs: names accepted for an app's types, and the names of the   *)
(* system's types, both ways.                                               *)
entry_type_valid_app_name(hs) ==
    {has_valid_app_name(<<"agent_id">>), ~has_valid_app_name(<<"%", "agent_id">>),
     ~has_valid_app_name(to_string(Sys("agent_id"))), ~has_valid_app_name(<<>>),
     has_valid_app_name(<<"toto">>), ~has_valid_app_name(<<"%", "%">>)}

entry_type_as_str_test(hs) ==
    {from_str(to_string(Sys(n[2]))) = Sys(n[2]) : n \in SysNames}

-----------------------------------------------------------------------------
query_test_types == query_test_chain \o query_test_spaced \o query_test_system

(* The chains of the tests and what they assert. *)
Types ==
    [iterator |-> iterator_test_chain, type_iterator |-> type_iterator_test_chain,
     query |-> query_test_types, glob |-> <<>>, names |-> <<>>]

Asserts(t, hs) ==
    CASE t = "iterator" -> iterator_test(hs)
      [] t = "type_iterator" -> type_iterator_test(hs)
      [] t = "query" -> query_test_names(hs) \cup query_test_globs(hs)
                          \cup query_test_spaces(hs) \cup query_test_systems(hs)
      [] t = "glob" -> glob_query_test(hs)
      [] t = "names" -> entry_type_valid_app_name(hs) \cup entry_type_as_str_test(hs)

TestInit == chain = <<>> /\ pager = Idle /\ test \in DOMAIN Types

TestStep ==
    /\ Len(chain) < Len(Types[test])
    /\ chain' = Appended(chain, Types[test][Len(chain) + 1])
    /\ UNCHANGED <<pager, test>>

TestSpec == TestInit /\ [][TestStep]_testVars

(* Every assertion of the tests of the iterators, of query(), of its        *)
(* globbing and of the entry types' names holds of the definitions the      *)
(* properties above are checked with.                                       *)
QueryTestsPass == Asserts(test, chain) \subseteq {TRUE}

=============================================================================
