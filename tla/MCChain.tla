------------------------------ MODULE MCChain -------------------------------
(***************************************************************************)
(* The source chain, searched and written.  A behaviour is one of          *)
(* SourceChain or of ChainQuery; unit says of which, and the variables of  *)
(* the other rest.                                                         *)
(***************************************************************************)
EXTENDS SourceChain

CONSTANTS
    a1, a2, b1, A, B,                     \* of SourceChain
    Commits, Searches, Limits, MaxLength  \* of ChainQuery

VARIABLES
    unit,  \* the component that the behaviour is of
    chain, pager

queryVars == <<chain, pager>>

Query == INSTANCE ChainQuery WITH
    MaxHeaders <- MaxLength

(* Two entries of one type and one of another, so that chains mix types    *)
(* and repeat entries.                                                     *)
MCEntry == {a1, a2, b1}
MCEntryType == {A, B}
MCTypeOf == [e \in MCEntry |-> IF e = b1 THEN B ELSE A]

(* Three kinds of entries, one of them in a name space, searched for by    *)
(* shortcut, by globs and without a filter.                                *)
Small == INSTANCE ChainQuery WITH Commits <- {}, Searches <- {}, Limits <- {}, MaxHeaders <- 0
MCCommits == {Small!App(<<"post">>), Small!App(<<"ns", "/", "a">>), Small!Sys("link_add")}
MCSearches ==
    {<<>>, << <<>> >>, << <<Small!Everything>> >>,
     <<Small!Literal(<<"post">>)>>, <<Small!Literal(<<"%", "link_add">>)>>,
     << <<Small!Lit("ns"), Small!Suffix>> >>,
     << <<Small!Star>>, <<Small!Prefix, Small!Lit("a")>> >>,
     << <<Small!Prefix, Small!NotIn({"%"}), Small!Star>> >>, << <<Small!Unclosed>> >>}

-----------------------------------------------------------------------------
MCInit ==
    /\ unit \in {"chain", "query"}
    /\ Init
    /\ Query!Init

MCNext ==
    \/ unit = "chain" /\ Next /\ UNCHANGED <<unit, queryVars>>
    \/ unit = "query" /\ Query!Next /\ UNCHANGED <<unit, vars>>
    \/ unit # "chain" /\ UNCHANGED <<unit, vars, queryVars>>  \* the others may end

MCSpec ==
    /\ MCInit /\ [][MCNext]_<<unit, vars, queryVars>>

-----------------------------------------------------------------------------
(* A zome that pages through a query while others commit reads all that    *)
(* matched when it began (ChainQuery).                                     *)
NothingMissed == unit = "query" => Query!NothingMissed

=============================================================================
