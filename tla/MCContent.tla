----------------------------- MODULE MCContent ------------------------------
(***************************************************************************)
(* What is published and read.  A behaviour is one of DhtStore or of       *)
(* Authoring; unit says of which, and the variables of the other rest.     *)
(***************************************************************************)
EXTENDS DhtStore

CONSTANTS
    e1, e2, h1, l1,  \* of DhtStore
    a, b, App, Private, Unknown, Before, Rejected, LinkDef, Pair, Caller, MaxCalls, MaxFail  \* of Authoring

VARIABLES
    unit,  \* the component that the behaviour is of
    chain, status, crud, links, wire, calls, author_count, fails

authoringVars == <<chain, status, crud, links, wire, calls, author_count,
                   fails>>

Author == INSTANCE Authoring WITH
    count <- author_count

(* Two entries, a header, and a link from one of the entries. *)
TwoEntries == {e1, e2}
OneHeader == {h1}
OneLink == {l1}
MCLinkBase == [l \in Link |-> e1]

(* Two contents of a public type are on the chain, one of a private type   *)
(* and one of an unknown type are not; of three links one is not defined   *)
(* in the DNA and one is rejected by its validation callback.              *)
Committed == <<a, b>>
Defined == {<<a, b>>, <<b, a>>}
Pairs == {<<a, b>>, <<b, a>>, <<a, a>>}
Blank == INSTANCE Authoring WITH
    Before <- <<>>, Rejected <- {}, LinkDef <- {}, Pair <- {}, count <- author_count
Bad == {Blank!LinkAdd(<<b, a>>)}

-----------------------------------------------------------------------------
MCInit ==
    /\ unit \in {"dht", "authoring"}
    /\ Init
    /\ Author!Init

MCNext ==
    \/ unit = "dht" /\ Next /\ UNCHANGED <<unit, authoringVars>>
    \/ unit = "authoring" /\ Author!Next /\ UNCHANGED <<unit, vars>>

MCSpec ==
    /\ MCInit /\ [][MCNext]_<<unit, vars, authoringVars>>

-----------------------------------------------------------------------------
(* An updated entry is named by a crud-link once all messages are held.    *)
UpdatesShown == unit = "authoring" => Author!UpdatesShown

=============================================================================
