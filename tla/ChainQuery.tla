----------------------------- MODULE ChainQuery -----------------------------
(***************************************************************************)
(* The query API: ChainStore::query over the iterators of the source chain *)
(* (core/src/agent/chain_store.rs), the API function that serves it to     *)
(* zomes (core/src/nucleus/ribosome/api/query.rs), its arguments           *)
(* (wasm_utils/src/api_serialization/query.rs) and a zome that reads the   *)
(* answer page by page through hdk::query, with commits of other calls in  *)
(* between.                                                                *)
(*                                                                         *)
(* The name of an entry type is a sequence of pieces: a piece is a run of  *)
(* characters no pattern cuts through, "/" and "%" are pieces of their     *)
(* own.  A pattern is a sequence of tokens, the parse of its text by the   *)
(* globset crate (external, modelled from the tests of chain_store.rs).    *)
(***************************************************************************)
EXTENDS Integers, Sequences, SequencesExt, FiniteSets

CONSTANTS
    Commits,     \* the entry types a zome commits entries of
    Searches,    \* the pattern lists the paging zome searches for
    Limits,      \* its page sizes
    MaxHeaders   \* bound on the length of the chain

VARIABLES
    chain,  \* the headers of the source chain, oldest first
    pager   \* the zome function that pages through a query's answer

vars == <<chain, pager>>

-----------------------------------------------------------------------------
(* Entry types.                                                             *)

SysNames == {<<"%", n>> : n \in {"agent_id", "deletion", "dna", "chain_header",
               "link_add", "link_remove", "link_list", "chain_migrate",
               "cap_token_claim", "cap_token_grant"}}

App(name) == [sys |-> FALSE, name |-> name]

Sys(name) == [sys |-> TRUE, name |-> <<"%", name>>]

(* EntryType::from_str: never fails. *)
from_str(name) == [sys |-> name \in SysNames, name |-> name]

to_string(type) == type.name

has_valid_app_name(name) == name # <<>> /\ Head(name) # "%"

-----------------------------------------------------------------------------
(* Patterns.                                                                *)

Lit(s) == [k |-> "literal", s |-> s, of |-> {}]
Single == [k |-> "any", s |-> "?", of |-> {}]
Star == [k |-> "star", s |-> "*", of |-> {}]
NotIn(S) == [k |-> "not_in", s |-> "[!]", of |-> S]
In(S) == [k |-> "in", s |-> "[]", of |-> S]
OneOf(S) == [k |-> "one_of", s |-> "{}", of |-> S]   \* S: alternative pieces
Everything == [k |-> "everything", s |-> "**", of |-> {}]
Prefix == [k |-> "prefix", s |-> "**/", of |-> {}]
Between == [k |-> "between", s |-> "/**/", of |-> {}]
Suffix == [k |-> "suffix", s |-> "/**", of |-> {}]
Unclosed == [k |-> "unclosed", s |-> "[", of |-> {}]

Literal(name) == [i \in DOMAIN name |-> Lit(name[i])]

(* is_glob: the characters "./*[]{}".  The wild card "?" is not among them. *)
is_glob(tok) ==
    \/ tok.k \notin {"literal", "any"}
    \/ tok.s \in {".", "/"}

is_glob_str(pat) == \E i \in DOMAIN pat : is_glob(pat[i])

(* GlobBuilder::build fails on a class that is not closed. *)
Builds(pat) == \A i \in DOMAIN pat : pat[i].k # "unclosed"

(* The pieces of the name a token may stand for; strict: literal_separator. *)
Stands(tok, ps, strict) ==
    LET slash == \E i \in DOMAIN ps : ps[i] = "/"
        lastSlash == ps # <<>> /\ Last(ps) = "/"
        firstSlash == ps # <<>> /\ Head(ps) = "/"
    IN  CASE tok.k = "literal" -> ps = <<tok.s>>
          [] tok.k = "any" -> Len(ps) = 1 /\ ~(strict /\ slash)
          [] tok.k = "star" -> ~(strict /\ slash)
          [] tok.k \in {"in", "one_of"} -> Len(ps) = 1 /\ ps[1] \in tok.of
          [] tok.k = "not_in" -> Len(ps) = 1 /\ ps[1] \notin tok.of
          [] tok.k = "everything" -> TRUE
          [] tok.k = "prefix" -> ps = <<>> \/ lastSlash
          [] tok.k = "between" -> firstSlash /\ lastSlash
          [] tok.k = "suffix" -> firstSlash
          [] OTHER -> FALSE

(* GlobMatcher::is_match: the tokens cut the name into consecutive parts. *)
IsMatch(pat, name, strict) ==
    LET ends(begins, tok) ==
            {e \in 0 .. Len(name) : \E b \in begins :
                b <= e /\ Stands(tok, SubSeq(name, b + 1, e), strict)}
    IN  Len(name) \in FoldLeft(ends, {0}, pat)

(* GlobSet::matches: the indices, from 0, of the patterns that match. *)
Matches(pats, name, strict) ==
    {i \in 0 .. Len(pats) - 1 : IsMatch(pats[i + 1], name, strict)}

-----------------------------------------------------------------------------
(* ChainStore.  hs: the stored headers; a header's address is its index, 0  *)
(* is None.                                                                 *)

Iter(hs, start) ==
    LET at[i \in 0 .. Len(hs)] ==
            IF i = 0 THEN <<>> ELSE <<i>> \o at[hs[i].link]
    IN  at[start]

IterSameType(hs, start) ==
    LET at[i \in 0 .. Len(hs)] ==
            IF i = 0 THEN <<>> ELSE <<i>> \o at[hs[i].same]
    IN  at[start]

FirstOfType(hs, start, type) ==
    LET found == SelectSeq(Iter(hs, start), LAMBDA i : hs[i].type = type)
    IN  IF found = <<>> THEN 0 ELSE Head(found)

IterType(hs, start, type) == IterSameType(hs, FirstOfType(hs, start, type))

(* Faulty: take counts from the beginning of the list, not from start. *)
PageFromTop(found, start, limit) ==
    LET last == IF limit = 0 THEN Len(found) ELSE limit
    IN  SubSeq(found, start + 1, IF last < Len(found) THEN last ELSE Len(found))

(* skip(start).take(limit); 0 takes all that remain. *)
Page(found, start, limit) ==
    LET last == IF limit = 0 THEN Len(found) ELSE start + limit
    IN  SubSeq(found, start + 1, IF last < Len(found) THEN last ELSE Len(found))

Failed == [ok |-> FALSE, headers |-> <<>>]

Found(is) == [ok |-> TRUE, headers |-> is]

(* Faulty: the first name of several decides alone. *)
FoundByFirst(hs, top, names) ==
    IF \A i \in DOMAIN names : Builds(names[i])
    THEN Found(SelectSeq(Iter(hs, top), LAMBDA i :
                 IsMatch(names[1], to_string(hs[i].type), TRUE)))
    ELSE Failed

(* One or more names, some with wild cards: scan with the set of globs. *)
FoundByGlobs(hs, top, names) ==
    IF \A i \in DOMAIN names : Builds(names[i])
    THEN Found(SelectSeq(Iter(hs, top), LAMBDA i :
                 Matches(names, to_string(hs[i].type), TRUE) # {}))
    ELSE Failed

(* ChainStore::query, the headers found from the top header on.             *)
Query(hs, top, names, start, limit) ==
    LET all == names \in {<<>>, << <<>> >>, << <<Everything>> >>}
        one == Len(names) = 1 /\ ~is_glob_str(names[1])
        vector == IF all THEN Found(Iter(hs, top))
                  ELSE IF one
                  THEN Found(IterType(hs, top, from_str([i \in DOMAIN names[1] |-> names[1][i].s])))
                  ELSE FoundByGlobs(hs, top, names)
    IN  [vector EXCEPT !.headers = Page(vector.headers, start, limit)]

-----------------------------------------------------------------------------
(* The API function.  Every header's entry is in the content storage, and   *)
(* an entry's address is that of its header here: each commit is of a new   *)
(* entry.                                                                   *)

QueryArgs(names, start, limit, headers, entries) ==
    [names |-> names, start |-> start, limit |-> limit,
     headers |-> headers, entries |-> entries]

(* get_entry_from_chain: the entry is stored, or the whole query fails.     *)
get_entry_from_chain(hs, i) == [address |-> i, type |-> hs[i].type]

(* invoke_query: the answer's variant depends on the two options.           *)
invoke_query(hs, args) ==
    LET found == Query(hs, Len(hs), args.names, args.start, args.limit)
        item(i) == [header |-> IF args.headers THEN {hs[i]} ELSE {},
                    address |-> i,
                    entry |-> IF args.entries THEN {get_entry_from_chain(hs, i)} ELSE {}]
    IN  [ok |-> found.ok,
         items |-> [k \in DOMAIN found.headers |-> item(found.headers[k])]]

(* hdk::query: the addresses, with neither headers nor entries.             *)
HdkQuery(hs, names, start, limit) ==
    LET answer == invoke_query(hs, QueryArgs(names, start, limit, FALSE, FALSE))
    IN  [ok |-> answer.ok,
         addresses |-> [k \in DOMAIN answer.items |-> answer.items[k].address]]

-----------------------------------------------------------------------------
(* Commits and the paging zome.                                             *)

(* create_new_chain_header.                                                 *)
NewHeader(hs, type) ==
    [type |-> type, link |-> Len(hs), same |-> FirstOfType(hs, Len(hs), type)]

Appended(hs, type) == Append(hs, NewHeader(hs, type))

Idle == [state |-> "idle", names |-> <<>>, limit |-> 0, start |-> 0,
         began |-> 0, wanted |-> {}, read |-> <<>>]

(* A started instance's chain holds the DNA and the agent.                  *)
Init ==
    /\ chain = Appended(Appended(<<>>, Sys("dna")), Sys("agent_id"))
    /\ pager = Idle

Commit(type) ==
    /\ Len(chain) < MaxHeaders
    /\ chain' = Appended(chain, type)
    /\ UNCHANGED pager

(* The zome function begins; wanted: what matches at that moment.           *)
Begin(names, limit) ==
    /\ pager.state = "idle"
    /\ pager' = [state |-> "paging", names |-> names, limit |-> limit, start |-> 0,
                 began |-> Len(chain), wanted |-> ToSet(HdkQuery(chain, names, 0, 0).addresses),
                 read |-> <<>>]
    /\ UNCHANGED chain

(* hdk::query for the next page: the last one is the first that is not full. *)
NextPage ==
    /\ pager.state = "paging"
    /\ LET page == HdkQuery(chain, pager.names, pager.start, pager.limit)
       IN  pager' = [pager EXCEPT
             !.state = IF ~page.ok \/ Len(page.addresses) < pager.limit THEN "done" ELSE @,
             !.start = @ + pager.limit,
             !.read = @ \o page.addresses]
    /\ UNCHANGED chain

Next ==
    \/ \E type \in Commits : Commit(type)
    \/ \E names \in Searches, limit \in Limits : Begin(names, limit)
    \/ NextPage

Spec == Init /\ [][Next]_vars

-----------------------------------------------------------------------------
(* The chain is searched newest first and a page's start counts from the    *)
(* newest header, so commits between two pages shift what was not read yet  *)
(* away from the pages already read: a zome that pages to the end has read  *)
(* all that matched when it began.                                          *)
NothingMissed ==
    pager.state = "done" => pager.wanted \subseteq ToSet(pager.read)

(* What a page repeats of an earlier one was shifted into it by a commit:   *)
(* the zome reads no entry more often than commits made meanwhile explain.  *)
RepeatsExplained ==
    Len(pager.read) - Cardinality(ToSet(pager.read)) <= Len(chain) - pager.began

(* A single plain name takes the shortcut along link_same_type; given twice *)
(* it is scanned for with globs: both find the same headers in the same     *)
(* order, whatever was committed before.                                    *)
ShortcutAgrees ==
    \A type \in Commits :
       LET name == Literal(to_string(type))
       IN  ~is_glob_str(name) =>
             Query(chain, Len(chain), <<name>>, 0, 0)
                 = Query(chain, Len(chain), <<name, name>>, 0, 0)

=============================================================================
