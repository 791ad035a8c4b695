---------------------------- MODULE SourceChain ----------------------------
(***************************************************************************)
(* The source chain of one agent: the agent slice of an instance's state   *)
(* (core/src/agent/state.rs), the iterators over the chain                 *)
(* (core/src/agent/chain_store.rs), the part of the action loop that turns *)
(* a Commit action into a new visible state and saves it                   *)
(* (core/src/instance.rs process_action, core/src/persister.rs) and the    *)
(* restart of an instance from its snapshots                               *)
(* (conductor_api/src/holochain.rs, conductor/base.rs).                    *)
(*                                                                         *)
(* Content addressing: an entry is its own address; a header's address is  *)
(* the position at which the content storage (CAS) first stored a header   *)
(* with that content.  Adding equal content again yields the same address. *)
(***************************************************************************)
EXTENDS Naturals, Sequences

CONSTANTS
    Entry,       \* the entries that can be committed
    EntryType,   \* their types
    TypeOf,      \* Entry::entry_type
    NoEntry,     \* placeholder while no header is under construction
    Second,      \* values of the clock, in seconds, that headers are stamped with
    MaxHeaders   \* bound on the headers the CAS ever holds

ASSUME TypeOfAssumption == TypeOf \in [Entry -> EntryType]
ASSUME NoEntryAssumption == NoEntry \notin Entry
ASSUME MaxHeadersAssumption == MaxHeaders \in Nat

VARIABLES
    headers,  \* chain headers in the CAS, by address
    entries,  \* entries in the CAS
    top,      \* AgentState::top_chain_header of the visible state (0: None)
    newTop,   \* the same field of the state the reducer is computing
    cur,      \* the header create_new_chain_header returned
    ok,       \* does the Commit under reduction answer Ok?
    actions,  \* headers of the commits answered Ok: AgentState::actions
    saved,    \* the two snapshots in the CAS: agent (top header), nucleus;
              \* failed: did a save fail since?
    pc        \* where the thread of the action loop is

vars == <<headers, entries, top, newTop, cur, ok, actions, saved, pc>>

(* link, same: previous header, previous header of the same type (0: None) *)
Header == [entry : Entry, link : Nat, same : Nat, stamp : Second]

NoHeader == [entry |-> NoEntry, link |-> 0, same |-> 0, stamp |-> 0]

HeaderType(hs, i) == TypeOf[hs[i].entry]

-----------------------------------------------------------------------------
(* Walking the chain stored in hs.                                          *)

(* ChainStoreIterator: the headers met by following link from header i, the *)
(* smallest set with i that link does not leave.                            *)
LinkClosed(hs, S) == \A j \in S : hs[j].link # 0 => hs[j].link \in S

ChainFrom(hs, i) ==
    IF i = 0 THEN {}
    ELSE {j \in DOMAIN hs :
            \A S \in SUBSET DOMAIN hs : i \in S /\ LinkClosed(hs, S) => j \in S}

Chain(i) == ChainFrom(headers, i)

(* iter_type(i, t).nth(0) is f: the first header of type t met from i.  A   *)
(* link always leads to a header stored earlier, so the walk meets the      *)
(* chain's headers in decreasing order of address.                          *)
IsFirstOfType(hs, f, i, t) ==
    LET OfType == {j \in ChainFrom(hs, i) : HeaderType(hs, j) = t}
    IN  IF OfType = {} THEN f = 0
        ELSE f \in OfType /\ \A j \in OfType : j <= f

(* ChainStoreTypeIterator: the headers met by following link_same_type. *)
SameClosed(S) == \A j \in S : headers[j].same # 0 => headers[j].same \in S

TypeWalk(i) ==
    IF i = 0 THEN {}
    ELSE {j \in DOMAIN headers :
            \A S \in SUBSET DOMAIN headers : i \in S /\ SameClosed(S) => j \in S}

(* agent::find_chain_header: the first header for entry e along link. *)
FindChainHeader(e) == {j \in Chain(top) : headers[j].entry = e
                         /\ \A k \in Chain(top) : headers[k].entry = e => k <= j}

(* AgentState::get_most_recent_header_for_entry: along link_same_type. *)
MostRecentHeaderForEntry(e) ==
    UNION {LET W == TypeWalk(f)
           IN  {j \in W : headers[j].entry = e /\ \A k \in W : headers[k].entry = e => k <= j}
             : f \in {g \in DOMAIN headers : IsFirstOfType(headers, g, top, TypeOf[e])}}

-----------------------------------------------------------------------------
Init ==
    /\ headers = <<>>
    /\ entries = {}
    /\ top = 0
    /\ newTop = 0
    /\ cur = NoHeader
    /\ ok = FALSE
    /\ actions = {}
    /\ saved = [agent |-> 0, hasAgent |-> FALSE, hasNucleus |-> FALSE,
                failed |-> FALSE]
    /\ pc = "idle"

(* Faulty: link_same_type is a copy of link. *)
NewHeaderSameIsLink(e, f, s) == [entry |-> e, link |-> top, same |-> top, stamp |-> s]

(* ChainHeader::new, with the first header of the entry's type as argument. *)
NewHeader(e, f, s) == [entry |-> e, link |-> top, same |-> f, stamp |-> s]

(* The reducer takes a Commit of e: create_new_chain_header succeeds ... *)
CreateNewChainHeader(e) ==
    /\ pc = "idle"
    /\ Len(headers) < MaxHeaders
    /\ \E s \in Second, f \in 0 .. Len(headers) :
          /\ IsFirstOfType(headers, f, top, TypeOf[e])
          /\ cur' = NewHeader(e, f, s)
    /\ newTop' = top
    /\ ok' = FALSE
    /\ pc' = "header_created"
    /\ UNCHANGED <<headers, entries, top, actions, saved>>

(* ... or the conductor's sign call fails and so does the commit. *)
SignFails ==
    /\ pc = "idle"
    /\ newTop' = top
    /\ ok' = FALSE
    /\ pc' = "reduced"
    /\ UNCHANGED <<headers, entries, top, cur, actions, saved>>

(* Faulty: the result of storage.add(entry) is ignored and it failed. *)
AddEntryUnwritten ==
    /\ pc = "header_created"
    /\ pc' = "entry_added"
    /\ UNCHANGED <<headers, entries, top, newTop, cur, ok, actions, saved>>

(* storage.add(entry)? *)
AddEntry ==
    /\ pc = "header_created"
    /\ entries' = entries \cup {cur.entry}
    /\ pc' = "entry_added"
    /\ UNCHANGED <<headers, top, newTop, cur, ok, actions, saved>>

(* storage.add(&chain_header)?, and the new state's top_chain_header. *)
AddHeader ==
    /\ pc = "entry_added"
    /\ \/ \E i \in DOMAIN headers : headers[i] = cur /\ newTop' = i /\ headers' = headers
       \/ /\ \A i \in DOMAIN headers : headers[i] # cur
          /\ headers' = Append(headers, cur)
          /\ newTop' = Len(headers) + 1
    /\ ok' = TRUE
    /\ pc' = "reduced"
    /\ UNCHANGED <<entries, top, cur, actions, saved>>

(* Either add fails: the commit answers Err. *)
AddFails ==
    /\ pc \in {"header_created", "entry_added"}
    /\ pc' = "reduced"
    /\ UNCHANGED <<headers, entries, top, newTop, cur, ok, actions, saved>>

(* process_action takes the write lock and publishes the new state. *)
PublishState ==
    /\ pc = "reduced"
    /\ top' = newTop
    /\ actions' = IF ok THEN actions \cup {newTop} ELSE actions
    /\ pc' = "visible"
    /\ UNCHANGED <<headers, entries, newTop, cur, ok, saved>>

(* Faulty: the snapshot is only written when there is none, as the CAS does *)
(* for content whose address is a hash.                                     *)
SaveAgentOnce ==
    /\ pc = "visible"
    /\ saved' = IF saved.hasAgent THEN saved
                ELSE [saved EXCEPT !.agent = top, !.hasAgent = TRUE]
    /\ pc' = "agent_saved"
    /\ UNCHANGED <<headers, entries, top, newTop, cur, ok, actions>>

(* SimplePersister::save: the agent snapshot, then the nucleus snapshot. *)
SaveAgent ==
    /\ pc = "visible"
    /\ saved' = [saved EXCEPT !.agent = top, !.hasAgent = TRUE]
    /\ pc' = "agent_saved"
    /\ UNCHANGED <<headers, entries, top, newTop, cur, ok, actions>>

SaveNucleus ==
    /\ pc = "agent_saved"
    /\ saved' = [saved EXCEPT !.hasNucleus = TRUE, !.failed = FALSE]
    /\ pc' = "idle"
    /\ UNCHANGED <<headers, entries, top, newTop, cur, ok, actions>>

(* process_action only logs a failed save. *)
SaveFails ==
    /\ pc \in {"visible", "agent_saved"}
    /\ pc' = "idle"
    /\ saved' = [saved EXCEPT !.failed = TRUE]
    /\ UNCHANGED <<headers, entries, top, newTop, cur, ok, actions>>

(* The process dies: the CAS survives, the state does not. *)
Crash ==
    /\ pc # "down"
    /\ pc' = "down"
    /\ UNCHANGED <<headers, entries, top, newTop, cur, ok, actions, saved>>

(* Faulty: the history of actions survives the restart, the chain does not. *)
RestartKeepsActions ==
    /\ pc = "down"
    /\ top' = IF saved.hasAgent /\ saved.hasNucleus THEN saved.agent ELSE 0
    /\ newTop' = top'
    /\ cur' = NoHeader
    /\ ok' = FALSE
    /\ pc' = "idle"
    /\ UNCHANGED <<headers, entries, actions, saved>>

(* Holochain::load, or Holochain::new when a snapshot is missing. *)
Restart ==
    /\ pc = "down"
    /\ top' = IF saved.hasAgent /\ saved.hasNucleus THEN saved.agent ELSE 0
    /\ newTop' = top'
    /\ cur' = NoHeader
    /\ ok' = FALSE
    /\ actions' = {}
    /\ pc' = "idle"
    /\ UNCHANGED <<headers, entries, saved>>

Next ==
    \/ \E e \in Entry : CreateNewChainHeader(e)
    \/ SignFails
    \/ AddEntry
    \/ AddHeader
    \/ AddFails
    \/ PublishState
    \/ SaveAgent
    \/ SaveNucleus
    \/ SaveFails
    \/ Crash
    \/ Restart

Spec == Init /\ [][Next]_vars

-----------------------------------------------------------------------------
(* Properties.                                                              *)

(* Every variable holds a value of its declared kind. *)
TypeOK ==
    /\ headers \in Seq(Header) /\ Len(headers) <= MaxHeaders
    /\ entries \subseteq Entry
    /\ top \in 0 .. Len(headers)
    /\ newTop \in 0 .. Len(headers)
    /\ cur \in Header \cup {NoHeader}
    /\ ok \in BOOLEAN
    /\ actions \subseteq 1 .. Len(headers)
    /\ saved \in [agent : 0 .. Len(headers), hasAgent : BOOLEAN, hasNucleus : BOOLEAN,
                failed : BOOLEAN]
    /\ pc \in {"idle", "header_created", "entry_added", "reduced", "visible",
               "agent_saved", "down"}

(* The chain behind every stored header, hence behind the top header and    *)
(* behind the saved one, is complete: links lead to headers stored earlier  *)
(* and each header's entry is in the CAS, whatever writes failed and        *)
(* whenever the process died (reduce_commit_entry adds the entry first).    *)
ChainComplete ==
    \A i \in DOMAIN headers :
        /\ headers[i].link < i
        /\ headers[i].entry \in entries

(* link_same_type of every header is the nearest earlier header of its own  *)
(* chain with its type, also after a restart from an older top header.      *)
SameTypeLinks ==
    \A i \in DOMAIN headers : 
        IsFirstOfType(headers, headers[i].same, headers[i].link, HeaderType(headers, i))

(* A commit that was answered Ok in this run of the process is on the       *)
(* chain: what CommitFuture returned can be found from the top header.      *)
AnsweredOnChain == pc # "down" => actions \subseteq Chain(top)

(* iter_type visits exactly the chain's headers of a type: following        *)
(* link_same_type misses none and never leaves the chain.                   *)
TypeIteratorComplete ==
    \A t \in EntryType, f \in 0 .. Len(headers) :
        IsFirstOfType(headers, f, top, t) => TypeWalk(f) = {j \in Chain(top) : HeaderType(headers, j) = t}

(* The two look-ups of an entry's header, find_chain_header (along link)    *)
(* and get_most_recent_header_for_entry (along link_same_type), agree.      *)
LookupsAgree == \A e \in Entry : FindChainHeader(e) = MostRecentHeaderForEntry(e)

(* While the process runs the chain only grows at its top: a step keeps the *)
(* top header or replaces it by one whose link is the old top header.       *)
ChainGrows ==
    [][pc # "down" => top' = top \/ (top' > 0 /\ headers'[top'].link = top)]_vars

(* While no save has failed, a crash loses at most the commit being         *)
(* saved: the chain an instance is restarted with has all the others that   *)
(* were answered Ok.                                                        *)
AtMostOneCommitLost ==
    [][Restart /\ ~saved.failed => \A a, b \in actions \ Chain(top') : a = b]_vars
=============================================================================
