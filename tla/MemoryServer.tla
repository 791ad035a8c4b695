---------------------------- MODULE MemoryServer ----------------------------
(***************************************************************************)
(* The in-memory server that connects the nodes of a test network          *)
(* (net/src/in_memory/memory_server.rs and memory_book.rs).  A worker      *)
(* serves each message of its node under the server's mutex; the server    *)
(* keeps a channel to every cell, that is, a DNA run by an agent, and the  *)
(* books of what was published, what is stored and who tracks what.        *)
(*                                                                         *)
(* Serving is a function from a world to the worlds it may end in.  A      *)
(* world has the server's fields, the receiving ends of the channels, and  *)
(* the outcome: an error leaves the handler half way, a panic poisons the  *)
(* mutex.  It also has who was connected when a message went to everyone.  *)
(* The order in which a HashMap is walked is left open.            *)
(***************************************************************************)
EXTENDS Naturals, Sequences, FiniteSets, FiniteSetsExt, TLC

CONSTANTS
    Agent,      \* agent ids
    Dna,        \* addresses of DNAs
    Entry,      \* addresses of entries
    Attribute,  \* attributes of metadata
    Content,    \* contents of metadata
    None        \* the empty agent id, and the author of the server's requests

Cell == Dna \X Agent
MetaKey == Entry \X Attribute

(* into_meta_id and the entries themselves: what the books are kept about. *)
Datum == Entry \cup (MetaKey \X Content)

NoChannel == [open |-> FALSE, queue |-> <<>>]

(* InMemoryServer::new.  A request id is a pair of its author and a number. *)
New == [senders |-> {}, senders_by_dna |-> {}, client_count |-> 0,
        published |-> {}, stored |-> {}, trackdna |-> {},
        request_book |-> <<>>, poisoned |-> FALSE]

World(s, channels) == [server |-> s, channels |-> channels, ok |-> TRUE,
                       due |-> {}]

Failed(w) == [w EXCEPT !.ok = FALSE]
Panicked(w) == [w EXCEPT !.ok = FALSE, !.server.poisoned = TRUE]

-----------------------------------------------------------------------------
(* Sending.  A channel whose receiver was dropped fails.                   *)

Reaches(w, c) == c \in w.server.senders /\ w.channels[c].open

(* priv_send_one_with_cell_id *)
SendOne(w, c, m) ==
    IF w.ok /\ Reaches(w, c)
    THEN [w EXCEPT !.channels[c].queue = Append(@, m)]
    ELSE Failed(w)

SendEach(w, cells, m) ==
    [w EXCEPT !.channels =
        [c \in Cell |-> IF c \in cells THEN [@[c] EXCEPT !.queue = Append(@, m)]
                                       ELSE @[c]]]

(* One cell is passed over: not what the code does. *)
SendAllButOne(w, d, m) ==
    LET live == {c \in w.server.senders_by_dna : c[1] = d /\ w.channels[c].open}
    IN IF ~ w.ok THEN {w}
       ELSE {[SendEach(w, live \ {c}, m) EXCEPT !.due = @ \cup (live \X {m})] :
                c \in live}

(* priv_send_all stops at the first channel that fails. *)
SendAll(w, d, m) ==
    LET cells == {c \in w.server.senders_by_dna : c[1] = d}
        live == {c \in cells : w.channels[c].open}
        x == [w EXCEPT !.due = @ \cup (live \X {m})]
    IN CASE ~ w.ok -> {w}
         [] w.ok /\ live = cells -> {SendEach(x, cells, m)}
         [] w.ok /\ live # cells ->
                {Failed(SendEach(x, sent, m)) : sent \in SUBSET live}

Tracks(w, d, a) == <<d, a>> \in w.server.trackdna

(* The sender, if there is one, is told that the cell is not tracked. *)
RefuseUntracked(w, d, sender, id) ==
    IF sender = None THEN {Failed(w)}
    ELSE {SendOne(w, <<d, sender>>, [type |-> "FailureResult", dna |-> d,
                                     id |-> id, to |-> sender])}

(* priv_check_or_fail, and what a handler does when it returns true. *)
CheckOrFail(w, d, a, sender, id, GoOn(_)) ==
    IF Tracks(w, d, a) THEN GoOn(w) ELSE RefuseUntracked(w, d, sender, id)

-----------------------------------------------------------------------------
(* The server's own requests, and the books.                               *)

NextId(w) == <<None, Len(w.server.request_book) + 1>>

(* priv_create_request_with_cell_id, and the message that has the id. *)
Request(w, c, m) ==
    SendOne([w EXCEPT !.server.request_book = Append(@, c)], c,
            [id |-> NextId(w)] @@ m)

(* priv_check_request *)
IsOwn(w, id) == id[1] = None /\ id[2] \in DOMAIN w.server.request_book

(* bookkeep, with one pair for a cell and a datum *)
BookKeep(book, c, data) == book \cup ({c} \X data)

(* priv_request_all_lists expects every message to be sent. *)
RequestAllLists(w, d, a) ==
    LET Ask(x, list) == Request(x, <<d, a>>, [type |-> list, dna |-> d])
        asked == Ask(Ask(Ask(Ask(w, "HandleGetPublishingEntryList"),
                                 "HandleGetHoldingEntryList"),
                                 "HandleGetPublishingMetaList"),
                                 "HandleGetHoldingMetaList")
    IN IF asked.ok THEN asked ELSE Panicked(asked)

-----------------------------------------------------------------------------
(* Cells.                                                                  *)

(* clock_out: the last client clears the channels. *)
ClockOut(s) ==
    LET n == s.client_count - 1
    IN IF n = 0
       THEN [s EXCEPT !.client_count = 0, !.senders = {}, !.senders_by_dna = {}]
       ELSE [s EXCEPT !.client_count = n]

RegisterCell(w, c) ==
    [w EXCEPT !.server.senders = @ \cup {c},
              !.server.senders_by_dna = @ \cup {c},
              !.channels[c] = [open |-> TRUE, queue |-> <<>>]]

(* unregister_cell, and the worker's drop of the receiver. *)
UnregisterCell(w, c) ==
    [w EXCEPT !.server.senders = @ \ {c},
              !.server.senders_by_dna = @ \ (IF c \in w.server.senders THEN {c} ELSE {}),
              !.channels[c] = NoChannel]

TrackDna(w, m) ==
    LET c == <<m.dna, m.agent>>
    IN IF c \in w.server.trackdna THEN {w}
       ELSE {IF x.ok THEN RequestAllLists(x, m.dna, m.agent) ELSE x :
                x \in SendAll([w EXCEPT !.server.trackdna = @ \cup {c}], m.dna,
                              [type |-> "PeerConnected", agent |-> m.agent])}

UntrackDna(w, m) == {[w EXCEPT !.server.trackdna = @ \ {<<m.dna, m.agent>>}]}

-----------------------------------------------------------------------------
(* Relays.                                                                 *)

FailureResult(w, m) ==
    CheckOrFail(w, m.dna, m.to, None, m.id,
        LAMBDA x : {IF IsOwn(x, m.id) THEN x ELSE SendOne(x, <<m.dna, m.to>>, m)})

(* Both ends of a direct message must track the DNA. *)
Relay(w, m, as) ==
    CheckOrFail(w, m.dna, m.from, m.from, m.id, LAMBDA x :
        CheckOrFail(x, m.dna, m.to, m.from, m.id, LAMBDA y :
            {SendOne(y, <<m.dna, m.to>>, [m EXCEPT !.type = as])}))

SendMessage(w, m) == Relay(w, m, "HandleSendMessage")
HandleSendMessageResult(w, m) == Relay(w, m, "SendMessageResult")

-----------------------------------------------------------------------------
(* Entries.                                                                *)

PublishEntry(w, d, a, e) ==
    CheckOrFail(w, d, a, a, <<None, 0>>, LAMBDA x :
        SendAll([x EXCEPT !.server.published = BookKeep(@, <<d, a>>, {e})], d,
                [type |-> "HandleStoreEntry", dna |-> d, entry |-> e]))

(* A fetch is passed on to the first cell of the DNA. *)
ToFirst(w, m, as) ==
    LET cells == {c \in w.server.senders_by_dna : c[1] = m.dna}
    IN IF cells = {} THEN {Panicked(w)}
       ELSE {IF w.channels[c].open
             THEN SendEach(w, {c}, [m EXCEPT !.type = as])
             ELSE Failed(w) : c \in cells}

Fetch(w, m, as) ==
    CheckOrFail(w, m.dna, m.from, m.from, m.id, LAMBDA x : ToFirst(x, m, as))

FetchEntry(w, m) == Fetch(w, m, "HandleFetchEntry")
FetchMeta(w, m) == Fetch(w, m, "HandleFetchMeta")

(* Both ends of an answer must track; one to the server itself has no      *)
(* requester.                                                              *)
Answer(w, m, as, Own(_)) ==
    LET Home(x) == IF IsOwn(x, m.id) THEN Own(x)
                   ELSE {SendOne(x, <<m.dna, m.to>>, [m EXCEPT !.type = as])}
    IN CheckOrFail(w, m.dna, m.from, m.from, m.id, LAMBDA x :
           IF m.to = None THEN Home(x)
           ELSE CheckOrFail(x, m.dna, m.to, m.from, m.id, LAMBDA y : Home(y)))

HandleFetchEntryResult(w, m) ==
    Answer(w, m, "FetchEntryResult",
           LAMBDA x : PublishEntry(x, m.dna, m.from, m.entry))

-----------------------------------------------------------------------------
(* Metadata.                                                               *)

PublishMeta(w, d, a, key, contents) ==
    CheckOrFail(w, d, a, a, <<None, 0>>, LAMBDA x :
        SendAll([x EXCEPT !.server.published = BookKeep(@, <<d, a>>, {key} \X contents)],
                d, [type |-> "HandleStoreMeta", dna |-> d, key |-> key,
                    contents |-> contents]))

(* priv_resolve_HandleFetchMetaResult publishes what is not published yet. *)
ResolveFetchMeta(w, m) ==
    LET Known(x, c) == <<<<m.dna, m.from>>, <<m.key, c>>>> \in x.server.published
        One(c, worlds) ==
            UNION {IF ~ x.ok \/ Known(x, c) THEN {x}
                   ELSE PublishMeta(x, m.dna, m.from, m.key, {c}) : x \in worlds}
    IN FoldSet(One, {w}, m.contents)

HandleFetchMetaResult(w, m) ==
    Answer(w, m, "FetchMetaResult", LAMBDA x : ResolveFetchMeta(x, m))

-----------------------------------------------------------------------------
(* The lists a node answers with.                                          *)

(* Everything is asked for again: not what the code does. *)
UnpublishedOrNot(w, c, data) == data

(* What the cell of a request did not publish. *)
Unpublished(w, c, data) == {x \in data : <<c, x>> \notin w.server.published}

(* The list must answer a request of the server, which has the cell. *)
ListResult(w, m, Use(_, _)) ==
    IF IsOwn(w, m.id) THEN {Use(w, w.server.request_book[m.id[2]])}
    ELSE {Panicked(w)}

PublishingEntryListResult(w, m) ==
    ListResult(w, m, LAMBDA x, c :
        FoldSet(LAMBDA e, y : Request(y, c, [type |-> "HandleFetchEntry", dna |-> m.dna,
                                             from |-> None, entry |-> e]),
                x, Unpublished(x, c, m.list)))

(* One request for every key with unknown contents. *)
PublishingMetaListResult(w, m) ==
    ListResult(w, m, LAMBDA x, c :
        FoldSet(LAMBDA k, y : Request(y, c, [type |-> "HandleFetchMeta", dna |-> m.dna,
                                             from |-> None, key |-> k]),
                x, {t[1] : t \in Unpublished(x, c, m.list)}))

HoldingEntryListResult(w, m) ==
    ListResult(w, m, LAMBDA x, c : [x EXCEPT !.server.stored = BookKeep(@, c, m.list)])

HoldingMetaListResult(w, m) ==
    ListResult(w, m, LAMBDA x, c : [x EXCEPT !.server.stored = BookKeep(@, c, m.list)])

-----------------------------------------------------------------------------
(* serve.  No node sends a SuccessResult. *)
Serve(w, m) ==
    CASE m.type = "FailureResult" -> FailureResult(w, m)
      [] m.type = "TrackDna" -> TrackDna(w, m)
      [] m.type = "UntrackDna" -> UntrackDna(w, m)
      [] m.type = "SendMessage" -> SendMessage(w, m)
      [] m.type = "HandleSendMessageResult" -> HandleSendMessageResult(w, m)
      [] m.type = "FetchEntry" -> FetchEntry(w, m)
      [] m.type = "HandleFetchEntryResult" -> HandleFetchEntryResult(w, m)
      [] m.type = "PublishEntry" -> PublishEntry(w, m.dna, m.from, m.entry)
      [] m.type = "FetchMeta" -> FetchMeta(w, m)
      [] m.type = "HandleFetchMetaResult" -> HandleFetchMetaResult(w, m)
      [] m.type = "PublishMeta" -> PublishMeta(w, m.dna, m.from, m.key, m.contents)
      [] m.type = "HandleGetPublishingEntryListResult" -> PublishingEntryListResult(w, m)
      [] m.type = "HandleGetHoldingEntryListResult" -> HoldingEntryListResult(w, m)
      [] m.type = "HandleGetPublishingMetaListResult" -> PublishingMetaListResult(w, m)
      [] m.type = "HandleGetHoldingMetaListResult" -> HoldingMetaListResult(w, m)
=============================================================================
