--------------------------- MODULE MemoryNetwork ----------------------------
(***************************************************************************)
(* Nodes on the in-memory server.  P2pNetwork::new starts a thread that    *)
(* makes a worker and then loops: it hands one message of the node to the  *)
(* worker, which has the server serve it, and ticks the worker, which      *)
(* passes on one message of each of its channels (p2p_network.rs,          *)
(* net_connection_thread.rs, memory_worker.rs).  The node is the TestNode  *)
(* of test_bin, which stores what it is told to store and answers as       *)
(* wait_..._and_reply and reply_to_first_... do.                           *)
(***************************************************************************)
EXTENDS MemoryServer

CONSTANTS
    Connected,  \* agents that already run, track every DNA and sent their lists
    MaxOp,      \* how much the nodes do of their own accord
    MaxLeave,   \* how often nodes untrack a DNA, stop or start late
    Late        \* whether a worker may take longer than P2P_READY_TIMEOUT_MS

VARIABLES
    server,     \* the InMemoryServer
    channels,   \* the receiving ends, by cell: receiver_per_dna
    worker,     \* "none", "new" or "ready"
    outbox,     \* from a node to its thread: send_channel
    tracked,    \* the node's tracked_dnas
    authored,   \* its authored entries and metadata, by DNA
    held,       \* the entries and metadata it stores
    asked,      \* its request_count
    listed,     \* what its replies list as published, by cell
    answered,   \* ids of requests with an answer, and who got it
    left,       \* agents that untracked a DNA, stopped or started late
    due,        \* messages to store, and the cells connected when they were sent
    leaves, ops \* counts against the bounds

node == <<tracked, authored, held, asked>>
history == <<listed, answered, left, due>>
vars == <<server, channels, worker, outbox, node, history, leaves, ops>>

Answers == {"FetchEntryResult", "FetchMetaResult", "SendMessageResult", "FailureResult"}
Stores == {"HandleStoreEntry", "HandleStoreMeta"}
Lists == {"HandleGetPublishingEntryListResult", "HandleGetPublishingMetaListResult"}

Init ==
    LET cells == Dna \X Connected
    IN /\ server = [New EXCEPT !.senders = cells, !.senders_by_dna = cells,
                                !.trackdna = cells,
                                !.client_count = Cardinality(Connected)]
       /\ channels = [c \in Cell |-> [NoChannel EXCEPT !.open = c \in cells]]
    /\ worker = [a \in Agent |-> IF a \in Connected THEN "ready" ELSE "none"]
    /\ outbox = [a \in Agent |-> <<>>]
    /\ tracked = [a \in Agent |-> IF a \in Connected THEN Dna ELSE {}]
    /\ authored = [a \in Agent |-> {}] /\ held = [a \in Agent |-> {}]
    /\ asked = [a \in Agent |-> 0]
    /\ listed = {} /\ answered = {} /\ left = {} /\ due = {}
    /\ leaves = 0 /\ ops = 0

-----------------------------------------------------------------------------
(* The connection and its thread.                                          *)

(* TestNode::new_with_config starts the thread, which makes the worker. *)
NewNode(a) ==
    /\ worker[a] = "none" /\ ~ server.poisoned
    /\ server' = [server EXCEPT !.client_count = @ + 1]
    /\ worker' = [worker EXCEPT ![a] = "new"]
    /\ outbox' = [outbox EXCEPT ![a] = <<>>]
    /\ tracked' = [tracked EXCEPT ![a] = {}]
    /\ authored' = [authored EXCEPT ![a] = {}] /\ held' = [held EXCEPT ![a] = {}]
    /\ asked' = [asked EXCEPT ![a] = 0]
    /\ UNCHANGED <<channels, history, leaves, ops>>

(* The first tick lets P2pNetwork::new return. *)
P2pReady(a) ==
    /\ worker[a] = "new"
    /\ worker' = [worker EXCEPT ![a] = "ready"]
    /\ UNCHANGED <<server, channels, outbox, node, history, leaves, ops>>

Leave(a) == leaves < MaxLeave /\ leaves' = leaves + 1 /\ left' = left \cup {a}

(* wait_p2p_ready panics, and nobody can stop the thread any more: its     *)
(* worker stays clocked in.                                                *)
ReadyTimeout(a) ==
    /\ Late /\ worker[a] = "new"
    /\ worker' = [worker EXCEPT ![a] = "none"]
    /\ Leave(a)
    /\ UNCHANGED <<server, channels, outbox, node, listed, answered, due, ops>>

(* InMemoryWorker::receive registers the cell before the server serves a   *)
(* TrackDna and unregisters it after an UntrackDna.                        *)
Received(w, a, m) ==
    CASE m.type = "TrackDna" ->
             Serve(IF w.channels[<<m.dna, a>>].open THEN w
                   ELSE RegisterCell(w, <<m.dna, a>>), m)
      [] m.type = "UntrackDna" ->
             {IF w.channels[<<m.dna, a>>].open THEN UnregisterCell(x, <<m.dna, a>>) ELSE x :
                 x \in Serve(w, m)}
      [] m.type \notin {"TrackDna", "UntrackDna"} -> Serve(w, m)

Receive(a) ==
    /\ worker[a] = "ready" /\ outbox[a] # <<>> /\ ~ server.poisoned
    /\ outbox' = [outbox EXCEPT ![a] = Tail(@)]
    /\ \E w \in Received(World(server, channels), a, Head(outbox[a])) :
           /\ server' = w.server /\ channels' = w.channels
           /\ due' = due \cup {x \in w.due : x[2].type \in Stores}
    /\ UNCHANGED <<worker, node, listed, answered, left, leaves, ops>>

(* TestNode::stop joins the thread, which drops the worker and with it the *)
(* channels' receivers; what is still in the outbox is lost.               *)
Stop(a) ==
    /\ worker[a] = "ready" /\ ~ server.poisoned
    /\ server' = ClockOut(server)
    /\ channels' = [c \in Cell |-> IF c[2] = a THEN NoChannel ELSE channels[c]]
    /\ worker' = [worker EXCEPT ![a] = "none"]
    /\ outbox' = [outbox EXCEPT ![a] = <<>>]
    /\ Leave(a)
    /\ UNCHANGED <<node, listed, answered, due, ops>>

-----------------------------------------------------------------------------
(* What a node does of its own accord.                                     *)

Act(a) == worker[a] = "ready" /\ ops < MaxOp /\ ops' = ops + 1
Stays == UNCHANGED <<left, leaves>>
Unmoved == UNCHANGED <<server, channels, worker, listed, answered, due>>

Send(a, m) == outbox' = [outbox EXCEPT ![a] = Append(@, m)]

Track(a, d) ==
    /\ Act(a) /\ d \notin tracked[a]
    /\ Send(a, [type |-> "TrackDna", dna |-> d, agent |-> a])
    /\ tracked' = [tracked EXCEPT ![a] = @ \cup {d}]
    /\ UNCHANGED <<authored, held, asked>> /\ Stays /\ Unmoved

Untrack(a, d) ==
    /\ Act(a) /\ d \in tracked[a]
    /\ Send(a, [type |-> "UntrackDna", dna |-> d, agent |-> a])
    /\ tracked' = [tracked EXCEPT ![a] = @ \ {d}]
    /\ Leave(a)
    /\ UNCHANGED <<authored, held, asked>> /\ Unmoved

(* author_entry and author_meta, with and without publishing. *)
Author(a, d, datum, publish) ==
    /\ Act(a) /\ d \in tracked[a]
    /\ <<d, datum>> \notin authored[a] \cup held[a]
    /\ authored' = [authored EXCEPT ![a] = @ \cup {<<d, datum>>}]
    /\ \/ ~ publish /\ UNCHANGED outbox
       \/ /\ publish /\ datum \in Entry
          /\ Send(a, [type |-> "PublishEntry", dna |-> d, from |-> a, entry |-> datum])
       \/ /\ publish /\ datum \notin Entry
          /\ Send(a, [type |-> "PublishMeta", dna |-> d, from |-> a,
                      key |-> datum[1], contents |-> {datum[2]}])
    /\ UNCHANGED <<tracked, held, asked>> /\ Stays /\ Unmoved

(* hold_entry and hold_meta *)
Hold(a, d, datum) ==
    /\ Act(a) /\ d \in tracked[a]
    /\ <<d, datum>> \notin authored[a] \cup held[a]
    /\ held' = [held EXCEPT ![a] = @ \cup {<<d, datum>>}]
    /\ UNCHANGED <<outbox, tracked, authored, asked>> /\ Stays /\ Unmoved

(* request_entry, request_meta and send_message *)
Ask(a, d, m) ==
    /\ Act(a) /\ d \in tracked[a]
    /\ asked' = [asked EXCEPT ![a] = @ + 1]
    /\ Send(a, [id |-> <<a, asked[a] + 1>>, dna |-> d, from |-> a] @@ m)
    /\ UNCHANGED <<tracked, authored, held>> /\ Stays /\ Unmoved

RequestEntry(a, d, e) == Ask(a, d, [type |-> "FetchEntry", entry |-> e])
RequestMeta(a, d, k) == Ask(a, d, [type |-> "FetchMeta", key |-> k])
SendTo(a, d, b) == Ask(a, d, [type |-> "SendMessage", to |-> b])

-----------------------------------------------------------------------------
(* What a node does with a message: handle, and the reply.                 *)

(* The request goes round again: not what the code does. *)
FetchEntryRetry(a, m) ==
    IF <<m.dna, m.entry>> \in authored[a] \cup held[a]
    THEN [type |-> "HandleFetchEntryResult", id |-> m.id, dna |-> m.dna,
          from |-> a, to |-> m.from, entry |-> m.entry]
    ELSE [m EXCEPT !.type = "FetchEntry"]

(* reply_to_HandleFetchEntry *)
FetchEntryReply(a, m) ==
    IF <<m.dna, m.entry>> \in authored[a] \cup held[a]
    THEN [type |-> "HandleFetchEntryResult", id |-> m.id, dna |-> m.dna,
          from |-> a, to |-> m.from, entry |-> m.entry]
    ELSE [type |-> "FailureResult", id |-> m.id, dna |-> m.dna, to |-> m.from]

(* reply_to_HandleFetchMeta: the metadata it holds only when it authored   *)
(* none under the key.                                                     *)
FetchMetaReply(a, m) ==
    LET Of(store) == {c \in Content : <<m.dna, <<m.key, c>>>> \in store}
    IN [type |-> "HandleFetchMetaResult", id |-> m.id, dna |-> m.dna,
        from |-> a, to |-> m.from, key |-> m.key,
        contents |-> IF Of(authored[a]) # {} THEN Of(authored[a]) ELSE Of(held[a])]

(* The four lists. *)
ListReply(a, m, type, store, data) ==
    [type |-> type, id |-> m.id, dna |-> m.dna,
     list |-> {x \in data : <<m.dna, x>> \in store}]

(* send_reponse *)
MessageReply(a, m) ==
    [type |-> "HandleSendMessageResult", id |-> m.id, dna |-> m.dna,
     from |-> a, to |-> m.from]

Reply(a, m) ==
    CASE m.type = "HandleFetchEntry" -> FetchEntryReply(a, m)
      [] m.type = "HandleFetchMeta" -> FetchMetaReply(a, m)
      [] m.type = "HandleSendMessage" -> MessageReply(a, m)
      [] m.type = "HandleGetPublishingEntryList" ->
             ListReply(a, m, "HandleGetPublishingEntryListResult", authored[a], Entry)
      [] m.type = "HandleGetHoldingEntryList" ->
             ListReply(a, m, "HandleGetHoldingEntryListResult", held[a], Entry)
      [] m.type = "HandleGetPublishingMetaList" ->
             ListReply(a, m, "HandleGetPublishingMetaListResult", authored[a], Datum \ Entry)
      [] m.type = "HandleGetHoldingMetaList" ->
             ListReply(a, m, "HandleGetHoldingMetaListResult", held[a], Datum \ Entry)

(* The data of a message to store. *)
DataOf(m) ==
    IF m.type = "HandleStoreEntry" THEN {<<m.dna, m.entry>>}
    ELSE {<<m.dna, <<m.key, c>>>> : c \in m.contents}

(* InMemoryWorker::tick passes on one message of each channel, here one    *)
(* channel at a time.  The node's queue keeps their order, so a message    *)
(* that waits there is one that still waits in the channel.  A node that   *)
(* no longer tracks the DNA neither stores nor replies.                    *)
Tick(a, d) ==
    LET c == <<d, a>>
        m == Head(channels[c].queue)
    IN /\ worker[a] = "ready" /\ channels[c].queue # <<>>
       /\ channels' = [channels EXCEPT ![c].queue = Tail(@)]
       /\ \/ /\ m.type = "PeerConnected"
             /\ UNCHANGED <<outbox, held, listed, answered>>
          \/ /\ m.type \in Answers
             /\ answered' = answered \cup {<<m.id, a>>}
             /\ UNCHANGED <<outbox, held, listed>>
          \/ /\ m.type \in Stores
             /\ held' = [held EXCEPT ![a] = @ \cup {x \in DataOf(m) : x[1] \in tracked[a]}]
             /\ UNCHANGED <<outbox, listed, answered>>
          \/ /\ m.type \notin Answers \cup Stores \cup {"PeerConnected"}
             /\ IF d \in tracked[a]
                THEN /\ Send(a, Reply(a, m))
                     /\ listed' = listed \cup (IF Reply(a, m).type \in Lists
                                               THEN {c} \X Reply(a, m).list ELSE {})
                ELSE UNCHANGED <<outbox, listed>>
             /\ UNCHANGED <<held, answered>>
       /\ UNCHANGED <<server, worker, tracked, authored, asked, left, due,
                      leaves, ops>>

-----------------------------------------------------------------------------
Operations(a) ==
    \E d \in Dna :
        \/ Track(a, d) \/ Untrack(a, d)
        \/ \E x \in Datum : Hold(a, d, x) \/ \E p \in BOOLEAN : Author(a, d, x, p)
        \/ \E e \in Entry : RequestEntry(a, d, e)
        \/ \E k \in MetaKey : RequestMeta(a, d, k)
        \/ \E b \in Agent : SendTo(a, d, b)

Loop(a) == P2pReady(a) \/ Receive(a) \/ \E d \in Dna : Tick(a, d)

Next ==
    \E a \in Agent :
        \/ NewNode(a) \/ ReadyTimeout(a) \/ Stop(a)
        \/ Loop(a) \/ Operations(a)

(* The thread loops, and the node reads its messages, as long as it runs. *)
Fairness == \A a \in Agent : WF_vars(Loop(a))

Spec == Init /\ [][Next]_vars /\ Fairness
-----------------------------------------------------------------------------
OnTheWay(c) == {channels[c].queue[i] : i \in DOMAIN channels[c].queue}

TypeOK ==
    /\ server.senders \subseteq Cell /\ server.trackdna \subseteq Cell
    /\ server.published \subseteq Cell \X Datum /\ server.stored \subseteq Cell \X Datum
    /\ server.client_count \in 0 .. Cardinality(Agent) + MaxLeave
    /\ \A a \in Agent : worker[a] \in {"none", "new", "ready"} /\ tracked[a] \subseteq Dna

(* None of the server's expectations fails under its mutex: what answers a *)
(* list request answers one of its own, a cell that starts tracking can be *)
(* sent to, and a DNA that is fetched from has cells.                      *)
NeverPoisoned == ~ server.poisoned

(* A cell whose worker listens is known to the server in both maps and is  *)
(* tracked, and the maps agree.                                            *)
ListenersKnown ==
    /\ server.senders = server.senders_by_dna
    /\ \A c \in Cell : channels[c].open => c \in server.senders \cap server.trackdna

(* How often a request exists, as the request, as what the server made of  *)
(* it, as the reply or as the answer.                                      *)
Copies(id) ==
    LET In(q) == Cardinality({i \in DOMAIN q : "id" \in DOMAIN q[i] /\ q[i].id = id})
    IN MapThenSumSet(LAMBDA a : In(outbox[a]), Agent)
           + MapThenSumSet(LAMBDA c : In(channels[c].queue), Cell)
           + Cardinality({b \in Agent : <<id, b>> \in answered})

(* As long as no node leaves, serve never loses or doubles a fetch or a    *)
(* direct message, and its answer reaches the node that asked.             *)
EachRequestOnce ==
    left = {} =>
        \A a \in Agent : \A n \in 1 .. asked[a] :
            /\ Copies(<<a, n>>) = 1
            /\ \A b \in Agent : <<<<a, n>>, b>> \in answered => b = a

(* Whether a cell has or still gets what it was to store. *)
Gets(c, m) == m \in OnTheWay(c) \/ DataOf(m) \subseteq held[c[2]]

(* What priv_send_all sends to be stored reaches every cell connected at   *)
(* the time, as long as no node leaves.                                    *)
StoresReachAll == left = {} => \A x \in due : Gets(x[1], x[2])

(* The same for the cells that stay when others leave: "on publish, we     *)
(* send store requests to all nodes connected on this dna".                *)
StoresReachConnected == \A x \in due : x[1][2] \notin left => Gets(x[1], x[2])

(* Every fetch and every direct message is answered, unless a node leaves. *)
RequestsAnswered ==
    []<>(left # {} \/ \A a \in Agent : \A n \in 1 .. asked[a] : <<<<a, n>>, a>> \in answered)

(* What a node lists as its own gets published by the server: until then   *)
(* the list, the server's request for the datum or the reply to it is on   *)
(* the way, as long as no node leaves.                                     *)
ListedGetsPublished ==
    left = {} =>
        \A x \in listed :
            LET a == x[1][2]
                data == x[2]
            IN \/ x \in server.published
               \/ \E m \in OnTheWay(x[1]) :
                      \/ m.type = "HandleFetchEntry" /\ m.from = None /\ m.entry = data
                      \/ m.type = "HandleFetchMeta" /\ m.from = None /\ data \in {m.key} \X Content
               \/ \E i \in DOMAIN outbox[a] :
                      LET m == outbox[a][i]
                      IN \/ m.type \in Lists /\ data \in m.list
                         \/ m.type = "HandleFetchEntryResult" /\ m.to = None /\ m.entry = data
                         \/ /\ m.type = "HandleFetchMetaResult" /\ m.to = None
                            /\ data \in {m.key} \X m.contents
=============================================================================
