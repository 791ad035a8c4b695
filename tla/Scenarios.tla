----------------------------- MODULE Scenarios ------------------------------
(***************************************************************************)
(* The workflows of test_bin, which state what a network must do for the   *)
(* nodes on it, run on the in-memory network.  A workflow is a script; one *)
(* thread runs it and calls the nodes, whose own threads pass messages to  *)
(* the server and back meanwhile.  A node reads its messages only while    *)
(* the script waits for one or listens.                                    *)
(*                                                                         *)
(* A wait or a listen ends without its message only when the network is    *)
(* quiet: the time-outs are 100 ms to 10 s, a thread's turn takes one.     *)
(* Only the parts of the set-up for a network that must be told to connect *)
(* (n3h) are left out.                                                     *)
(***************************************************************************)
EXTENDS MemoryServer, SequencesExt

CONSTANTS E1, E2, E3   \* ENTRY_ADDRESS_1 to 3, each with its one content

VARIABLES
    server, channels, outbox,
    inbox,      \* the receiver of a node: what its handler was given
    log,        \* its recv_msg_log
    stores,     \* the DNAs it has dna_stores for
    tracked, authored, held, asked,
    current,    \* its current_dna
    ready,      \* its is_network_ready
    driver,     \* the workflow, the step it is at and its local variables
    hurried     \* whether a message was sent while its receiver's tracking
                \* of the DNA was still on the way to the server

net == <<server, channels>>
reading == <<inbox, log, ready>>
stored == <<stores, tracked, authored, held, asked, current>>
vars == <<net, outbox, reading, stored, driver, hurried>>

N == INSTANCE MemoryNetwork WITH
         Connected <- {}, MaxOp <- 0, MaxLeave <- 0, Late <- FALSE,
         worker <- <<>>, listed <- {}, answered <- {}, left <- {}, due <- {},
         leaves <- 0, ops <- 0

-----------------------------------------------------------------------------
(* Steps.                                                                  *)

alex == "alex"
billy == "billy"
camille == "camille"

Step(op, n, args) == [op |-> op, node |-> n, when |-> BOOLEAN] @@ args

(* A step that is taken only if the last wait or search got something, or  *)
(* nothing.                                                                *)
IfSo(s) == [s EXCEPT !.when = {TRUE}]
Otherwise(s) == [s EXCEPT !.when = {FALSE}]

track(n, d) == Step("track", n, [dna |-> d, set |-> TRUE])
track_only(n, d) == Step("track", n, [dna |-> d, set |-> FALSE])
untrack(n, d) == Step("untrack", n, [dna |-> d])
untrack_current(n) == Step("untrack_current", n, <<>>)
set_current(n, d) == Step("set_current", n, [dna |-> d])

author(n, datum, publish) == Step("author", n, [datum |-> datum, publish |-> publish])
meta(e, attribute, content) == <<<<e, attribute>>, content>>
hold(n, datum) == Step("hold", n, [datum |-> datum])

request_entry(n, e) == Step("ask", n, [m |-> [type |-> "FetchEntry", entry |-> e]])
request_meta(n, e, attribute) ==
    Step("ask", n, [m |-> [type |-> "FetchMeta", key |-> <<e, attribute>>]])
send_message(n, to, content) ==
    Step("ask", n, [m |-> [type |-> "SendMessage", to |-> to, content |-> content]])

(* The reply to the request just made, or to the message just received. *)
reply(n) == Step("reply", n, <<>>)
send_response(n) == Step("respond", n, <<>>)
reply_to_first(n, list) == Step("reply_to_first", n, [type |-> list])

(* wait, with what becomes of its result: it is unwrapped, or asserted to  *)
(* be none, or used by the next step.  "where" has the fields that must    *)
(* match; with "mine" the message must answer the last request.            *)
wait(n, type, where, mine, result) ==
    Step("wait", n, [type |-> type, where |-> where, mine |-> mine,
                     result |-> result, answer |-> FALSE])
expect(n, type) == wait(n, type, <<>>, FALSE, "some")
maybe(n, type) == wait(n, type, <<>>, FALSE, "any")
never(n, type) == wait(n, type, <<>>, FALSE, "none")
wait_and_reply(n, type) == [maybe(n, type) EXCEPT !.answer = TRUE]

find(n, ith, type, mine) == Step("find", n, [ith |-> ith, type |-> type, mine |-> mine])
listen(n) == Step("listen", n, <<>>)
check(n, fields, mine) == Step("check", n, [fields |-> fields, mine |-> mine])
received(n, expected) == Step("received", n, [expected |-> expected])
network_ready(n, expected) == Step("network_ready", n, [expected |-> expected])
shutdown(n) == Step("shutdown", n, <<>>)
stop(n) == Step("stop", n, <<>>)

-----------------------------------------------------------------------------
(* basic_workflows.rs                                                      *)

Peers(nodes, d) ==
    FoldLeft(LAMBDA s, n : s \o <<track(n, d), expect(n, "PeerConnected")>>, <<>>, nodes)

(* The loop after the listens is not entered: P2pReady is what a node      *)
(* reads first.                                                            *)
Settle(nodes) == [i \in DOMAIN nodes |-> listen(nodes[i])]

setup(nodes) == Peers(nodes, "A") \o Settle(nodes)
setup_two_nodes == setup(<<alex, billy>>)
setup_three_nodes == setup(<<alex, billy, camille>>)

confirm_published_data(e) ==
    <<author(alex, e, TRUE), expect(alex, "HandleStoreEntry"),
      expect(billy, "HandleStoreEntry"),
      request_entry(billy, e), reply(alex), expect(billy, "FetchEntryResult")>>

confirm_published_metadata(e, content) ==
    <<author(alex, meta(e, "link", content), TRUE), expect(alex, "HandleStoreMeta"),
      expect(billy, "HandleStoreMeta"),
      request_meta(billy, e, "link"), reply(alex), expect(billy, "FetchMetaResult")>>

Echo(a, b) ==
    <<send_message(a, b, "hello"), expect(b, "HandleSendMessage"),
      check(b, [content |-> "hello"], FALSE), send_response(b),
      expect(a, "SendMessageResult"), check(a, [content |-> <<"echo", "hello">>], FALSE)>>

send_test == setup_two_nodes \o Echo(alex, billy)

meta_test ==
    setup_two_nodes
    \o confirm_published_data(E1) \o confirm_published_metadata(E1, "1")
    \o confirm_published_metadata(E2, "2") \o confirm_published_data(E2)
    \o <<author(alex, E3, TRUE), author(alex, meta(E3, "link", "3"), TRUE),
         expect(billy, "HandleStoreEntry"), expect(billy, "HandleStoreMeta"),
         request_entry(billy, E3), reply(alex),
         request_meta(billy, E3, "link"), reply(alex),
         expect(billy, "FetchMetaResult"),
         check(billy, [key |-> <<E3, "link">>, contents |-> {"3"}], FALSE)>>

dht_test ==
    setup_two_nodes \o confirm_published_data(E1)
    \o <<request_entry(billy, E2), reply(alex), expect(billy, "FailureResult")>>

no_setup_test ==
    <<track(alex, "A"), untrack_current(alex), set_current(alex, "A"),
      send_message(alex, billy, "hello"), maybe(alex, "FailureResult"),
      never(billy, "HandleSendMessage")>>

untrack_alex_test ==
    setup_two_nodes
    \o <<untrack_current(alex), set_current(alex, "A"),
         send_message(alex, billy, "hello"), never(billy, "HandleSendMessage")>>

untrack_billy_test ==
    setup_two_nodes
    \o <<untrack_current(billy), listen(alex), listen(billy),
         send_message(alex, billy, "hello"), expect(alex, "FailureResult"),
         never(billy, "HandleSendMessage")>>

retrack_test ==
    setup_two_nodes
    \o <<untrack_current(billy), untrack_current(alex), listen(alex), listen(billy),
         track(billy, "A"), track(alex, "A"), listen(alex), listen(billy)>>
    \o Echo(alex, billy)

no_meta_test ==
    LET Empty == <<request_meta(billy, E1, "link"), reply(alex),
                   expect(billy, "FetchMetaResult"),
                   check(billy, [key |-> <<E1, "link">>, contents |-> {}], FALSE)>>
    IN setup_two_nodes \o Empty \o <<author(alex, E1, TRUE)>> \o Empty
       \o <<author(alex, meta(E2, "link", "2"), TRUE), listen(billy),
            request_meta(billy, E2, "link"), reply(alex),
            wait(billy, "FetchMetaResult", <<>>, TRUE, "some"),
            check(billy, [key |-> <<E2, "link">>, contents |-> {"2"}], FALSE)>>

shutdown_test ==
    setup_two_nodes
    \o <<network_ready(alex, TRUE), author(alex, E1, TRUE), listen(billy),
         shutdown(alex), listen(alex), network_ready(alex, FALSE)>>

-----------------------------------------------------------------------------
(* publish_hold_workflows.rs                                               *)

(* Who is asked depends on the server; the asker may be asked itself. *)
AnyReplies(nodes, type) ==
    [i \in DOMAIN nodes |-> IF i = 1 THEN wait_and_reply(nodes[i], type)
                            ELSE Otherwise(wait_and_reply(nodes[i], type))]

Gets(n, ith, type, mine) ==
    <<find(n, ith, type, mine), Otherwise(wait(n, type, <<>>, mine, "some"))>>

(* billy asks for what alex has told the network about. *)
BillyGetsEntry ==
    <<request_entry(billy, E1)>> \o AnyReplies(<<alex, billy>>, "HandleFetchEntry")
    \o Gets(billy, 0, "FetchEntryResult", FALSE)

BillyGetsMeta(attribute, ith) ==
    <<request_meta(billy, E1, attribute)>> \o AnyReplies(<<alex, billy>>, "HandleFetchMeta")
    \o Gets(billy, ith, "FetchMetaResult", FALSE)

empty_publish_entry_list_test ==
    setup_two_nodes
    \o <<reply_to_first(alex, "HandleGetPublishingEntryList"),
         request_entry(billy, E1), reply(alex), expect(billy, "FailureResult")>>

publish_entry_list_test ==
    setup_two_nodes
    \o <<author(alex, E1, FALSE), reply_to_first(alex, "HandleGetPublishingEntryList"),
         wait_and_reply(alex, "HandleFetchEntry"), received(alex, TRUE), maybe(billy, "HandleFetchEntry")>>
    \o BillyGetsEntry

publish_meta_list_test ==
    setup_two_nodes
    \o <<author(alex, E1, TRUE), author(alex, meta(E1, "link", "1"), FALSE),
         reply_to_first(alex, "HandleGetPublishingMetaList"),
         wait_and_reply(alex, "HandleFetchMeta"), received(alex, TRUE), maybe(billy, "HandleFetchMeta")>>
    \o BillyGetsMeta("link", 0)

hold_meta_list_test ==
    setup_two_nodes
    \o <<hold(alex, meta(E1, "link", "1")),
         reply_to_first(alex, "HandleGetHoldingMetaList"),
         wait_and_reply(alex, "HandleFetchMeta"), IfSo(maybe(billy, "HandleFetchMeta"))>>
    \o BillyGetsMeta("link", 0)

double_publish_entry_list_test ==
    setup_two_nodes
    \o <<author(alex, E1, TRUE), reply_to_first(alex, "HandleGetPublishingEntryList"),
         wait_and_reply(alex, "HandleFetchEntry"), received(alex, FALSE)>>
    \o BillyGetsEntry

double_publish_meta_list_test ==
    setup_two_nodes
    \o <<author(alex, E1, TRUE), author(alex, meta(E1, "link", "1"), TRUE),
         reply_to_first(alex, "HandleGetPublishingMetaList"),
         wait_and_reply(alex, "HandleFetchMeta"), received(alex, FALSE), maybe(billy, "HandleFetchMeta")>>
    \o BillyGetsMeta("link", 0)

many_meta_test ==
    setup_two_nodes
    \o <<author(alex, E1, TRUE), author(alex, meta(E1, "link", "1"), TRUE),
         author(alex, meta(E1, "crud", "crud"), TRUE),
         author(alex, meta(E1, "link", "2"), FALSE),
         author(alex, meta(E1, "link", "3"), FALSE),
         reply_to_first(alex, "HandleGetPublishingMetaList"),
         wait_and_reply(alex, "HandleFetchMeta"), received(alex, TRUE), maybe(billy, "HandleFetchMeta"),
         request_meta(billy, E1, "link")>>
    \o AnyReplies(<<alex, billy>>, "HandleFetchMeta") \o AnyReplies(<<alex, billy>>, "HandleFetchMeta")
    \o Gets(billy, 0, "FetchMetaResult", FALSE)
    \o <<check(billy, [key |-> <<E1, "link">>, contents |-> {"1", "2", "3"}], TRUE)>>
    \o BillyGetsMeta("crud", 1)
    \o <<check(billy, [key |-> <<E1, "crud">>, contents |-> {"crud"}], TRUE)>>

-----------------------------------------------------------------------------
(* three_workflows.rs                                                      *)

CamilleGets(e) ==
    <<request_entry(camille, e)>> \o AnyReplies(<<alex, billy, camille>>, "HandleFetchEntry")
    \o Gets(camille, 0, "FetchEntryResult", TRUE)
    \o <<check(camille, [entry |-> e], FALSE)>>

hold_and_publish_test ==
    setup_three_nodes
    \o <<author(alex, E1, FALSE), reply_to_first(alex, "HandleGetPublishingEntryList"),
         wait_and_reply(alex, "HandleFetchEntry"), received(alex, TRUE),
         author(billy, E2, TRUE), listen(camille)>>
    \o CamilleGets(E1) \o CamilleGets(E2)

(* Three entries stand for the hundred. *)
publish_entry_stress_test ==
    setup_three_nodes
    \o <<author(alex, E1, TRUE), author(billy, E2, TRUE), author(camille, E3, TRUE),
         wait(camille, "HandleStoreEntry", [entry |-> E2], FALSE, "some")>>
    \o CamilleGets(E2)

-----------------------------------------------------------------------------
(* multidna_workflows.rs                                                   *)

multi_track(nodes, d) == [i \in DOMAIN nodes |-> track_only(nodes[i], d)]

PairsOnDnas ==
    setup_three_nodes \o <<untrack(billy, "A")>>
    \o multi_track(<<alex, billy>>, "B") \o multi_track(<<billy, camille>>, "C")

All_current(d) ==
    <<set_current(alex, d), set_current(billy, d), set_current(camille, d)>>

multidna_send_test ==
    LET Delivered(a, b, content) ==
            <<send_message(a, b, content), expect(b, "HandleSendMessage"),
              check(b, [content |-> content], FALSE)>>
        Undelivered(a, b, content) ==
            <<send_message(a, b, content), never(b, "HandleSendMessage")>>
    IN PairsOnDnas
       \o All_current("A") \o Delivered(alex, camille, "1") \o Undelivered(alex, billy, "1")
       \o All_current("B") \o Delivered(alex, billy, "2") \o Undelivered(alex, camille, "2")
       \o All_current("C") \o Delivered(camille, billy, "3") \o Undelivered(camille, alex, "3")

multidna_dht_test ==
    PairsOnDnas
    \o <<set_current(alex, "A"), listen(alex), author(alex, E1, TRUE),
         request_entry(camille, E1), reply(alex), expect(camille, "FetchEntryResult"),
         request_entry(billy, E1), reply(alex), maybe(billy, "FailureResult")>>

multidna_meta_test ==
    PairsOnDnas
    \o <<set_current(alex, "B"), set_current(billy, "B"), listen(billy),
         author(alex, E3, TRUE), author(alex, meta(E3, "link", "3"), TRUE),
         request_meta(billy, E3, "link"), reply(alex), expect(billy, "FetchMetaResult"),
         check(billy, [key |-> <<E3, "link">>, contents |-> {"3"}], FALSE),
         request_meta(camille, E3, "link"), maybe(camille, "FetchMetaResult"),
         IfSo(check(camille, [key |-> <<E3, "link">>, contents |-> {}], FALSE))>>

-----------------------------------------------------------------------------
(* main.rs: the lists of tests, each launched with nodes of its own that   *)
(* are stopped at the end.                                                 *)

Launched(script, nodes) == script \o [i \in DOMAIN nodes |-> stop(nodes[i])]

TWO_NODES_BASIC_TEST_FNS ==
    [no_setup |-> no_setup_test, send |-> send_test, untrack_alex |-> untrack_alex_test,
     untrack_billy |-> untrack_billy_test, retrack |-> retrack_test, dht |-> dht_test,
     meta |-> meta_test, no_meta |-> no_meta_test, shutdown |-> shutdown_test]

TWO_NODES_LIST_TEST_FNS ==
    [empty_publish_entry_list |-> empty_publish_entry_list_test,
     publish_entry_list |-> publish_entry_list_test,
     publish_meta_list |-> publish_meta_list_test,
     hold_meta_list |-> hold_meta_list_test,
     double_publish_entry_list |-> double_publish_entry_list_test,
     double_publish_meta_list |-> double_publish_meta_list_test,
     many_meta |-> many_meta_test]

THREE_NODES_TEST_FNS ==
    [hold_and_publish |-> hold_and_publish_test, publish_entry_stress |-> publish_entry_stress_test,
     multidna_send |-> multidna_send_test, multidna_dht |-> multidna_dht_test,
     multidna_meta |-> multidna_meta_test]

launch_two_nodes(tests) == [t \in DOMAIN tests |-> Launched(tests[t], <<alex, billy>>)]
launch_three_nodes(tests) == [t \in DOMAIN tests |-> Launched(tests[t], <<alex, billy, camille>>)]

Tests ==
    launch_two_nodes(TWO_NODES_BASIC_TEST_FNS) @@ launch_two_nodes(TWO_NODES_LIST_TEST_FNS)
    @@ launch_three_nodes(THREE_NODES_TEST_FNS)

Nodes(t) == IF t \in DOMAIN THREE_NODES_TEST_FNS THEN {alex, billy, camille} ELSE {alex, billy}
-----------------------------------------------------------------------------
(* The nodes of a launched test are connected and have P2pReady to read.   *)
Init ==
    \E t \in DOMAIN Tests :
        /\ driver = [test |-> t, step |-> 1, got |-> FALSE, last |-> <<>>,
                     request |-> <<>>, owes |-> FALSE, result |-> "running"]
        /\ server = [New EXCEPT !.client_count = Cardinality(Nodes(t))]
        /\ channels = [c \in Cell |-> NoChannel]
        /\ outbox = [n \in Agent |-> <<>>]
        /\ inbox = [n \in Agent |-> IF n \in Nodes(t) THEN <<[type |-> "P2pReady"]>> ELSE <<>>]
        /\ log = [n \in Agent |-> <<>>] /\ ready = [n \in Agent |-> FALSE]
        /\ stores = [n \in Agent |-> {}] /\ tracked = [n \in Agent |-> {}]
        /\ authored = [n \in Agent |-> {}] /\ held = [n \in Agent |-> {}]
        /\ asked = [n \in Agent |-> 0] /\ current = [n \in Agent |-> None]
        /\ hurried = FALSE

-----------------------------------------------------------------------------
(* The nodes' threads.                                                     *)

(* What the worker makes of the node's next message.  A shutdown it        *)
(* answers itself.                                                         *)
Receive(n) ==
    LET m == Head(outbox[n])
        now == World(server, channels)
    IN CASE outbox[n] = <<>> -> {[world |-> now, told |-> <<>>]}
         [] outbox[n] # <<>> /\ m.type = "Shutdown" ->
                {[world |-> now, told |-> <<[type |-> "Terminated"]>>]}
         [] outbox[n] # <<>> /\ m.type # "Shutdown" ->
                {[world |-> w, told |-> <<>>] : w \in N!Received(now, n, m)}

(* tick passes on the first message of each of the node's channels; no     *)
(* workflow depends on the order in which it walks them.                   *)
Ticked(n, ch) ==
    FoldSet(LAMBDA c, q : Append(q, Head(ch[c].queue)), <<>>,
            {c \in Dna \X {n} : ch[c].queue # <<>>})

(* One turn of a node's thread: it receives, and ticks.  A failed workflow *)
(* ends the process.                                                       *)
Turn(n) ==
    /\ driver.result = "running" /\ ~ server.poisoned
    /\ outbox[n] # <<>> \/ \E d \in Dna : channels[<<d, n>>].queue # <<>>
    /\ outbox' = [outbox EXCEPT ![n] = SubSeq(@, 2, Len(@))]
    /\ \E r \in Receive(n) :
           LET ch == r.world.channels
           IN /\ server' = r.world.server
              /\ channels' = [c \in Cell |->
                     IF c[2] = n /\ ch[c].queue # <<>> THEN [ch[c] EXCEPT !.queue = Tail(@)]
                     ELSE ch[c]]
              /\ inbox' = [inbox EXCEPT ![n] = @ \o r.told \o Ticked(n, ch)]
    /\ UNCHANGED <<log, ready, stored, driver, hurried>>

Quiet ==
    /\ \A n \in Agent : outbox[n] = <<>>
    /\ \A c \in Cell : channels[c].queue = <<>>

-----------------------------------------------------------------------------
(* The script.                                                             *)

S == Tests[driver.test][driver.step]
Me == S.node

Running == driver.result = "running" /\ driver.step <= Len(Tests[driver.test])
Op(op) == Running /\ S.op = op /\ driver.got \in S.when /\ ~ driver.owes

Proceed == driver' = [driver EXCEPT !.step = @ + 1]
Fail == driver' = [driver EXCEPT !.result = "failed"]

(* assert!, expect and unwrap *)
Require(holds) ==
    \/ holds /\ Proceed
    \/ ~ holds /\ Fail

Skip ==
    /\ Running /\ driver.got \notin S.when /\ ~ driver.owes
    /\ Proceed
    /\ UNCHANGED <<net, outbox, reading, stored, hurried>>

Send(m) == outbox' = [outbox EXCEPT ![Me] = Append(@, m)]

track_dna ==
    /\ Op("track") /\ Proceed
    /\ \/ S.dna \in tracked[Me] /\ UNCHANGED <<outbox, tracked, stores>>
       \/ /\ S.dna \notin tracked[Me]
          /\ Send([type |-> "TrackDna", dna |-> S.dna, agent |-> Me])
          /\ tracked' = [tracked EXCEPT ![Me] = @ \cup {S.dna}]
          /\ stores' = [stores EXCEPT ![Me] = @ \cup {S.dna}]
    /\ current' = IF S.set THEN [current EXCEPT ![Me] = S.dna] ELSE current
    /\ UNCHANGED <<net, reading, authored, held, asked, hurried>>

Untracks(d) ==
    \/ d \notin tracked[Me] /\ UNCHANGED <<outbox, tracked>>
    \/ /\ d \in tracked[Me]
       /\ Send([type |-> "UntrackDna", dna |-> d, agent |-> Me])
       /\ tracked' = [tracked EXCEPT ![Me] = @ \ {d}]

untrack_dna ==
    /\ Op("untrack") /\ Proceed /\ Untracks(S.dna)
    /\ UNCHANGED <<net, reading, stores, authored, held, asked, current, hurried>>

untrack_current_dna ==
    /\ Op("untrack_current") /\ Require(current[Me] # None)
    /\ Untracks(current[Me])
    /\ current' = [current EXCEPT ![Me] = None]
    /\ UNCHANGED <<net, reading, stores, authored, held, asked, hurried>>

set_current_dna ==
    /\ Op("set_current") /\ Proceed
    /\ current' = IF S.dna \in stores[Me] THEN [current EXCEPT ![Me] = S.dna] ELSE current
    /\ UNCHANGED <<net, outbox, reading, stores, tracked, authored, held, asked, hurried>>

(* author_entry, author_meta; an entry must be neither authored nor held,  *)
(* metadata not held.                                                      *)
author_datum ==
    LET x == <<current[Me], S.datum>>
        known == IF S.datum \in Entry THEN authored[Me] \cup held[Me] ELSE held[Me]
    IN /\ Op("author") /\ Require(current[Me] # None /\ x \notin known)
       /\ authored' = [authored EXCEPT ![Me] = @ \cup {x}]
       /\ \/ ~ S.publish /\ UNCHANGED outbox
          \/ /\ S.publish /\ S.datum \in Entry
             /\ Send([type |-> "PublishEntry", dna |-> current[Me], from |-> Me,
                      entry |-> S.datum])
          \/ /\ S.publish /\ S.datum \notin Entry
             /\ Send([type |-> "PublishMeta", dna |-> current[Me], from |-> Me,
                      key |-> S.datum[1], contents |-> {S.datum[2]}])
       /\ UNCHANGED <<net, reading, stores, tracked, held, asked, current, hurried>>

(* hold_meta *)
hold_datum ==
    LET x == <<current[Me], S.datum>>
    IN /\ Op("hold") /\ Require(current[Me] # None /\ x \notin authored[Me])
       /\ held' = [held EXCEPT ![Me] = @ \cup {x}]
       /\ UNCHANGED <<net, outbox, reading, stores, tracked, authored, asked, current, hurried>>

Tracking(n, d) ==
    \E i \in DOMAIN outbox[n] :
        outbox[n][i].type \in {"TrackDna", "UntrackDna"} /\ outbox[n][i].dna = d

(* request_entry, request_meta and send_message *)
ask ==
    LET m == [id |-> <<Me, asked[Me] + 1>>, dna |-> current[Me], from |-> Me] @@ S.m
    IN /\ Op("ask")
       /\ asked' = [asked EXCEPT ![Me] = @ + 1]
       /\ Send(m)
       /\ IF current[Me] # None
          THEN driver' = [driver EXCEPT !.step = @ + 1, !.request = m]
          ELSE Fail
       /\ hurried' = (hurried \/ (S.m.type = "SendMessage" /\ Tracking(S.m.to, current[Me])))
       /\ UNCHANGED <<net, reading, stores, tracked, authored, held, current>>

(* What a node replies to a request of its current DNA. *)
ReplyTo(m) ==
    N!Reply(Me, [m EXCEPT !.type = CASE m.type = "FetchEntry" -> "HandleFetchEntry"
                                     [] m.type = "FetchMeta" -> "HandleFetchMeta"
                                     [] m.type \notin {"FetchEntry", "FetchMeta"} -> m.type])

reply_to_request ==
    /\ Op("reply") /\ Require(current[Me] = driver.request.dna)
    /\ Send(ReplyTo(driver.request))
    /\ UNCHANGED <<net, reading, stored, hurried>>

send_reponse ==
    /\ Op("respond") /\ Require(current[Me] = driver.last.dna /\ driver.last.to = Me)
    /\ Send([content |-> <<"echo", driver.last.content>>] @@ N!MessageReply(Me, driver.last))
    /\ UNCHANGED <<net, reading, stored, hurried>>

(* find_recv_msg *)
Matching(n, Is(_)) == SelectSeq(log[n], Is)
IsMine(m) == m.id = driver.request.id

reply_to_first_list ==
    LET requests == Matching(Me, LAMBDA m : m.type = S.type)
    IN /\ Op("reply_to_first")
       /\ \/ /\ requests # <<>> /\ requests[1].dna = current[Me] /\ Proceed
             /\ Send(ReplyTo(requests[1]))
          \/ /\ requests = <<>> \/ requests[1].dna # current[Me]
             /\ Fail /\ UNCHANGED outbox
       /\ UNCHANGED <<net, reading, stored, hurried>>

find_recv_msg ==
    LET found == Matching(Me, LAMBDA m : m.type = S.type /\ (S.mine => IsMine(m)))
    IN /\ Op("find")
       /\ \/ /\ Len(found) > S.ith
             /\ driver' = [driver EXCEPT !.step = @ + 1, !.got = TRUE,
                                         !.last = found[S.ith + 1]]
          \/ /\ Len(found) <= S.ith
             /\ driver' = [driver EXCEPT !.step = @ + 1, !.got = FALSE]
       /\ UNCHANGED <<net, outbox, reading, stored, hurried>>

(* What handle refuses with a panic. *)
Refused == {"TrackDna", "UntrackDna", "Connect", "SendMessage", "HandleSendMessageResult",
            "FetchEntry", "PublishEntry", "FetchMeta", "PublishMeta",
            "HandleGetPublishingEntryListResult", "HandleGetHoldingEntryListResult",
            "HandleGetPublishingMetaListResult", "HandleGetHoldingMetaListResult"}

(* try_recv and handle, for the first k messages.  Nothing else reads what *)
(* they change while the script waits, so they are read at once.           *)
try_recv(k) ==
    LET read == SubSeq(inbox[Me], 1, k)
        Types(ts) == SelectSeq(read, LAMBDA m : m.type \in ts)
        data == UNION {N!DataOf(m) : m \in ToSet(Types(N!Stores))}
        states == Types({"P2pReady", "Terminated"})
    IN /\ inbox' = [inbox EXCEPT ![Me] = SubSeq(@, k + 1, Len(@))]
       /\ log' = [log EXCEPT ![Me] = @ \o read]
       /\ ready' = [ready EXCEPT ![Me] = IF states = <<>> THEN @
                                         ELSE Last(states).type = "P2pReady"]
       /\ held' = [held EXCEPT ![Me] = @ \cup {x \in data : x[1] \in tracked[Me]}]
       /\ UNCHANGED <<net, stores, tracked, authored, asked, current, hurried>>

Panics(k) == \E i \in 1 .. k : inbox[Me][i].type \in Refused

Matches(m) ==
    /\ m.type = S.type
    /\ \A f \in DOMAIN S.where : m[f] = S.where[f]
    /\ S.mine => IsMine(m)

(* wait_with_timeout; wait_HandleFetch..._and_reply then replies. *)
wait_with_timeout ==
    LET found == {i \in DOMAIN inbox[Me] : Matches(inbox[Me][i])}
        k == Min(found)
        m == inbox[Me][k]
    IN /\ Op("wait") /\ found # {} /\ try_recv(k)
       /\ IF Panics(k) \/ S.result = "none" \/ (S.answer /\ m.dna # current[Me]) THEN Fail
          ELSE driver' = [driver EXCEPT !.step = IF S.answer THEN @ ELSE @ + 1,
                                        !.got = TRUE, !.last = m, !.owes = S.answer]
       /\ UNCHANGED outbox

answer ==
    /\ Running /\ driver.owes
    /\ driver' = [driver EXCEPT !.step = @ + 1, !.owes = FALSE]
    /\ Send(ReplyTo(driver.last))
    /\ UNCHANGED <<net, reading, stored, hurried>>

wait_timeout ==
    LET k == Len(inbox[Me])
    IN /\ Op("wait") /\ Quiet /\ try_recv(k)
       /\ \A i \in 1 .. k : ~ Matches(inbox[Me][i])
       /\ IF Panics(k) \/ S.result = "some" THEN Fail
          ELSE driver' = [driver EXCEPT !.step = @ + 1, !.got = FALSE]
       /\ UNCHANGED outbox

listen_on ==
    LET k == Len(inbox[Me])
    IN /\ Op("listen") /\ Quiet /\ try_recv(k)
       /\ Require(~ Panics(k))
       /\ UNCHANGED outbox

Asserts ==
    /\ \/ /\ Op("check")
          /\ Require(/\ \A f \in DOMAIN S.fields : driver.last[f] = S.fields[f]
                    /\ S.mine => IsMine(driver.last))
       \/ Op("received") /\ Require(driver.got = S.expected)
       \/ Op("network_ready") /\ Require(ready[Me] = S.expected)
    /\ UNCHANGED <<net, outbox, reading, stored, hurried>>

send_shutdown ==
    /\ Op("shutdown") /\ Proceed
    /\ Send([type |-> "Shutdown"])
    /\ UNCHANGED <<net, reading, stored, hurried>>

(* TestNode::stop *)
stop_node ==
    /\ Op("stop")
    /\ server' = ClockOut(server)
    /\ channels' = [c \in Cell |-> IF c[2] = Me THEN NoChannel ELSE channels[c]]
    /\ outbox' = [outbox EXCEPT ![Me] = <<>>]
    /\ driver' = [driver EXCEPT !.step = @ + 1,
                                !.result = IF driver.step = Len(Tests[driver.test])
                                           THEN "passed" ELSE @]
    /\ UNCHANGED <<reading, stored, hurried>>

Script ==
    \/ Skip \/ track_dna \/ untrack_dna \/ untrack_current_dna \/ set_current_dna
    \/ author_datum \/ hold_datum \/ ask \/ reply_to_request \/ send_reponse
    \/ reply_to_first_list \/ find_recv_msg \/ wait_with_timeout \/ answer \/ wait_timeout \/ listen_on
    \/ Asserts \/ send_shutdown \/ stop_node

Next == Script \/ \E n \in Agent : Turn(n)

Spec == Init /\ [][Next]_vars
-----------------------------------------------------------------------------
(* Every workflow gets the messages it waits for and nothing it rules out, *)
(* whatever the order in which the threads take turns and the server walks *)
(* its maps; only a direct message may come before its receiver's TrackDna *)
(* or UntrackDna, which no workflow but multidna's send_test allows.       *)
WorkflowsPass ==
    /\ ~ server.poisoned
    /\ driver.result = "failed" => hurried /\ driver.test = "multidna_send"

(* A node is told nothing about a DNA it never tracked. *)
DnasApart ==
    \A n \in Agent : \A q \in {inbox[n], log[n]} : \A i \in DOMAIN q :
        "dna" \in DOMAIN q[i] => q[i].dna \in stores[n]
=============================================================================
