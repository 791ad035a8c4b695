------------------------------ MODULE IpcWorker ------------------------------
(***************************************************************************)
(* The network worker that talks to the n3h process: ipc_spawn waiting for *)
(* the process to print its bindings (net/src/ipc/spawn.rs), the websocket *)
(* transport with its handshakes, heartbeat and event queue                *)
(* (net/src/ipc/transport_wss), and IpcNetWorker on top of it, run by the  *)
(* thread of a NetConnectionThread.                                        *)
(*                                                                         *)
(* The thread is where its pc says: "spawn"; "connect" (entering           *)
(* wait_connect); "poll" (inside priv_process_stream_sockets); "events"    *)
(* (tick's loop over its events); "loop" (between two ticks); "close"      *)
(* (stop after its tick); or ended: "failed" (no worker was made),         *)
(* "panic", "stopped" and "stop_err" (what stop returned).                 *)
(***************************************************************************)
EXTENDS Integers, Sequences, FiniteSets, SequencesExt

CONSTANTS
    Bootstrap,   \* how many bootstrap nodes are configured
    CoreSends,   \* bound: how many messages the core sends
    MaxFaults    \* bound: how often a link, the process or a time limit fails

VARIABLES
    thread,      \* the thread: pc, who called poll, wait_connect and tick
    spawn,       \* ipc_spawn: what was printed, read and matched
    sockets,     \* stream_sockets, by transport id
    taken,       \* the sockets the poll in progress has still to process
    nId,         \* the last transport id given out
    eventQueue,  \* event_queue
    evtLst,      \* the events tick has still to handle
    worker,      \* the fields of IpcNetWorker
    announced,   \* how often the handler was told P2pReady
    readyRx,     \* does P2pNetwork::new still hold its receiver?
    core,        \* what the core sent, what is in the channel, may it go on
    link,        \* each connection: its state, the bytes each way
    child,       \* is the n3h process running?
    server,      \* what n3h answers to GetState
    delivered,   \* what n3h got, in order
    faults       \* how much failed so far

vars == <<thread, spawn, sockets, taken, nId, eventQueue, evtLst, worker, announced,
          readyRx, core, link, child, server, delivered, faults>>

talk == <<announced, readyRx, core>>
n3h == <<child, server, delivered>>

Ended == {"failed", "panic", "stopped", "stop_err"}
At(p) == thread.pc = p

Msg(t) == [type |-> t]
Data(n) == [type |-> "Json", n |-> n]
Result(s) == [type |-> "GetStateResult", state |-> s]

Fault == faults < MaxFaults /\ faults' = faults + 1

-----------------------------------------------------------------------------
(* ipc_spawn.  The process prints a binding line and a ready line for its  *)
(* pid, its ipc socket and its p2p socket; a read returns any number of    *)
(* half lines.                                                             *)

Lines == <<"PID", "PID-READY", "IPC-BINDING", "IPC-READY", "P2P-BINDING", "P2P-READY">>

\* the whole line is among the half lines a to b
Within(l, a, b) == LET k == CHOOSE j \in DOMAIN Lines : Lines[j] = l
                   IN a < 2 * k /\ 2 * k <= b

Kinds == {"PID", "IPC", "P2P"}
Ready(k) == CASE k = "PID" -> "PID-READY" [] k = "IPC" -> "IPC-READY" [] OTHER -> "P2P-READY"
Binding(k) == CASE k = "PID" -> "PID" [] k = "IPC" -> "IPC-BINDING" [] OTHER -> "P2P-BINDING"

\* Everything read so far is searched for each ready line, and at that for the binding.
Found(old, n) ==
    [k \in Kinds |-> IF old.found[k] = "no" /\ Within(Ready(k), 0, n)
                     THEN IF Within(Binding(k), 0, n) THEN "bound" ELSE "unbound"
                     ELSE old.found[k]]

Output ==
    /\ At("spawn") /\ child = "running" /\ spawn.printed < 2 * Len(Lines)
    /\ spawn' = [spawn EXCEPT !.printed = @ + 1]
    /\ UNCHANGED <<thread, sockets, taken, nId, eventQueue, evtLst, worker, link, faults,
                   talk, n3h>>

Goto(p) == thread' = [thread EXCEPT !.pc = p]

\* One turn of the loop that reads stdout.
Read ==
    /\ At("spawn")
    /\ \E n \in spawn.data + 1 .. spawn.printed :
        LET found == Found(spawn, n) IN
        /\ spawn' = [spawn EXCEPT !.data = n, !.found = found]
        /\ IF found["IPC"] # "no" /\ found["P2P"] # "no"
           THEN Goto("connect") ELSE UNCHANGED thread
    /\ UNCHANGED <<sockets, taken, nId, eventQueue, evtLst, worker, link, faults, talk,
                   n3h>>

\* ipc_spawn() timed out: the process is left as it is.
SpawnTimeout ==
    /\ At("spawn")
    /\ IF child = "running" THEN Fault ELSE UNCHANGED faults
    /\ Goto("failed")
    /\ UNCHANGED <<spawn, sockets, taken, nId, eventQueue, evtLst, worker, link, talk, n3h>>

-----------------------------------------------------------------------------
(* The transport.  A stream is Connecting, TlsMidHandshake, TlsReady,      *)
(* WssMidHandshake or Ready, and None is one that is no more tracked.  Its *)
(* age is 0, 1 (nothing came for DEFAULT_HEARTBEAT_MS) or 2 (for           *)
(* DEFAULT_HEARTBEAT_WAIT_MS).                                             *)

Info(st, age, q) == [st |-> st, age |-> age, queue |-> q]

\* send_all: each tracked socket queues the messages; without one they are gone.
send_all(sk, msgs) == [i \in DOMAIN sk |-> [sk[i] EXCEPT !.queue = @ \o msgs]]

Without(sk, I) == [j \in DOMAIN sk \ I |-> sk[j]]
Set(sk, i, info) == [j \in DOMAIN sk \cup {i} |-> IF j = i THEN info ELSE sk[j]]

Failing(i) == link[i].st \in {"closed", "broken"}

\* What one turn of a handshake may give: the stream, and did it fail?  A handshake that
\* would block is polled again, and goes on once the peer has answered.
Handshake(i, mid, done) ==
    (IF link[i].st = "ok" THEN {<<done, FALSE>>} ELSE {})
        \cup (IF link[i].st = "hung" \/ (sockets[i].st # mid /\ link[i].st = "ok")
              THEN {<<mid, FALSE>>} ELSE {})
        \cup (IF Failing(i) THEN {<<"None", TRUE>>} ELSE {})

priv_tls_handshake(i) == Handshake(i, "TlsMidHandshake", "TlsReady")
priv_ws_handshake(i) == Handshake(i, "WssMidHandshake", "Ready")

\* What priv_process_socket may do with a stream that is not Ready.
Building(i) ==
    IF sockets[i].st \in {"Connecting", "TlsMidHandshake"}
    THEN priv_tls_handshake(i) ELSE priv_ws_handshake(i)

\* The tick ends, with or without an error: stop goes on to close_all.
TickReturns == IF thread.stopping THEN "close" ELSE "loop"

\* wait_connect returns an error: the constructor fails, the tick ends.
ConnectFails == IF thread.start THEN "failed" ELSE TickReturns

\* A heartbeat that cannot be written ends the poll: it and the sockets that were taken
\* out with it are lost, the events stay queued.
PingFails(evs) ==
    /\ sockets' = Without(sockets, taken)
    /\ taken' = {}
    /\ eventQueue' = eventQueue \o evs
    /\ Goto(IF thread.poll = "wait" THEN ConnectFails ELSE TickReturns)
    /\ evtLst' = IF thread.poll = "wait" THEN <<>> ELSE evtLst

Ping(i, l) == IF link[i].st = "ok" /\ \A k \in DOMAIN l.down : l.down[k] # Msg("Ping")
              THEN [l EXCEPT !.down = Append(@, Msg("Ping"))] ELSE l

\* The rest of priv_process_stream_sockets for a socket: it is closed, or it may be sent
\* a heartbeat and is kept.  The limit of DEFAULT_HEARTBEAT_WAIT_MS is tested only where
\* DEFAULT_HEARTBEAT_MS has not passed.
Kept(i, info, err, evs, l) ==
    \/ /\ info.st = "None"
       /\ sockets' = Without(sockets, {i})
       /\ eventQueue' = eventQueue \o evs \o (IF err THEN <<Msg("TransportError")>> ELSE <<>>)
                            \o <<Msg("Close")>>
       /\ taken' = taken \ {i}
       /\ link' = [link EXCEPT ![i] = [st |-> "closed", up |-> <<>>, down |-> l.down]]
       /\ UNCHANGED <<thread, evtLst>>
    \/ /\ info.st # "None"
       /\ info.age > 0 /\ info.st = "Ready" => ~Failing(i) \/ link[i].st = "closed"
       /\ sockets' = Set(sockets, i, info)
       /\ eventQueue' = eventQueue \o evs
       /\ taken' = taken \ {i}
       /\ link' = [link EXCEPT ![i] = IF info.age > 0 /\ info.st = "Ready" THEN Ping(i, l) ELSE l]
       /\ UNCHANGED <<thread, evtLst>>
    \/ /\ info.st = "Ready" /\ info.age > 0 /\ Failing(i)
       /\ PingFails(evs)
       /\ link' = [link EXCEPT ![i] = [l EXCEPT !.st = "closed"]]

Handshaken(i) ==
    /\ sockets[i].st # "Ready"
    /\ \E r \in Building(i) :
        LET age == IF sockets[i].st \in {"Connecting", "TlsReady"} THEN 0 ELSE sockets[i].age
        IN Kept(i, Info(r[1], age, sockets[i].queue), r[2],
                IF r[1] = "Ready" THEN <<[type |-> "Connect", id |-> i]>> ELSE <<>>, link[i])

\* A Ready stream writes its queue and reads one message.  A write that fails loses the
\* rest of the queue; a close of the peer is no error.
Exchanged(i) ==
    LET l == link[i]
        written == [l EXCEPT !.down = IF l.st = "ok" THEN @ \o sockets[i].queue ELSE @]
    IN
    /\ sockets[i].st = "Ready"
    /\ \/ /\ l.st = "broken" \/ (l.st = "closed" /\ sockets[i].queue # <<>>)
          /\ Kept(i, Info("None", 0, <<>>), TRUE, <<>>, l)
       \/ /\ l.st = "closed" /\ l.up = <<>>
          /\ Kept(i, Info("None", 0, <<>>), FALSE, <<>>, l)
       \/ /\ l.st = "hung" \/ (l.st = "ok" /\ l.up = <<>>)
          /\ Kept(i, Info("Ready", sockets[i].age, <<>>), FALSE, <<>>, written)
       \/ /\ l.st \in {"ok", "closed"} /\ l.up # <<>>
          /\ Kept(i, Info("Ready", 0, <<>>), FALSE,
                  IF Head(l.up) = Msg("Pong") THEN <<>>
                  ELSE <<[type |-> "Message", msg |-> Head(l.up)]>>,
                  [written EXCEPT !.up = Tail(@)])

priv_process_socket(i) ==
    /\ At("poll") /\ i \in taken
    /\ Handshaken(i) \/ Exchanged(i)
    /\ UNCHANGED <<spawn, nId, worker, faults, talk, n3h>>

\* wait_connect connects, and polls.
StartConnect ==
    /\ At("connect") /\ child = "running"
    /\ nId' = nId + 1
    /\ sockets' = Set(sockets, nId + 1, Info("Connecting", 0, <<>>))
    /\ taken' = DOMAIN sockets'
    /\ link' = Set(link, nId + 1, [st |-> "ok", up |-> <<>>, down |-> <<>>])
    /\ thread' = [thread EXCEPT !.pc = "poll", !.poll = "wait"]
    /\ UNCHANGED <<spawn, eventQueue, evtLst, worker, faults, talk, n3h>>

\* The connection is refused: nothing is tracked, and the rest of tick's events is dropped.
Refused ==
    /\ At("connect")
    /\ IF child = "running" THEN Fault ELSE UNCHANGED faults
    /\ Goto(ConnectFails)
    /\ evtLst' = <<>>
    /\ UNCHANGED <<spawn, sockets, taken, nId, eventQueue, worker, link, talk, n3h>>

Polled == At("poll") /\ taken = {} /\ eventQueue' = <<>>

\* The poll of wait_connect gave the Connect event; its other events are dropped.
Connected ==
    /\ Polled /\ thread.poll = "wait"
    /\ \E k \in DOMAIN eventQueue : eventQueue[k] = [type |-> "Connect", id |-> nId]
    /\ worker' = [worker EXCEPT !.id = nId]
    /\ thread' = [thread EXCEPT !.pc = IF thread.start THEN "loop" ELSE "events", !.start = FALSE]
    /\ UNCHANGED <<spawn, sockets, taken, nId, evtLst, link, faults, talk, n3h>>

\* The loop polls again; on a link that stays silent it does so until the time is out.
PollAgain ==
    /\ Polled /\ thread.poll = "wait"
    /\ \A k \in DOMAIN eventQueue : eventQueue[k] # [type |-> "Connect", id |-> nId]
    /\ nId \in DOMAIN sockets /\ link[nId].st # "hung"
    /\ taken' = DOMAIN sockets
    /\ UNCHANGED <<thread, spawn, sockets, nId, evtLst, worker, link, faults, talk, n3h>>

Unanswered == \A k \in DOMAIN eventQueue : eventQueue[k] # [type |-> "Connect", id |-> nId]

\* The attempt timed out.  Its socket stays tracked, if it is still there.
ConnectTimeout ==
    /\ Polled /\ thread.poll = "wait"
    /\ Unanswered
    /\ IF nId \in DOMAIN sockets /\ link[nId].st = "ok" THEN Fault ELSE UNCHANGED faults
    /\ Goto(ConnectFails)
    /\ evtLst' = <<>>
    /\ UNCHANGED <<spawn, sockets, taken, nId, worker, link, talk, n3h>>

-----------------------------------------------------------------------------
(* The worker.                                                             *)

\* tick asks for the state until it is "ready", twice per second; here, whenever no
\* request or answer is under way.
priv_request_state ==
    /\ worker.state # "ready"
    /\ \A i \in DOMAIN sockets :
        /\ \A k \in DOMAIN sockets[i].queue : sockets[i].queue[k] # Msg("GetState")
        /\ \A k \in DOMAIN link[i].down : link[i].down[k] # Msg("GetState")
        /\ \A k \in DOMAIN link[i].up : link[i].up[k].type # "GetStateResult"

Asked == IF priv_request_state THEN <<Msg("GetState")>> ELSE <<>>

\* A turn of the thread: a message of the core is passed on, and the tick begins.
Tick ==
    /\ At("loop") /\ core.go
    /\ \/ /\ core.channel # <<>>
          /\ sockets' = send_all(sockets, <<Head(core.channel)>> \o Asked)
          /\ core' = [core EXCEPT !.channel = Tail(@)]
       \/ /\ core.channel = <<>>
          /\ sockets' = send_all(sockets, Asked)
          /\ UNCHANGED core
    /\ taken' = DOMAIN sockets
    /\ thread' = [thread EXCEPT !.pc = "poll", !.poll = "tick"]
    /\ UNCHANGED <<spawn, nId, eventQueue, evtLst, worker, announced, readyRx, link,
                   faults, n3h>>

TickPolled ==
    /\ Polled /\ thread.poll = "tick"
    /\ evtLst' = eventQueue
    /\ Goto("events")
    /\ UNCHANGED <<spawn, sockets, taken, nId, worker, link, faults, talk, n3h>>

TickDone ==
    /\ At("events") /\ evtLst = <<>>
    /\ Goto(TickReturns)
    /\ UNCHANGED <<spawn, sockets, taken, nId, eventQueue, evtLst, worker, link, faults,
                   talk, n3h>>

\* the links of closed sockets, their own close sent
Closed(I) == [i \in DOMAIN link |-> IF i \in I THEN [link[i] EXCEPT !.st = "closed", !.up = <<>>]
                                    ELSE link[i]]

(* Faulty: the connection is not closed before the next one is made. *)
ReconnectOnly ==
    /\ Goto("connect")
    /\ evtLst' = Tail(evtLst)
    /\ UNCHANGED <<sockets, link>>

\* TransportError and Close: the current connection is closed, and a new one is made.
Reconnect ==
    /\ sockets' = Without(sockets, {worker.id})
    /\ link' = Closed({worker.id} \cap DOMAIN sockets)
    /\ \/ /\ Goto("connect")
          /\ evtLst' = Tail(evtLst)
       \/ /\ worker.id \in DOMAIN sockets /\ sockets[worker.id].st = "Ready" /\ Failing(worker.id)
          /\ Goto(TickReturns)
          /\ evtLst' = <<>>

HandleClosed ==
    /\ At("events") /\ evtLst # <<>>
    /\ Head(evtLst).type \in {"TransportError", "Close"}
    /\ Reconnect
    /\ UNCHANGED <<spawn, taken, nId, eventQueue, worker, faults, talk, n3h>>

HandleConnect ==
    /\ At("events") /\ evtLst # <<>> /\ Head(evtLst).type = "Connect"
    /\ evtLst' = Tail(evtLst)
    /\ UNCHANGED <<thread, spawn, sockets, taken, nId, eventQueue, worker, link, faults,
                   talk, n3h>>

priv_handle_state(s) == IF s = "need_config" THEN <<Msg("GetDefaultConfig")>> ELSE <<>>

priv_handle_default_config(w) ==
    IF w.state = "need_config" THEN <<Msg("SetConfig")>> ELSE <<>>

\* A message that is no news of the state, or the news that changes it.
Known(m) ==
    CASE m.type = "GetStateResult" -> [worker EXCEPT !.state = m.state]
      [] m.type = "Terminated" -> [worker EXCEPT !.ready = FALSE, !.state = "terminated"]
      [] OTHER -> worker

Answer(m) ==
    CASE m.type = "GetStateResult" -> priv_handle_state(m.state)
      [] m.type = "DefaultConfig" -> priv_handle_default_config(worker)
      [] OTHER -> <<>>

priv_send_connects(w) == [k \in 1 .. w.nodes |-> Data(0)]

Announces(w) == ~w.ready /\ w.state = "ready"

\* A message: init and config, the handler, Terminated, and the network becoming ready.
HandleMessage ==
    /\ At("events") /\ evtLst # <<>> /\ Head(evtLst).type = "Message"
    /\ LET m == Head(evtLst).msg
           w == Known(m)
           open == IF m.type = "Terminated" THEN <<>> ELSE send_all(sockets, Answer(m))
       IN
       /\ link' = IF m.type = "Terminated" THEN Closed(DOMAIN sockets) ELSE link
       /\ IF Announces(w)
          THEN /\ worker' = [w EXCEPT !.ready = TRUE, !.nodes = 0]
               /\ announced' = announced + 1
               /\ sockets' = send_all(open, priv_send_connects(w))
               /\ IF readyRx THEN UNCHANGED thread ELSE Goto("panic")
          ELSE /\ worker' = w
               /\ sockets' = open
               /\ UNCHANGED <<announced, thread>>
    /\ evtLst' = Tail(evtLst)
    /\ UNCHANGED <<spawn, taken, nId, eventQueue, readyRx, core, faults, n3h>>

\* stop: nothing to do after Terminated; else Shutdown is queued and one tick made.
Stop ==
    /\ At("loop") /\ ~core.go
    /\ IF worker.state = "terminated"
       THEN Goto("stopped") /\ UNCHANGED <<sockets, taken>>
       ELSE /\ sockets' = send_all(sockets, <<Msg("Shutdown")>> \o Asked)
            /\ taken' = DOMAIN sockets
            /\ thread' = [thread EXCEPT !.pc = "poll", !.poll = "tick", !.stopping = TRUE]
    /\ UNCHANGED <<spawn, nId, eventQueue, evtLst, worker, link, faults, talk, n3h>>

\* The shutdown closure of ipc_spawn ends a process this worker started.
Kills == spawn.mine

close_all ==
    /\ At("close")
    /\ sockets' = <<>>
    /\ link' = Closed(DOMAIN sockets)
    /\ \/ Goto("stop_err") /\ UNCHANGED child
          /\ \E i \in DOMAIN sockets : sockets[i].st = "Ready" /\ Failing(i)
       \/ Goto("stopped") /\ child' = IF Kills THEN "gone" ELSE child
    /\ UNCHANGED <<spawn, taken, nId, eventQueue, evtLst, worker, server, delivered,
                   faults, talk>>

-----------------------------------------------------------------------------
(* The core, and P2pNetwork::new, which waits for P2pReady.                *)

NewReturns ==
    /\ readyRx /\ ~At("failed")
    /\ IF announced > 0 THEN UNCHANGED faults ELSE Fault
    /\ readyRx' = FALSE
    /\ UNCHANGED <<thread, spawn, sockets, taken, nId, eventQueue, evtLst, worker,
                   announced, core, link, n3h>>

CoreSend ==
    /\ ~readyRx /\ announced > 0 /\ core.go /\ core.sent < CoreSends
    /\ core' = [core EXCEPT !.sent = @ + 1, !.channel = Append(@, Data(core.sent + 1))]
    /\ UNCHANGED <<thread, spawn, sockets, taken, nId, eventQueue, evtLst, worker,
                   announced, readyRx, link, faults, n3h>>

CoreStop ==
    /\ ~readyRx /\ core.go /\ thread.pc \notin Ended
    /\ core' = [core EXCEPT !.go = FALSE]
    /\ UNCHANGED <<thread, spawn, sockets, taken, nId, eventQueue, evtLst, worker,
                   announced, readyRx, link, faults, n3h>>

-----------------------------------------------------------------------------
(* The n3h process and the links.                                          *)

\* n3h handles a message: what it answers, its state after it.
Serve(i) ==
    /\ child = "running" /\ link[i].st = "ok" /\ link[i].down # <<>>
    /\ LET m == Head(link[i].down)
           answers == CASE m.type = "GetState" -> <<Result(server)>>
                        [] m.type = "GetDefaultConfig" -> <<Msg("DefaultConfig")>>
                        [] m.type = "Ping" -> <<Msg("Pong")>>
                        [] m.type = "Shutdown" -> <<Msg("Terminated")>>
                        [] OTHER -> <<>>
       IN
       /\ link' = [link EXCEPT ![i] = [st |-> IF m.type = "Shutdown" THEN "closed" ELSE "ok",
                                       up |-> @.up \o answers, down |-> Tail(@.down)]]
       /\ server' = IF m.type = "SetConfig" THEN "ready" ELSE server
       /\ child' = IF m.type = "Shutdown" THEN "gone" ELSE child
       /\ delivered' = IF m.type = "Json" THEN Append(delivered, m.n) ELSE delivered
    /\ UNCHANGED <<thread, spawn, sockets, taken, nId, eventQueue, evtLst, worker, faults,
                   talk>>

\* n3h has something of the network for the core.
ServerSends(i) ==
    /\ child = "running" /\ server = "ready" /\ link[i].st = "ok" /\ link[i].up = <<>>
    /\ link' = [link EXCEPT ![i].up = <<Msg("Json")>>]
    /\ UNCHANGED <<thread, spawn, sockets, taken, nId, eventQueue, evtLst, worker, talk, n3h, faults>>

LinkFails(i) ==
    /\ Fault
    /\ i \in DOMAIN sockets /\ link[i].st = "ok"
    /\ \E st \in {"closed", "broken", "hung"} :
        link' = [link EXCEPT ![i] = [st |-> st, up |-> IF st = "closed" THEN @.up ELSE <<>>,
                                     down |-> <<>>]]
    /\ UNCHANGED <<thread, spawn, sockets, taken, nId, eventQueue, evtLst, worker, talk,
                   n3h>>

ProcessDies ==
    /\ Fault
    /\ child = "running"
    /\ child' = "gone"
    /\ link' = [i \in DOMAIN link |-> [link[i] EXCEPT !.st = IF @ = "ok" THEN "closed" ELSE @,
                                                      !.down = <<>>]]
    /\ UNCHANGED <<thread, spawn, sockets, taken, nId, eventQueue, evtLst, worker, server,
                   delivered, talk>>

\* Time passes on a link that carries nothing.
Silence(i) ==
    /\ i \in DOMAIN sockets /\ i \notin taken /\ sockets[i].age < 2
    /\ link[i].up = <<>>
    /\ \/ link[i].st = "hung" /\ UNCHANGED faults
       \/ link[i].st # "hung" /\ sockets[i].age = 0 /\ Fault
    /\ sockets' = [sockets EXCEPT ![i].age = @ + 1]
    /\ UNCHANGED <<thread, spawn, taken, nId, eventQueue, evtLst, worker, link, talk, n3h>>

-----------------------------------------------------------------------------
Init ==
    /\ \E mine \in BOOLEAN :
        /\ spawn = [printed |-> 0, data |-> 0, found |-> [k \in Kinds |-> "no"], mine |-> mine]
        /\ thread = [pc |-> IF mine THEN "spawn" ELSE "connect", poll |-> "wait",
                     start |-> TRUE, stopping |-> FALSE]
        /\ server \in IF mine THEN {"need_config"} ELSE {"need_config", "ready"}
    /\ sockets = <<>>
    /\ taken = {}
    /\ nId = 0
    /\ eventQueue = <<>>
    /\ evtLst = <<>>
    /\ worker = [id |-> 0, state |-> "undefined", ready |-> FALSE, nodes |-> Bootstrap]
    /\ announced = 0
    /\ readyRx = TRUE
    /\ core = [sent |-> 0, channel |-> <<>>, go |-> TRUE]
    /\ link = <<>>
    /\ child = "running"
    /\ delivered = <<>>
    /\ faults = 0

Thread ==
    \/ Read \/ SpawnTimeout
    \/ StartConnect \/ Refused \/ Connected \/ PollAgain \/ ConnectTimeout
    \/ \E i \in taken : priv_process_socket(i)
    \/ Tick \/ TickPolled \/ TickDone
    \/ HandleClosed \/ HandleConnect \/ HandleMessage
    \/ Stop \/ close_all

Outside ==
    \/ Output
    \/ NewReturns \/ CoreSend \/ CoreStop
    \/ \E i \in DOMAIN link : Serve(i) \/ ServerSends(i) \/ LinkFails(i) \/ Silence(i)
    \/ ProcessDies

Next == Thread \/ Outside

Spec == Init /\ [][Next]_vars

\* The thread runs, time passes on it, and n3h prints and answers.
FairSpec == Spec /\ WF_vars(Thread) /\ WF_vars(Output \/ \E i \in DOMAIN link : Serve(i))

-----------------------------------------------------------------------------
(* A message of the core reaches n3h at most once, and in the order the    *)
(* core sent them, after the bootstrap connects, however often the         *)
(* connection breaks: tick closes the current connection before it makes   *)
(* the next, for the two events (TransportError and Close) of one failure  *)
(* too, and send_all writes to every tracked socket.                       *)
InOrderOnce == \A a, b \in DOMAIN delivered : a < b => delivered[a] < delivered[b]

(* The handler hears P2pReady at most once, whatever states n3h reports    *)
(* and however often it is reconnected: P2pNetwork::new drops its receiver *)
(* after the first, and the handler of a second one would panic in the     *)
(* worker's thread.                                                        *)
ReadyOnce == announced <= 1

(* ipc_spawn takes no ready line for its word before it has the binding    *)
(* printed ahead of it, whatever pieces the output is read in.             *)
BindingsKnown == \A k \in Kinds : spawn.found[k] # "unbound"

(* When stop returns without an error no socket is tracked, and a process  *)
(* that was spawned is gone, even if its last tick reconnected.            *)
StoppedCleanly ==
    thread.pc = "stopped" => sockets = <<>> /\ (spawn.mine => child = "gone")

(* A connection nothing came from for DEFAULT_HEARTBEAT_WAIT_MS is closed: *)
(* "when should we close a connection due to not receiving remote msgs".   *)
(* The branch that would do it is behind the test for the shorter          *)
(* DEFAULT_HEARTBEAT_MS and is never taken.                                *)
SilentDropped ==
    At("events") => \A i \in DOMAIN sockets : sockets[i].st = "Ready" => sockets[i].age < 2

Lost == At("loop") /\ sockets = <<>> /\ eventQueue = <<>>
Hung == \E i \in DOMAIN sockets : link[i].st = "hung"
Announced == announced > 0 \/ thread.pc \in Ended \/ ~core.go \/ Lost \/ Hung

(* The network becomes ready: the state is asked for and the configuration *)
(* passed back until n3h reports "ready", over as many connections as that *)
(* takes; unless no connection is left, or one that n3h is silent on.      *)
BecomesReady == []<>Announced

(* stop returns: the thread ends once it is told to, even when its last    *)
(* tick finds the connection closed and waits for another.                 *)
StopReturns == []<>(core.go \/ thread.pc \in Ended)
=============================================================================
