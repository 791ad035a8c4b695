-------------------------- MODULE NetworkRequests ---------------------------
(***************************************************************************)
(* How an instance asks the network for something (core/src/network).  A   *)
(* workflow dispatches an action and polls the network state for a result. *)
(* The action loop sends the message while it reduces the action, before   *)
(* it publishes the state that records the request.  The network thread    *)
(* handles answers at any time, against the published state.  Threads that *)
(* sleep dispatch the timeouts.  The network may lose anything.            *)
(*                                                                         *)
(* A fetch of an entry and a fetch of links have the same control and are  *)
(* one kind.  Requests with a timeout are recorded under a fresh id, the   *)
(* ones for a validation package under the address of the entry.           *)
(***************************************************************************)
EXTENDS Naturals, Sequences, FiniteSets

CONSTANTS
    Fetch,      \* requests for an entry or for links
    Custom,     \* direct messages of the application
    Package,    \* direct messages that ask for a validation package
    Address,    \* addresses of the entries whose packages are asked for
    Entry,      \* Entry[p] is the address that package request p is about
    Lossy,      \* whether sending may fail and messages may get lost
    None

ASSUME EntryAssumption == Entry \in [Package -> Address]
ASSUME LossyAssumption == Lossy \in BOOLEAN
(* The results of the three kinds are in three maps of the network state,  *)
(* and the ids of requests are no addresses of entries.                    *)
ASSUME KindsAssumption ==
    /\ Fetch \cap Custom = {}
    /\ (Fetch \cup Custom) \cap (Package \cup Address) = {}

VARIABLES
    chan,       \* the action channel
    next,       \* the network state that the action loop works on
    visible,    \* the network state that everyone else reads
    reducing,   \* TRUE from the reduction of an action to its publication
    asks,       \* requests under way to a peer
    answers,    \* answers under way back
    resolving,  \* answers whose connection the network thread is to resolve
    timers,     \* requests whose timeout thread sleeps
    pc,         \* "new", "asked" or "done" for each request
    dropped     \* answers for which no open connection was found

vars == <<chan, next, visible, reducing, asks, answers, resolving, timers,
          pc, dropped>>

Request == Fetch \cup Custom \cup Package
Timed == Fetch \cup Custom
Direct == Custom \cup Package

(* Under which key the result of a request is recorded. *)
Key(r) == IF r \in Package THEN Entry[r] ELSE r

(* What is recorded under a key, and the request whose action wrote it.    *)
(* "waiting" is a None that was inserted, "absent" the missing key.        *)
Result == {"absent", "waiting", "error", "timeout", "answer"}
              \X (Request \cup {None})
Absent == <<"absent", None>>

NetworkState ==
    [init : BOOLEAN,
     results : [Timed \cup Address -> Result],
     connections : SUBSET Direct]

NetworkStateNew ==
    [init |-> FALSE,
     results |-> [k \in Timed \cup Address |-> Absent],
     connections |-> {}]

Action ==
    [op : {"Ask", "Timeout", "Handle", "Resolve"}, r : Request]
        \cup [op : {"InitNetwork"}, r : {None}]

Dispatch(op, r) == Append(chan, [op |-> op, r |-> r])

Init ==
    /\ chan = <<[op |-> "InitNetwork", r |-> None]>>
    /\ next = NetworkStateNew
    /\ visible = NetworkStateNew
    /\ reducing = FALSE
    /\ asks = {} /\ answers = {} /\ resolving = {} /\ timers = {}
    /\ pc = [r \in Request |-> "new"]
    /\ dropped = {}

-----------------------------------------------------------------------------
(* The workflows and their timeouts *)

(* Faulty: the timeout thread starts before the request is dispatched. *)
AskTimeoutFirst(r) ==
    /\ pc[r] = "new"
    /\ pc' = [pc EXCEPT ![r] = "asked"]
    /\ chan' = IF r \in Timed
                 THEN Append(Dispatch("Timeout", r), [op |-> "Ask", r |-> r])
                 ELSE Dispatch("Ask", r)
    /\ UNCHANGED <<next, visible, reducing, asks, answers, resolving, timers,
                   dropped>>

(* get_entry, get_links, custom_send, get_validation_package: the action   *)
(* is dispatched, then the thread of the timeout starts.  There is none    *)
(* for a validation package.                                               *)
Ask(r) ==
    /\ pc[r] = "new"
    /\ pc' = [pc EXCEPT ![r] = "asked"]
    /\ chan' = Dispatch("Ask", r)
    /\ timers' = IF r \in Timed THEN timers \cup {r} ELSE timers
    /\ UNCHANGED <<next, visible, reducing, asks, answers, resolving, dropped>>

TimerFires(r) ==
    /\ r \in timers
    /\ timers' = timers \ {r}
    /\ chan' = Dispatch("Timeout", r)
    /\ UNCHANGED <<next, visible, reducing, asks, answers, resolving, pc,
                   dropped>>

(* When the future of the request resolves. *)
Ready(r) ==
    ~visible.init \/ visible.results[Key(r)][1] \notin {"absent", "waiting"}

Poll(r) ==
    /\ pc[r] = "asked" /\ Ready(r)
    /\ pc' = [pc EXCEPT ![r] = "done"]
    /\ UNCHANGED <<chan, next, visible, reducing, asks, answers, resolving,
                   timers, dropped>>

-----------------------------------------------------------------------------
(* The reducers.  Each gives the new state; sent tells whether sending     *)
(* worked, where the action sends something.                               *)

Record(s, k, what, r) == [s EXCEPT !.results[k] = <<what, r>>]

ReduceInit(s, sent) == [s EXCEPT !.init = sent]

ReduceFetch(s, r, sent) ==
    Record(s, r, IF sent THEN "waiting" ELSE "error", r)

(* The connection is recorded before the message is sent; that sending     *)
(* failed is only printed.                                                 *)
ReduceSendDirectMessage(s, r) ==
    IF s.init THEN [s EXCEPT !.connections = @ \cup {r}] ELSE s

(* The connection is recorded after the message was sent. *)
ReduceGetValidationPackage(s, r, sent) ==
    IF sent
      THEN [Record(s, Entry[r], "waiting", r)
              EXCEPT !.connections = @ \cup {r}]
      ELSE Record(s, Entry[r], "error", r)

ReduceAsk(s, r, sent) ==
    CASE r \in Fetch -> ReduceFetch(s, r, sent)
      [] r \in Custom -> ReduceSendDirectMessage(s, r)
      [] r \in Package -> ReduceGetValidationPackage(s, r, sent)

(* A fetch must be recorded and open. *)
ReduceGetTimeout(s, r) ==
    IF s.results[r][1] = "waiting" THEN Record(s, r, "timeout", r) ELSE s

(* A direct message must have no reply. *)
ReduceSendDirectMessageTimeout(s, r) ==
    IF s.results[r][1] = "absent" THEN Record(s, r, "timeout", r) ELSE s

(* Faulty: the timeout is recorded whatever was there. *)
ReduceTimeoutAlways(s, r) == Record(s, r, "timeout", r)

(* Faulty: the timeout closes the connection. *)
ReduceTimeoutCloses(s, r) ==
    [s EXCEPT !.connections = @ \ {r},
              !.results[r] = IF @[1] \in {"absent", "waiting"}
                               THEN <<"timeout", r>> ELSE @]

ReduceTimeout(s, r) ==
    IF r \in Fetch THEN ReduceGetTimeout(s, r)
    ELSE ReduceSendDirectMessageTimeout(s, r)

ReduceHandle(s, r) == Record(s, Key(r), "answer", r)

ReduceResolve(s, r) == [s EXCEPT !.connections = @ \ {r}]

(* One turn of the action loop up to the publication of the state. *)
Reduce ==
    /\ chan # <<>> /\ ~reducing
    /\ reducing' = TRUE
    /\ chan' = Tail(chan)
    /\ LET a == Head(chan) IN
       \E sent \in {next.init \/ a.op = "InitNetwork"}
                      \cup (IF Lossy THEN {FALSE} ELSE {}) :
         /\ next' = CASE a.op = "InitNetwork" -> ReduceInit(next, sent)
                      [] a.op = "Ask" -> ReduceAsk(next, a.r, sent)
                      [] a.op = "Timeout" -> ReduceTimeout(next, a.r)
                      [] a.op = "Handle" -> ReduceHandle(next, a.r)
                      [] a.op = "Resolve" -> ReduceResolve(next, a.r)
         /\ asks' = IF a.op = "Ask" /\ sent THEN asks \cup {a.r} ELSE asks
    /\ UNCHANGED <<visible, answers, resolving, timers, pc, dropped>>

Publish ==
    /\ reducing
    /\ reducing' = FALSE
    /\ visible' = next
    /\ UNCHANGED <<chan, next, asks, answers, resolving, timers, pc, dropped>>

-----------------------------------------------------------------------------
(* The peer and the network *)

Respond(r) ==
    /\ asks' = asks \ {r}
    /\ answers' = answers \cup {r}
    /\ UNCHANGED <<chan, next, visible, reducing, resolving, timers, pc,
                   dropped>>

(* handle_fetch_entry, handle_fetch_meta: what the peer has of the entry,  *)
(* or that it has nothing.                                                 *)
RespondFetch(r) == r \in asks \cap Fetch /\ Respond(r)

(* handle_send_message starts a workflow: what the receive callback gave,  *)
(* or the package, if the entry is on the peer's chain, or none.           *)
HandleCustomDirectMessage(r) == r \in asks \cap Custom /\ Respond(r)
RespondValidationPackageRequest(r) == r \in asks \cap Package /\ Respond(r)

(* The peer's handler and the workflow it starts send an answer. *)
Answer(r) ==
    \/ RespondFetch(r)
    \/ HandleCustomDirectMessage(r)
    \/ RespondValidationPackageRequest(r)

(* A message is lost, the peer does not answer, or the network reports a   *)
(* FailureResult, which the handler only logs.                             *)
Lose(r) ==
    /\ Lossy /\ r \in asks \cup answers
    /\ asks' = asks \ {r}
    /\ answers' = answers \ {r}
    /\ UNCHANGED <<chan, next, visible, reducing, resolving, timers, pc,
                   dropped>>

-----------------------------------------------------------------------------
(* The network thread *)

(* handle_fetch_entry_result and handle_fetch_meta_result dispatch the     *)
(* answer; handle_send_message_result does so if it finds the connection   *)
(* in the published state, and then resolves the connection.  One thread   *)
(* handles all answers, one after the other.                               *)
HandleResult(r) ==
    /\ r \in answers /\ resolving = {}
    /\ answers' = answers \ {r}
    /\ \/ /\ r \in Fetch
          /\ chan' = Dispatch("Handle", r)
          /\ UNCHANGED <<resolving, dropped>>
       \/ /\ r \in Direct /\ r \in visible.connections
          /\ chan' = Dispatch("Handle", r)
          /\ resolving' = {r}
          /\ UNCHANGED dropped
       \/ /\ r \in Direct /\ r \notin visible.connections
          /\ dropped' = dropped \cup {r}
          /\ UNCHANGED <<chan, resolving>>
    /\ UNCHANGED <<next, visible, reducing, asks, timers, pc>>

ResolveDirectConnection(r) ==
    /\ r \in resolving
    /\ resolving' = resolving \ {r}
    /\ chan' = Dispatch("Resolve", r)
    /\ UNCHANGED <<next, visible, reducing, asks, answers, timers, pc, dropped>>

-----------------------------------------------------------------------------
Next ==
    \/ Reduce
    \/ Publish
    \/ \E r \in Request :
         \/ Ask(r) \/ TimerFires(r) \/ Poll(r)
         \/ Answer(r) \/ Lose(r)
         \/ HandleResult(r) \/ ResolveDirectConnection(r)

Spec == Init /\ [][Next]_vars

(* The action loop, the sleeping threads, the network thread and the       *)
(* executor, whose futures wake themselves, keep running.  Nothing is      *)
(* assumed of the network.                                                 *)
Fairness ==
    /\ WF_vars(Reduce) /\ WF_vars(Publish)
    /\ \A r \in Request :
         /\ WF_vars(TimerFires(r)) /\ WF_vars(Poll(r))
         /\ WF_vars(HandleResult(r)) /\ WF_vars(ResolveDirectConnection(r))

FairSpec == Spec /\ Fairness

(* The peers answer as well.  With Lossy = FALSE no message is lost. *)
ReliableSpec == FairSpec /\ \A r \in Request : WF_vars(Answer(r))

-----------------------------------------------------------------------------
(* The variables have their types, and at most one turn of the loop is     *)
(* unpublished.                                                            *)
TypeOK ==
    /\ chan \in Seq(Action)
    /\ next \in NetworkState /\ visible \in NetworkState
    /\ reducing \in BOOLEAN
    /\ (~reducing => visible = next)
    /\ asks \subseteq Request /\ answers \subseteq Request
    /\ resolving \subseteq Direct
    /\ timers \subseteq Timed
    /\ pc \in [Request -> {"new", "asked", "done"}]
    /\ dropped \subseteq Direct

(* A request with a timeout returns, whatever the network does: the        *)
(* timeout is reduced after the request it ends, or an answer came first   *)
(* (reduce_get_entry_timeout and its siblings do nothing for a request     *)
(* they do not find).                                                      *)
TimedReturn == \A r \in Timed : (pc[r] = "asked") ~> (pc[r] = "done")

(* A validation package that the network thread took reaches the workflow  *)
(* that waits for it.  This needs that no other request is made for the    *)
(* same entry: reduce_get_validation_package overwrites its result.        *)
PackageReturns ==
    \A r \in Package :
        (\A q \in Package : Entry[q] = Entry[r] => q = r)
            => ((r \in resolving) ~> (pc[r] = "done"))

(* What answered a request with a timeout stays: neither a late timeout    *)
(* nor another action replaces it.                                         *)
AnswerStays ==
    [][\A r \in Timed :
           next.results[r][1] = "answer" => next'.results[r] = next.results[r]
      ]_vars

(* The network thread fails to find the connection of an answer only while *)
(* a turn of the loop is unpublished, the one that sent the message.       *)
DroppedOnlyUnpublished ==
    [][\A r \in dropped' \ dropped :
           reducing /\ r \in next.connections \ visible.connections]_vars

(* A request for a validation package resolves (get_validation_package     *)
(* "returns a future that resolves").                                      *)
PackageResolves ==
    \A r \in Package : (pc[r] = "asked") ~> (pc[r] = "done")
=============================================================================
