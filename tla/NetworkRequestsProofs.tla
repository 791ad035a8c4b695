----------------------- MODULE NetworkRequestsProofs ------------------------
(***************************************************************************)
(* Proofs about NetworkRequests, for every set of requests and addresses,  *)
(* with and without losses.                                                *)
(*                                                                         *)
(* Behind both action properties is that a request is in one place at a    *)
(* time: its action in the channel, then its message to the peer, then the *)
(* answer, then what the network thread does with it.                      *)
(***************************************************************************)
EXTENDS NetworkRequests, SequenceTheorems, TLAPS

(* An action about request r is in the channel. *)
Queued(op, r) == \E k \in 1 .. Len(chan) : chan[k].op = op /\ chan[k].r = r

(* No request is dispatched twice. *)
AskedOnce ==
    \A j, k \in 1 .. Len(chan) :
        chan[j].op = "Ask" /\ chan[k].op = "Ask" /\ chan[j].r = chan[k].r => j = k

(* The network thread has, or had, the answer to r. *)
Handled(r) == r \in resolving \/ Queued("Handle", r) \/ Queued("Resolve", r)

OnePlace ==
    \A r \in Request :
        /\ pc[r] = "new" => ~Queued("Ask", r)
        /\ pc[r] = "new" \/ Queued("Ask", r) => r \notin asks \cup answers /\ ~Handled(r)
        /\ r \in asks => r \notin answers
        /\ r \in asks \cup answers => ~Handled(r)

(* While a message or its answer is under way the connection is recorded.  *)
ConnectionKept ==
    \A r \in Direct : r \in asks \cup answers => r \in next.connections

(* A request has no answer before its action is reduced, and an answer is  *)
(* recorded with the request that it is for.                               *)
AnswersLate ==
    \A r \in Timed :
        /\ pc[r] = "new" \/ Queued("Ask", r) => next.results[r][1] # "answer"
        /\ next.results[r][1] = "answer" => next.results[r] = <<"answer", r>>

(* Only requests with a timeout time out. *)
TimeoutsTimed == \A k \in 1 .. Len(chan) : chan[k].op = "Timeout" => chan[k].r \in Timed

RequestInv ==
    TypeOK /\ TimeoutsTimed /\ AskedOnce /\ OnePlace /\ ConnectionKept /\ AnswersLate

-----------------------------------------------------------------------------
(* What the channel holds after an action was dispatched or taken.         *)

LEMMA Dispatching ==
    ASSUME NEW A, chan \in Seq(A), NEW op, NEW r, [op |-> op, r |-> r] \in A,
           chan' = Dispatch(op, r)
    PROVE  /\ chan' \in Seq(A)
           /\ Len(chan) \in Nat /\ Len(chan') = Len(chan) + 1
           /\ \A k \in 1 .. Len(chan) : chan'[k] = chan[k]
           /\ chan'[Len(chan) + 1] = [op |-> op, r |-> r]
BY AppendProperties, LenProperties DEF Dispatch

LEMMA QueuedAfterDispatch ==
    ASSUME chan \in Seq(Action), NEW op, NEW r, [op |-> op, r |-> r] \in Action,
           chan' = Dispatch(op, r), NEW o, NEW q
    PROVE  Queued(o, q)' <=> Queued(o, q) \/ (o = op /\ q = r)
<1>1. /\ Len(chan) \in Nat /\ Len(chan') = Len(chan) + 1
      /\ \A k \in 1 .. Len(chan) : chan'[k] = chan[k]
      /\ chan'[Len(chan) + 1] = [op |-> op, r |-> r]
  BY Dispatching
<1>2. 1 .. Len(chan') = 1 .. Len(chan) \cup {Len(chan) + 1}
  BY <1>1
<1> QED
  BY <1>1, <1>2 DEF Queued

LEMMA Taking ==
    ASSUME chan \in Seq(Action), chan # <<>>, chan' = Tail(chan)
    PROVE  /\ Head(chan) \in Action /\ Head(chan) = chan[1]
           /\ chan' \in Seq(Action)
           /\ Len(chan) \in Nat \ {0} /\ Len(chan') = Len(chan) - 1
           /\ \A k \in 1 .. Len(chan') : chan'[k] = chan[k + 1]
BY HeadTailProperties, LenProperties, EmptySeq

LEMMA QueuedAfterTaking ==
    ASSUME chan \in Seq(Action), chan # <<>>, chan' = Tail(chan), NEW o, NEW q
    PROVE  /\ Queued(o, q)' => Queued(o, q)
           /\ Queued(Head(chan).op, Head(chan).r)
           /\ AskedOnce /\ Head(chan).op = "Ask" /\ Head(chan).r = q => ~Queued("Ask", q)'
<1>1. /\ Head(chan) = chan[1]
      /\ Len(chan) \in Nat \ {0} /\ Len(chan') = Len(chan) - 1
      /\ \A k \in 1 .. Len(chan') : chan'[k] = chan[k + 1]
  BY Taking
<1>2. /\ 1 \in 1 .. Len(chan)
      /\ \A k \in 1 .. Len(chan') : k + 1 \in 1 .. Len(chan) /\ k + 1 # 1
  BY <1>1
<1> QED
  BY <1>1, <1>2 DEF Queued, AskedOnce
-----------------------------------------------------------------------------
(* What the reducers do to the network state.                              *)

Kinds == {"absent", "waiting", "error", "timeout", "answer"}

LEMMA Recording ==
    ASSUME NEW s \in NetworkState, NEW k \in Timed \cup Address, NEW what \in Kinds,
           NEW r \in Request
    PROVE  /\ Record(s, k, what, r) \in NetworkState
           /\ Record(s, k, what, r).init = s.init
           /\ Record(s, k, what, r).connections = s.connections
           /\ Record(s, k, what, r).results[k] = <<what, r>>
           /\ \A q \in Timed \cup Address : q # k => Record(s, k, what, r).results[q] = s.results[q]
BY DEF Record, NetworkState, Result, Kinds

LEMMA AskType ==
    ASSUME NEW s \in NetworkState, NEW r \in Request, NEW sent \in BOOLEAN, sent => s.init
    PROVE  /\ ReduceAsk(s, r, sent) \in NetworkState
           /\ s.connections \subseteq ReduceAsk(s, r, sent).connections
           /\ sent /\ r \in Direct => r \in ReduceAsk(s, r, sent).connections
           /\ \A q \in Timed : q # r => ReduceAsk(s, r, sent).results[q] = s.results[q]
           /\ r \in Timed => \/ ReduceAsk(s, r, sent).results[r] = s.results[r]
                             \/ ReduceAsk(s, r, sent).results[r][1] # "answer"
<1>1. CASE r \in Fetch
  <2> DEFINE what == IF sent THEN "waiting" ELSE "error"
  <2>1. ReduceAsk(s, r, sent) = Record(s, r, what, r)
    BY <1>1, KindsAssumption DEF ReduceAsk, ReduceFetch
  <2>2. what \in Kinds /\ what # "answer" /\ r \notin Direct /\ r \in Timed
    BY <1>1, KindsAssumption DEF Kinds, Direct, Timed
  <2> HIDE DEF what
  <2>3. /\ Record(s, r, what, r) \in NetworkState
        /\ Record(s, r, what, r).connections = s.connections
        /\ Record(s, r, what, r).results[r] = <<what, r>>
        /\ \A q \in Timed \cup Address : q # r => Record(s, r, what, r).results[q] = s.results[q]
    BY <2>2, Recording
  <2> QED
    BY <2>1, <2>2, <2>3
<1>2. CASE r \in Custom
  <2>1. ReduceAsk(s, r, sent) = ReduceSendDirectMessage(s, r)
    BY <1>2, KindsAssumption DEF ReduceAsk
  <2> QED
    BY <1>2, <2>1 DEF ReduceSendDirectMessage, NetworkState, Direct
<1>3. CASE r \in Package
  <2>1. /\ ReduceAsk(s, r, sent) = ReduceGetValidationPackage(s, r, sent)
        /\ r \notin Timed
        /\ Entry[r] \in Address /\ Entry[r] \notin Timed
    BY <1>3, KindsAssumption, EntryAssumption DEF ReduceAsk, Timed
  <2>2. ASSUME NEW what \in Kinds
        PROVE  /\ Record(s, Entry[r], what, r) \in NetworkState
               /\ Record(s, Entry[r], what, r).connections = s.connections
               /\ \A q \in Timed : Record(s, Entry[r], what, r).results[q] = s.results[q]
    BY <2>1, Recording
  <2>3. "waiting" \in Kinds /\ "error" \in Kinds /\ r \in Direct
    BY <1>3 DEF Kinds, Direct
  <2>4. CASE sent
    <3> DEFINE w == Record(s, Entry[r], "waiting", r)
    <3>1. ReduceAsk(s, r, sent) = [w EXCEPT !.connections = @ \cup {r}]
      BY <2>1, <2>4 DEF ReduceGetValidationPackage
    <3>2. /\ w \in NetworkState /\ w.connections = s.connections
          /\ \A q \in Timed : w.results[q] = s.results[q]
      BY <2>2, <2>3
    <3> HIDE DEF w
    <3> QED
      BY <2>1, <2>3, <3>1, <3>2 DEF NetworkState
  <2>5. CASE ~sent
    <3>1. ReduceAsk(s, r, sent) = Record(s, Entry[r], "error", r)
      BY <2>1, <2>5 DEF ReduceGetValidationPackage
    <3> QED
      BY <2>1, <2>2, <2>3, <2>5, <3>1
  <2> QED
    BY <2>4, <2>5
<1> QED
  BY <1>1, <1>2, <1>3 DEF Request

LEMMA TimeoutType ==
    ASSUME NEW s \in NetworkState, NEW r \in Timed
    PROVE  /\ ReduceTimeout(s, r) \in NetworkState
           /\ ReduceTimeout(s, r).connections = s.connections
           /\ \A q \in Timed : q # r => ReduceTimeout(s, r).results[q] = s.results[q]
           /\ \/ ReduceTimeout(s, r) = s
              \/ /\ ReduceTimeout(s, r).results[r][1] # "answer"
                 /\ s.results[r][1] # "answer"
<1>1. r \in Request /\ r \in Timed \cup Address /\ "timeout" \in Kinds
  BY DEF Timed, Request, Kinds
<1>2. /\ Record(s, r, "timeout", r) \in NetworkState
      /\ Record(s, r, "timeout", r).connections = s.connections
      /\ Record(s, r, "timeout", r).results[r] = <<"timeout", r>>
      /\ \A q \in Timed \cup Address : q # r => Record(s, r, "timeout", r).results[q] = s.results[q]
  BY <1>1, Recording
<1>3. CASE ReduceTimeout(s, r) = s
  BY <1>3
<1>4. CASE ReduceTimeout(s, r) # s
  <2>1. /\ ReduceTimeout(s, r) = Record(s, r, "timeout", r)
        /\ s.results[r][1] # "answer"
    BY <1>4 DEF ReduceTimeout, ReduceGetTimeout, ReduceSendDirectMessageTimeout
  <2> QED
    BY <1>2, <2>1
<1> QED
  BY <1>3, <1>4

LEMMA HandleType ==
    ASSUME NEW s \in NetworkState, NEW r \in Request
    PROVE  /\ ReduceHandle(s, r) \in NetworkState
           /\ ReduceHandle(s, r).connections = s.connections
           /\ \A q \in Timed : q # r => ReduceHandle(s, r).results[q] = s.results[q]
           /\ r \in Timed => ReduceHandle(s, r).results[r] = <<"answer", r>>
<1>1. /\ Key(r) \in Timed \cup Address /\ "answer" \in Kinds
      /\ \A q \in Timed : q # r => q # Key(r)
      /\ r \in Timed => Key(r) = r
  BY EntryAssumption, KindsAssumption DEF Key, Timed, Request, Kinds
<1> QED
  BY <1>1, Recording DEF ReduceHandle
-----------------------------------------------------------------------------
(* Dispatching an action keeps what is said of the channel. *)
LEMMA ChanAfterDispatch ==
    ASSUME chan \in Seq(Action), TimeoutsTimed, AskedOnce,
           NEW op, NEW r, [op |-> op, r |-> r] \in Action, chan' = Dispatch(op, r),
           op = "Timeout" => r \in Timed,
           op = "Ask" => ~Queued("Ask", r)
    PROVE  chan' \in Seq(Action) /\ TimeoutsTimed' /\ AskedOnce'
<1>1. /\ chan' \in Seq(Action)
      /\ Len(chan) \in Nat /\ Len(chan') = Len(chan) + 1
      /\ \A k \in 1 .. Len(chan) : chan'[k] = chan[k]
      /\ chan'[Len(chan) + 1] = [op |-> op, r |-> r]
  BY Dispatching
<1>2. \A k \in 1 .. Len(chan') : k \in 1 .. Len(chan) \/ k = Len(chan) + 1
  BY <1>1
<1>3. TimeoutsTimed'
  BY <1>1, <1>2 DEF TimeoutsTimed
<1>4. AskedOnce'
  BY <1>1, <1>2 DEF AskedOnce, Queued
<1> QED
  BY <1>1, <1>3, <1>4

LEMMA ChanAfterTaking ==
    ASSUME chan \in Seq(Action), TimeoutsTimed, AskedOnce, chan # <<>>, chan' = Tail(chan)
    PROVE  /\ chan' \in Seq(Action) /\ TimeoutsTimed' /\ AskedOnce'
           /\ Head(chan) \in Action
           /\ Head(chan).op = "Timeout" => Head(chan).r \in Timed
<1>1. /\ Head(chan) = chan[1] /\ Head(chan) \in Action
      /\ chan' \in Seq(Action)
      /\ Len(chan) \in Nat \ {0} /\ Len(chan') = Len(chan) - 1
      /\ \A k \in 1 .. Len(chan') : chan'[k] = chan[k + 1]
  BY Taking
<1>2. /\ 1 \in 1 .. Len(chan)
      /\ \A k \in 1 .. Len(chan') : k + 1 \in 1 .. Len(chan)
      /\ \A j, k \in 1 .. Len(chan') : j + 1 = k + 1 => j = k
  BY <1>1
<1> QED
  BY <1>1, <1>2 DEF TimeoutsTimed, AskedOnce

(* What one turn of the loop does to the network state, by action.         *)
TurnOf(a) ==
    /\ next' \in NetworkState /\ asks' \subseteq asks \cup {a.r}
    /\ asks \subseteq asks' /\ (a.r \in asks' \ asks => a.op = "Ask")
    /\ \A q \in Direct : q \in next.connections /\ (a.op = "Resolve" => q # a.r)
                            => q \in next'.connections
    /\ a.op = "Ask" /\ a.r \in Direct /\ a.r \in asks' \ asks => a.r \in next'.connections
    /\ \A q \in Timed : \/ next'.results[q] = next.results[q]
                        \/ next'.results[q] = <<"answer", q>> /\ a.op = "Handle" /\ q = a.r
                        \/ /\ next'.results[q][1] # "answer"
                           /\ next.results[q][1] # "answer" \/ (a.op = "Ask" /\ q = a.r)

LEMMA TurnFacts ==
    ASSUME TypeOK, Reduce, Head(chan) \in Action,
           Head(chan).op = "Timeout" => Head(chan).r \in Timed
    PROVE  TurnOf(Head(chan))
<1> DEFINE a == Head(chan)
<1>1. PICK sent \in {next.init \/ a.op = "InitNetwork"} \cup (IF Lossy THEN {FALSE} ELSE {}) :
         /\ next' = CASE a.op = "InitNetwork" -> ReduceInit(next, sent)
                      [] a.op = "Ask" -> ReduceAsk(next, a.r, sent)
                      [] a.op = "Timeout" -> ReduceTimeout(next, a.r)
                      [] a.op = "Handle" -> ReduceHandle(next, a.r)
                      [] a.op = "Resolve" -> ReduceResolve(next, a.r)
         /\ asks' = IF a.op = "Ask" /\ sent THEN asks \cup {a.r} ELSE asks
  BY Zenon DEF Reduce
<1>2. next \in NetworkState /\ next.init \in BOOLEAN
  BY DEF TypeOK, NetworkState
<1>3. sent \in BOOLEAN /\ (a.op = "Ask" /\ sent => next.init)
  BY <1>1, <1>2, Zenon
<1>4. /\ a.op \in {"InitNetwork", "Ask", "Timeout", "Handle", "Resolve"}
      /\ a.op # "InitNetwork" => a.r \in Request
      /\ a.op = "Timeout" => a.r \in Timed
  BY DEF Action
<1> SUFFICES TurnOf(a)
  OBVIOUS
<1> HIDE DEF a
<1>5. CASE a.op = "InitNetwork"
  <2>1. next' = ReduceInit(next, sent) /\ asks' = asks
    BY <1>1, <1>5
  <2> QED
    BY <1>2, <1>3, <1>5, <2>1 DEF TurnOf, ReduceInit, NetworkState
<1>6. CASE a.op = "Ask"
  <2>1. next' = ReduceAsk(next, a.r, sent) /\ asks' = IF sent THEN asks \cup {a.r} ELSE asks
    BY <1>1, <1>6
  <2>2. /\ next' \in NetworkState
        /\ next.connections \subseteq next'.connections
        /\ sent /\ a.r \in Direct => a.r \in next'.connections
        /\ \A q \in Timed : q # a.r => next'.results[q] = next.results[q]
        /\ a.r \in Timed => \/ next'.results[a.r] = next.results[a.r]
                            \/ next'.results[a.r][1] # "answer"
    BY <1>2, <1>3, <1>4, <1>6, <2>1, AskType
  <2> QED
    BY <1>6, <2>1, <2>2 DEF TurnOf
<1>7. CASE a.op = "Timeout"
  <2>1. next' = ReduceTimeout(next, a.r) /\ asks' = asks
    BY <1>1, <1>7
  <2>2. /\ next' \in NetworkState
        /\ next'.connections = next.connections
        /\ \A q \in Timed : q # a.r => next'.results[q] = next.results[q]
        /\ \/ next' = next
           \/ next'.results[a.r][1] # "answer" /\ next.results[a.r][1] # "answer"
    BY <1>2, <1>4, <1>7, <2>1, TimeoutType
  <2> QED
    BY <1>7, <2>1, <2>2 DEF TurnOf
<1>8. CASE a.op = "Handle"
  <2>1. next' = ReduceHandle(next, a.r) /\ asks' = asks
    BY <1>1, <1>8
  <2>2. /\ next' \in NetworkState
        /\ next'.connections = next.connections
        /\ \A q \in Timed : q # a.r => next'.results[q] = next.results[q]
        /\ a.r \in Timed => next'.results[a.r] = <<"answer", a.r>>
    BY <1>2, <1>4, <1>8, <2>1, HandleType
  <2> QED
    BY <1>8, <2>1, <2>2 DEF TurnOf
<1>9. CASE a.op = "Resolve"
  <2>1. next' = ReduceResolve(next, a.r) /\ asks' = asks
    BY <1>1, <1>9
  <2> QED
    BY <1>2, <1>9, <2>1 DEF TurnOf, ReduceResolve, NetworkState
<1> QED
  BY <1>4, <1>5, <1>6, <1>7, <1>8, <1>9
-----------------------------------------------------------------------------
LEMMA RequestInvInit == Init => RequestInv
<1> SUFFICES ASSUME Init PROVE RequestInv
  OBVIOUS
<1>1. /\ chan = <<[op |-> "InitNetwork", r |-> None]>>
      /\ chan \in Seq(Action) /\ Len(chan) = 1
      /\ chan[1] = [op |-> "InitNetwork", r |-> None]
  BY DEF Init, Action
<1>2. \A k \in 1 .. Len(chan) : chan[k].op = "InitNetwork"
  BY <1>1
<1>3. NetworkStateNew \in NetworkState
  BY DEF NetworkStateNew, NetworkState, Result, Absent
<1>4. TypeOK
  BY <1>1, <1>3 DEF Init, TypeOK
<1>5. TimeoutsTimed /\ AskedOnce /\ \A o, q : Queued(o, q) => o = "InitNetwork"
  BY <1>1, <1>2 DEF TimeoutsTimed, AskedOnce, Queued
<1>6. OnePlace /\ ConnectionKept
  BY <1>5 DEF Init, OnePlace, ConnectionKept, Handled
<1>7. AnswersLate
  BY DEF Init, AnswersLate, NetworkStateNew, Absent
<1> QED
  BY <1>4, <1>5, <1>6, <1>7 DEF RequestInv

LEMMA AskStep ==
    ASSUME RequestInv, NEW r \in Request, Ask(r)
    PROVE  RequestInv'
<1> USE DEF RequestInv
<1>1. /\ chan \in Seq(Action) /\ chan' = Dispatch("Ask", r)
      /\ [op |-> "Ask", r |-> r] \in Action
      /\ ~Queued("Ask", r)
  BY DEF TypeOK, Ask, Action, OnePlace
<1>2. chan' \in Seq(Action) /\ TimeoutsTimed' /\ AskedOnce'
  BY <1>1, ChanAfterDispatch
<1>3. \A o, q : Queued(o, q)' <=> Queued(o, q) \/ (o = "Ask" /\ q = r)
  BY <1>1, QueuedAfterDispatch
<1>4. TypeOK'
  BY <1>2 DEF TypeOK, Ask
<1>5. OnePlace'
  BY <1>3 DEF OnePlace, Handled, Ask, TypeOK
<1>6. ConnectionKept'
  BY DEF ConnectionKept, Ask
<1>7. AnswersLate'
  BY <1>3 DEF AnswersLate, Ask, TypeOK, Timed, Request
<1> QED
  BY <1>2, <1>4, <1>5, <1>6, <1>7

LEMMA TimerStep ==
    ASSUME RequestInv, NEW r \in Request, TimerFires(r)
    PROVE  RequestInv'
<1> USE DEF RequestInv
<1>1. /\ chan \in Seq(Action) /\ chan' = Dispatch("Timeout", r)
      /\ [op |-> "Timeout", r |-> r] \in Action
      /\ r \in Timed
  BY DEF TypeOK, TimerFires, Action
<1>2. chan' \in Seq(Action) /\ TimeoutsTimed' /\ AskedOnce'
  BY <1>1, ChanAfterDispatch
<1>3. \A o, q : Queued(o, q)' <=> Queued(o, q) \/ (o = "Timeout" /\ q = r)
  BY <1>1, QueuedAfterDispatch
<1>4. TypeOK'
  BY <1>2 DEF TypeOK, TimerFires
<1>5. OnePlace'
  BY <1>3 DEF OnePlace, Handled, TimerFires
<1>6. ConnectionKept' /\ AnswersLate'
  BY <1>3 DEF ConnectionKept, AnswersLate, TimerFires
<1> QED
  BY <1>2, <1>4, <1>5, <1>6

LEMMA ResolveStep ==
    ASSUME RequestInv, NEW r \in Request, ResolveDirectConnection(r)
    PROVE  RequestInv'
<1> USE DEF RequestInv
<1>1. /\ chan \in Seq(Action) /\ chan' = Dispatch("Resolve", r)
      /\ [op |-> "Resolve", r |-> r] \in Action
  BY DEF TypeOK, ResolveDirectConnection, Action
<1>2. chan' \in Seq(Action) /\ TimeoutsTimed' /\ AskedOnce'
  BY <1>1, ChanAfterDispatch
<1>3. \A o, q : Queued(o, q)' <=> Queued(o, q) \/ (o = "Resolve" /\ q = r)
  BY <1>1, QueuedAfterDispatch
<1>4. TypeOK'
  BY <1>2 DEF TypeOK, ResolveDirectConnection
<1>5. OnePlace'
  BY <1>3 DEF OnePlace, Handled, ResolveDirectConnection
<1>6. ConnectionKept' /\ AnswersLate'
  BY <1>3 DEF ConnectionKept, AnswersLate, ResolveDirectConnection
<1> QED
  BY <1>2, <1>4, <1>5, <1>6

LEMMA HandleResultStep ==
    ASSUME RequestInv, NEW r \in Request, HandleResult(r)
    PROVE  RequestInv'
<1> USE DEF RequestInv
<1>1. CASE chan' = Dispatch("Handle", r)
  <2>1. /\ chan \in Seq(Action) /\ [op |-> "Handle", r |-> r] \in Action
    BY DEF TypeOK, Action
  <2>2. chan' \in Seq(Action) /\ TimeoutsTimed' /\ AskedOnce'
    BY <1>1, <2>1, ChanAfterDispatch
  <2>3. \A o, q : Queued(o, q)' <=> Queued(o, q) \/ (o = "Handle" /\ q = r)
    BY <1>1, <2>1, QueuedAfterDispatch
  <2>4. TypeOK'
    BY <2>2 DEF TypeOK, HandleResult
  <2>5. OnePlace'
    BY <2>3 DEF OnePlace, Handled, HandleResult
  <2>6. ConnectionKept' /\ AnswersLate'
    BY <2>3 DEF ConnectionKept, AnswersLate, HandleResult
  <2> QED
    BY <2>2, <2>4, <2>5, <2>6
<1>2. CASE UNCHANGED <<chan, resolving>> /\ r \in Direct
  <2>1. TypeOK'
    BY <1>2 DEF TypeOK, HandleResult
  <2>2. TimeoutsTimed' /\ AskedOnce'
    BY <1>2 DEF TimeoutsTimed, AskedOnce
  <2>3. OnePlace'
    BY <1>2 DEF OnePlace, Handled, Queued, HandleResult
  <2>4. ConnectionKept' /\ AnswersLate'
    BY <1>2 DEF ConnectionKept, AnswersLate, Queued, HandleResult
  <2> QED
    BY <2>1, <2>2, <2>3, <2>4
<1> QED
  BY <1>1, <1>2 DEF HandleResult
(* A turn of the action loop. *)
LEMMA ReduceStep ==
    ASSUME RequestInv, Reduce
    PROVE  RequestInv'
<1> USE DEF RequestInv
<1> DEFINE a == Head(chan)
<1>1. chan \in Seq(Action) /\ chan # <<>> /\ chan' = Tail(chan)
  BY DEF TypeOK, Reduce
<1>2. /\ chan' \in Seq(Action) /\ TimeoutsTimed' /\ AskedOnce'
      /\ a \in Action
      /\ a.op = "Timeout" => a.r \in Timed
  BY <1>1, ChanAfterTaking
<1>3. /\ Queued(a.op, a.r)
      /\ \A o, q : Queued(o, q)' => Queued(o, q)
      /\ \A q : a.op = "Ask" /\ a.r = q => ~Queued("Ask", q)'
  BY <1>1, QueuedAfterTaking
<1>4. TurnOf(a)
  BY <1>2, TurnFacts
<1>5. a.op # "InitNetwork" => a.r \in Request
  BY <1>2 DEF Action
<1> HIDE DEF a
<1>6. asks' \subseteq Request
  BY <1>4, <1>5 DEF TurnOf, TypeOK
<1>7. UNCHANGED <<visible, answers, resolving, timers, pc, dropped>> /\ reducing' = TRUE
  BY DEF Reduce
<1>8. TypeOK'
  BY <1>2, <1>4, <1>6, <1>7 DEF TypeOK, TurnOf
<1>9. OnePlace'
  <2>1. CASE a.op = "Ask"
    BY <1>3, <1>4, <1>5, <1>7, <2>1 DEF OnePlace, Handled, TurnOf
  <2>2. CASE a.op # "Ask"
    <3>1. asks' = asks
      BY <1>4, <2>2 DEF TurnOf
    <3> QED
      BY <1>3, <1>7, <3>1 DEF OnePlace, Handled
  <2> QED
    BY <2>1, <2>2
<1>10. ConnectionKept'
  <2> SUFFICES ASSUME NEW q \in Direct, q \in asks' \cup answers
               PROVE  q \in next'.connections
    BY <1>7 DEF ConnectionKept
  <2>1. CASE q \in asks \cup answers
    <3>1. q \in next.connections /\ q \in Request
      BY <2>1 DEF ConnectionKept, Direct, Request
    <3>2. a.op = "Resolve" => q # a.r
      BY <1>3, <2>1, <3>1 DEF OnePlace, Handled
    <3> QED
      BY <1>4, <3>1, <3>2 DEF TurnOf
  <2>2. CASE q \notin asks \cup answers
    <3>1. q = a.r /\ a.op = "Ask" /\ a.r \in asks' \ asks
      BY <1>4, <2>2 DEF TurnOf
    <3> QED
      BY <1>4, <3>1 DEF TurnOf
  <2> QED
    BY <2>1, <2>2
<1>11. AnswersLate'
  <2> SUFFICES ASSUME NEW q \in Timed
               PROVE  /\ pc[q] = "new" \/ Queued("Ask", q)' => next'.results[q][1] # "answer"
                      /\ next'.results[q][1] = "answer" => next'.results[q] = <<"answer", q>>
    BY <1>7 DEF AnswersLate
  <2>1. q \in Request
    BY DEF Timed, Request
  <2>2. CASE next'.results[q] = next.results[q]
    BY <1>3, <2>2 DEF AnswersLate
  <2>3. CASE next'.results[q] = <<"answer", q>> /\ a.op = "Handle" /\ q = a.r
    BY <1>3, <2>1, <2>3 DEF OnePlace, Handled
  <2>4. CASE next'.results[q][1] # "answer"
    BY <2>4
  <2> QED
    BY <1>4, <2>2, <2>3, <2>4 DEF TurnOf
<1> QED
  BY <1>2, <1>8, <1>9, <1>10, <1>11

LEMMA RequestInvStep == RequestInv /\ [Next]_vars => RequestInv'
<1> SUFFICES ASSUME RequestInv, [Next]_vars PROVE RequestInv'
  OBVIOUS
<1>1. CASE Reduce
  BY <1>1, ReduceStep
<1>2. CASE Publish
  BY <1>2 DEF Publish, RequestInv, TypeOK, TimeoutsTimed, AskedOnce, OnePlace, Handled, Queued,
              ConnectionKept, AnswersLate
<1>3. ASSUME NEW r \in Request, Ask(r) PROVE RequestInv'
  BY <1>3, AskStep
<1>4. ASSUME NEW r \in Request, TimerFires(r) PROVE RequestInv'
  BY <1>4, TimerStep
<1>5. ASSUME NEW r \in Request, Poll(r) PROVE RequestInv'
  BY <1>5 DEF Poll, RequestInv, TypeOK, TimeoutsTimed, AskedOnce, OnePlace, Handled, Queued,
              ConnectionKept, AnswersLate, Timed, Request
<1>6. ASSUME NEW r \in Request, Answer(r) PROVE RequestInv'
  BY <1>6 DEF Answer, RespondFetch, HandleCustomDirectMessage, RespondValidationPackageRequest,
                Respond, RequestInv, TypeOK, TimeoutsTimed, AskedOnce, OnePlace, Handled, Queued,
              ConnectionKept, AnswersLate
<1>7. ASSUME NEW r \in Request, Lose(r) PROVE RequestInv'
  BY <1>7 DEF Lose, RequestInv, TypeOK, TimeoutsTimed, AskedOnce, OnePlace, Handled, Queued,
              ConnectionKept, AnswersLate
<1>8. ASSUME NEW r \in Request, HandleResult(r) PROVE RequestInv'
  BY <1>8, HandleResultStep
<1>9. ASSUME NEW r \in Request, ResolveDirectConnection(r) PROVE RequestInv'
  BY <1>9, ResolveStep
<1>10. CASE UNCHANGED vars
  BY <1>10 DEF vars, RequestInv, TypeOK, TimeoutsTimed, AskedOnce, OnePlace, Handled, Queued,
               ConnectionKept, AnswersLate
<1> QED
  BY <1>1, <1>2, <1>3, <1>4, <1>5, <1>6, <1>7, <1>8, <1>9, <1>10 DEF Next

(* The variables keep their types (core/src/network/state.rs), and what    *)
(* everyone reads differs from what the loop works on only during a turn.  *)
THEOREM TypeCorrect == Spec => []TypeOK
<1>1. RequestInv => TypeOK
  BY DEF RequestInv
<1> QED
  BY <1>1, RequestInvInit, RequestInvStep, PTL DEF Spec

(* What answered a request with a timeout is never replaced, whatever the  *)
(* order of answers, timeouts and losses (the timeout reducers of          *)
(* core/src/network/reducers).                                             *)
THEOREM AnswersNeverReplaced == Spec => AnswerStays
<1> DEFINE Stays == \A r \in Timed :
               next.results[r][1] = "answer" => next'.results[r] = next.results[r]
<1>1. RequestInv /\ [Next]_vars => [Stays]_vars
  <2> SUFFICES ASSUME RequestInv, Next,
                      NEW r \in Timed, next.results[r][1] = "answer"
               PROVE  next'.results[r] = next.results[r]
    OBVIOUS
  <2>1. CASE Reduce
    <3> DEFINE a == Head(chan)
    <3>1. chan \in Seq(Action) /\ chan # <<>> /\ chan' = Tail(chan) /\ TypeOK
          /\ TimeoutsTimed /\ AskedOnce
      BY <2>1 DEF RequestInv, TypeOK, Reduce
    <3>2. /\ a \in Action
          /\ a.op = "Timeout" => a.r \in Timed
      BY <3>1, ChanAfterTaking
    <3>3. Queued(a.op, a.r)
      BY <3>1, QueuedAfterTaking
    <3>4. TurnOf(a)
      BY <2>1, <3>1, <3>2, TurnFacts
    <3> HIDE DEF a
    <3>5. next.results[r] = <<"answer", r>> /\ ~Queued("Ask", r)
      BY DEF RequestInv, AnswersLate
    <3> QED
      BY <3>3, <3>4, <3>5 DEF TurnOf
  <2>2. CASE ~Reduce
    BY <2>2 DEF Next, Publish, Ask, TimerFires, Poll, Answer, RespondFetch,
                HandleCustomDirectMessage, RespondValidationPackageRequest, Respond, Lose, HandleResult,
                ResolveDirectConnection
  <2> QED
    BY <2>1, <2>2
<1>2. AnswerStays <=> [][Stays]_vars
  BY DEF AnswerStays
<1> QED
  BY <1>1, <1>2, RequestInvInit, RequestInvStep, PTL DEF Spec

(* An answer is dropped for want of a connection only in the turn of the   *)
(* action loop that sent the message and recorded the connection, before   *)
(* that turn is published (handle_send_message_result reads the published  *)
(* state, core/src/network/handler/send.rs).                               *)
THEOREM DroppedOnlyWhileUnpublished == Spec => DroppedOnlyUnpublished
<1> DEFINE Late == \A r \in dropped' \ dropped :
               reducing /\ r \in next.connections \ visible.connections
<1>1. RequestInv /\ [Next]_vars => [Late]_vars
  <2> SUFFICES ASSUME RequestInv, Next, NEW r \in dropped' \ dropped
               PROVE  reducing /\ r \in next.connections \ visible.connections
    OBVIOUS
  <2>1. PICK q \in Request : HandleResult(q)
    BY DEF Next, Reduce, Publish, Ask, TimerFires, Poll, Answer, RespondFetch,
           HandleCustomDirectMessage, RespondValidationPackageRequest, Respond, Lose,
           ResolveDirectConnection
  <2>2. q = r /\ r \in Direct /\ r \in answers /\ r \notin visible.connections
    BY <2>1 DEF HandleResult
  <2>3. r \in next.connections
    BY <2>2 DEF RequestInv, ConnectionKept
  <2>4. reducing
    BY <2>2, <2>3 DEF RequestInv, TypeOK
  <2> QED
    BY <2>2, <2>3, <2>4
<1>2. DroppedOnlyUnpublished <=> [][Late]_vars
  BY DEF DroppedOnlyUnpublished
<1> QED
  BY <1>1, <1>2, RequestInvInit, RequestInvStep, PTL DEF Spec
=============================================================================
