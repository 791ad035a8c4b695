-------------------------- MODULE BridgeCallsProofs -------------------------
(***************************************************************************)
(* Proofs about the locks of BridgeCalls, for every set of instances and   *)
(* bridges and any number of calls.                                        *)
(*                                                                         *)
(* A caller waits for one call at a time, and an action in a channel is    *)
(* the one its call waits for.  So nothing brings a call back to life that *)
(* has given its locks up, and nothing ends one that still needs them.     *)
(***************************************************************************)
EXTENDS BridgeCalls, SequenceTheorems, FiniteSetTheorems, TLAPS

Stage == {"none", "lock", "sign", "run", "commit", "call", "ran", "return", "returned", "done",
          "dead"}
CallState == [pc : Stage, on : SUBSET Instance, up : SUBSET Call,
              kind : {"none", "client", "local", "bridge"}]
Queued == [type : {"Commit", "Return"}, call : Call \cup {0}]

Typed ==
    /\ calls \in [Call -> CallState]
    /\ hc \in [Instance -> SUBSET Call] /\ io \in [Instance -> SUBSET Call]
    /\ queue \in [Instance -> Seq(Queued)]

(* One call holds a Holochain object, and each call that works on it,      *)
(* other than the ones the instance makes to itself, is the holder.        *)
OneHolder ==
    /\ \A i \in Instance : \A c, d \in hc[i] : c = d
    /\ \A i \in Instance, c \in Call :
         /\ calls[c].on = {i} /\ calls[c].kind # "local"
         /\ calls[c].pc \notin {"none", "lock", "done", "dead"}
         => c \in hc[i]

Live(c) == calls[c].pc \notin {"done", "dead"}

(* A caller waits, for one call at a time. *)
CallersWait ==
    /\ \A d \in Call : \A c \in calls[d].up :
         calls[c].pc # "none" /\ (Live(d) => calls[c].pc = "call")
    /\ \A d, e \in Call : Live(d) /\ Live(e) /\ calls[d].up \cap calls[e].up # {} => d = e

(* An action in a channel is the one that its call waits for. *)
WaitsFor(a) == IF a.type = "Commit" THEN "commit" ELSE "return"
QueueRight ==
    /\ \A i \in Instance : \A k \in 1 .. Len(queue[i]) :
         queue[i][k].call \in Call => At(queue[i][k].call, i, WaitsFor(queue[i][k]))
    /\ \A i \in Instance : \A j, k \in 1 .. Len(queue[i]) :
         queue[i][j].call = queue[i][k].call /\ queue[i][j].call \in Call => j = k

BridgeInv == Typed /\ OneHolder /\ LocksInUse /\ CallersWait /\ QueueRight
-----------------------------------------------------------------------------
(* One call goes on. *)
LEMMA Moving ==
    ASSUME calls \in [Call -> CallState], NEW c \in Call, NEW q \in Stage, Goto(c, q)
    PROVE  /\ calls' \in [Call -> CallState]
           /\ calls'[c].pc = q /\ calls'[c].on = calls[c].on
           /\ calls'[c].up = calls[c].up /\ calls'[c].kind = calls[c].kind
           /\ \A d \in Call : d # c => calls'[d] = calls[d]
BY DEF Goto, CallState

(* Calls that wait for the action loop stay where they are. *)
LEMMA QueueKept ==
    ASSUME Typed, QueueRight, queue' = queue,
           \A c \in Call : calls[c].pc \in {"commit", "return"} =>
                /\ calls'[c].pc = calls[c].pc /\ calls'[c].on = calls[c].on
    PROVE  QueueRight'
<1>1. ASSUME NEW j \in Instance, NEW k \in 1 .. Len(queue[j]), queue[j][k].call \in Call
      PROVE  At(queue[j][k].call, j, WaitsFor(queue[j][k]))'
  <2>1. At(queue[j][k].call, j, WaitsFor(queue[j][k]))
    BY <1>1 DEF QueueRight
  <2> QED
    BY <1>1, <2>1 DEF At, WaitsFor
<1> QED
  BY <1>1 DEF QueueRight

LEMMA QueueAppended ==
    ASSUME Typed, QueueRight, NEW c \in Call \cup {0}, NEW i \in Instance,
           NEW type \in {"Commit", "Return"},
           queue' = [queue EXCEPT ![i] = Append(@, [type |-> type, call |-> c])],
           \A d \in Call : d # c => calls'[d].pc = calls[d].pc /\ calls'[d].on = calls[d].on,
           c \in Call => /\ calls[c].pc \notin {"commit", "return"}
                         /\ calls'[c].on = {i}
                         /\ calls'[c].pc = IF type = "Commit" THEN "commit" ELSE "return"
    PROVE  QueueRight' /\ queue' \in [Instance -> Seq(Queued)]
<1> DEFINE a == [type |-> type, call |-> c]
<1>1. a \in Queued /\ a.type = type /\ a.call = c
  BY DEF Queued
<1>2. \A j \in Instance : queue[j] \in Seq(Queued) /\ Len(queue[j]) \in Nat
  BY LenProperties DEF Typed
<1>3. queue'[i] = Append(queue[i], a) /\ \A j \in Instance \ {i} : queue'[j] = queue[j]
  BY DEF Typed
<1> HIDE DEF a
<1>4. /\ queue'[i] \in Seq(Queued) /\ Len(queue'[i]) = Len(queue[i]) + 1
      /\ \A k \in 1 .. Len(queue[i]) : queue'[i][k] = queue[i][k]
      /\ queue'[i][Len(queue[i]) + 1] = a
  BY <1>1, <1>2, <1>3, AppendProperties
<1>5. queue' \in [Instance -> Seq(Queued)]
  BY <1>1, <1>2, AppendProperties DEF Typed, a
<1>6. \A k \in 1 .. Len(queue'[i]) : k \in 1 .. Len(queue[i]) \/ k = Len(queue[i]) + 1
  BY <1>2, <1>4
<1>7. c \in Call => \A j \in Instance : \A k \in 1 .. Len(queue[j]) : queue[j][k].call # c
  BY DEF QueueRight, At, WaitsFor
<1>8. ASSUME NEW j \in Instance, NEW k \in 1 .. Len(queue[j]), queue[j][k].call \in Call
      PROVE  At(queue[j][k].call, j, WaitsFor(queue[j][k])) /\ queue[j][k].call # c
  BY <1>7, <1>8 DEF QueueRight
<1>9. ASSUME NEW j \in Instance, NEW k \in 1 .. Len(queue'[j]), queue'[j][k].call \in Call
      PROVE  /\ calls'[queue'[j][k].call].on = {j}
             /\ calls'[queue'[j][k].call].pc = WaitsFor(queue'[j][k])
  <2>1. CASE k \in 1 .. Len(queue[j]) /\ queue'[j][k] = queue[j][k]
    <3> DEFINE d == queue[j][k].call
    <3>1. d \in Call
      BY <1>9, <2>1
    <3>2. At(d, j, WaitsFor(queue[j][k])) /\ d # c
      BY <1>8, <2>1, <3>1
    <3>3. calls'[d].on = {j} /\ calls'[d].pc = WaitsFor(queue[j][k])
      BY <3>1, <3>2 DEF At
    <3> QED
      BY <2>1, <3>3
  <2>2. CASE j = i /\ queue'[j][k] = a
    BY <1>1, <1>9, <2>2 DEF WaitsFor
  <2> QED
    BY <1>3, <1>4, <1>6, <2>1, <2>2
<1>10. ASSUME NEW j \in Instance, NEW m \in 1 .. Len(queue'[j]), NEW k \in 1 .. Len(queue'[j]),
              queue'[j][m].call = queue'[j][k].call, queue'[j][m].call \in Call
       PROVE  m = k
  <2>1. CASE j # i
    BY <1>3, <1>10, <2>1 DEF QueueRight
  <2>2. CASE j = i
    BY <1>1, <1>4, <1>6, <1>7, <1>10, <2>2 DEF QueueRight
  <2> QED
    BY <2>1, <2>2
<1> QED
  <2>1. ASSUME NEW j \in Instance, NEW k \in 1 .. Len(queue'[j]), queue'[j][k].call \in Call
        PROVE  At(queue[j][k].call, j, WaitsFor(queue[j][k]))'
    BY <1>9, <2>1 DEF At
  <2> QED
    BY <1>5, <1>10, <2>1 DEF QueueRight

LEMMA QueueTaken ==
    ASSUME Typed, QueueRight, NEW i \in Instance, queue[i] # <<>>,
           queue' = [queue EXCEPT ![i] = Tail(@)],
           \A d \in Call : d # Head(queue[i]).call =>
                calls'[d].pc = calls[d].pc /\ calls'[d].on = calls[d].on
    PROVE  /\ QueueRight' /\ queue' \in [Instance -> Seq(Queued)]
           /\ Head(queue[i]) \in Queued
           /\ Head(queue[i]).call \in Call => At(Head(queue[i]).call, i, WaitsFor(Head(queue[i])))
<1> DEFINE a == Head(queue[i])
<1>1. \A j \in Instance : queue[j] \in Seq(Queued) /\ Len(queue[j]) \in Nat
  BY LenProperties DEF Typed
<1>2. queue'[i] = Tail(queue[i]) /\ \A j \in Instance \ {i} : queue'[j] = queue[j]
  BY DEF Typed
<1>3. /\ a \in Queued /\ a = queue[i][1]
      /\ queue'[i] \in Seq(Queued)
      /\ Len(queue[i]) \in Nat \ {0} /\ Len(queue'[i]) = Len(queue[i]) - 1
      /\ \A k \in 1 .. Len(queue'[i]) : queue'[i][k] = queue[i][k + 1]
  <2> DEFINE s == queue[i]
  <2>1. s \in Seq(Queued) /\ s # <<>> /\ queue'[i] = Tail(s) /\ a = Head(s) /\ Len(s) \in Nat
    BY <1>1, <1>2
  <2> HIDE DEF s
  <2>2. /\ a \in Queued /\ a = s[1] /\ Tail(s) \in Seq(Queued)
        /\ Len(s) # 0 /\ Len(Tail(s)) = Len(s) - 1
        /\ \A k \in 1 .. Len(Tail(s)) : Tail(s)[k] = s[k + 1]
    BY <2>1, HeadTailProperties, EmptySeq
  <2> QED
    BY <2>1, <2>2 DEF s
<1> HIDE DEF a
<1>4. /\ 1 \in 1 .. Len(queue[i])
      /\ \A k \in 1 .. Len(queue'[i]) : k + 1 \in 1 .. Len(queue[i]) /\ k + 1 # 1
      /\ \A j, k \in 1 .. Len(queue'[i]) : j + 1 = k + 1 => j = k
  BY <1>3
<1>5. queue' \in [Instance -> Seq(Queued)]
  BY <1>1, <1>2, <1>3 DEF Typed
<1>6. a.call \in Call => At(a.call, i, WaitsFor(a))
  BY <1>3, <1>4 DEF QueueRight
<1>7. ASSUME NEW j \in Instance, NEW k \in 1 .. Len(queue'[j]), queue'[j][k].call \in Call
      PROVE  /\ calls'[queue'[j][k].call].on = {j}
             /\ calls'[queue'[j][k].call].pc = WaitsFor(queue'[j][k])
  <2>1. CASE j # i
    <3>1. queue'[j] = queue[j]
      BY <1>2, <2>1
    <3>2. At(queue[j][k].call, j, WaitsFor(queue[j][k]))
      BY <1>7, <3>1 DEF QueueRight
    <3>3. queue[j][k].call # a.call
      BY <1>6, <1>7, <2>1, <3>1, <3>2 DEF At
    <3> QED
      BY <1>7, <3>1, <3>2, <3>3 DEF At, a
  <2>2. CASE j = i
    <3>1. queue'[j][k] = queue[i][k + 1] /\ k + 1 \in 1 .. Len(queue[i]) /\ k + 1 # 1
      BY <1>3, <1>4, <2>2
    <3>2. At(queue[i][k + 1].call, i, WaitsFor(queue[i][k + 1]))
      BY <1>7, <3>1 DEF QueueRight
    <3>3. queue[i][k + 1].call # a.call
      BY <1>3, <1>4, <1>7, <3>1 DEF QueueRight
    <3> QED
      BY <1>7, <2>2, <3>1, <3>2, <3>3 DEF At, a
  <2> QED
    BY <2>1, <2>2
<1>8. ASSUME NEW j \in Instance, NEW m \in 1 .. Len(queue'[j]), NEW k \in 1 .. Len(queue'[j]),
             queue'[j][m].call = queue'[j][k].call, queue'[j][m].call \in Call
      PROVE  m = k
  <2>1. CASE j # i
    BY <1>2, <1>8, <2>1 DEF QueueRight
  <2>2. CASE j = i
    BY <1>3, <1>4, <1>8, <2>2 DEF QueueRight
  <2> QED
    BY <2>1, <2>2
<1>9. QueueRight'
  <2>1. ASSUME NEW j \in Instance, NEW k \in 1 .. Len(queue'[j]), queue'[j][k].call \in Call
        PROVE  At(queue[j][k].call, j, WaitsFor(queue[j][k]))'
    BY <1>7, <2>1 DEF At
  <2> QED
    BY <1>8, <2>1 DEF QueueRight
<1> QED
  BY <1>3, <1>5, <1>6, <1>9 DEF a
-----------------------------------------------------------------------------
(* The inductive invariant *)

LEMMA BridgeInvInit == Init => BridgeInv
<1> SUFFICES ASSUME Init PROVE BridgeInv
  OBVIOUS
<1>1. NoCall \in CallState /\ NoCall.pc = "none" /\ NoCall.up = {}
  BY DEF NoCall, CallState, Stage
<1>2. \A c \in Call : calls[c] = NoCall
  BY DEF Init
<1>3. \A i \in Instance : queue[i] = <<>> /\ Len(queue[i]) = 0
  BY DEF Init
<1>4. Typed
  BY <1>1 DEF Init, Typed
<1>5. OneHolder /\ LocksInUse /\ CallersWait
  BY <1>1, <1>2 DEF Init, OneHolder, LocksInUse, CallersWait
<1>6. QueueRight
  BY <1>3 DEF QueueRight
<1> QED
  BY <1>4, <1>5, <1>6 DEF BridgeInv

(* A call that waits for no other one goes on. *)
LEMMA MoveStep ==
    ASSUME BridgeInv, NEW c \in Call, NEW i \in Instance,
           NEW p \in Stage \ {"none", "call", "done", "dead"}, At(c, i, p),
           NEW q \in Stage \ {"none", "lock", "call", "done"}, Goto(c, q),
           io' = io, queue' \in [Instance -> Seq(Queued)], QueueRight',
           \/ hc' = hc /\ p # "lock"
           \/ hc[i] = {} /\ hc' = [hc EXCEPT ![i] = {c}]
    PROVE  BridgeInv'
<1> USE DEF BridgeInv
<1>1. /\ calls' \in [Call -> CallState]
      /\ calls'[c].pc = q /\ calls'[c].on = calls[c].on
      /\ calls'[c].up = calls[c].up /\ calls'[c].kind = calls[c].kind
      /\ \A d \in Call : d # c => calls'[d] = calls[d]
  BY Moving DEF Typed
<1>2. calls[c].pc = p /\ calls[c].on = {i}
  BY DEF At
<1>3. Typed'
  <2>1. hc' \in [Instance -> SUBSET Call]
    <3>1. hc \in [Instance -> SUBSET Call] /\ {c} \in SUBSET Call
      BY DEF Typed
    <3>2. CASE hc' = hc
      BY <3>1, <3>2
    <3>3. CASE hc' = [hc EXCEPT ![i] = {c}]
      BY <3>1, <3>3
    <3> QED
      BY <3>2, <3>3
  <2>2. io' \in [Instance -> SUBSET Call]
    BY DEF Typed
  <2> QED
    BY <1>1, <2>1, <2>2 DEF Typed
<1>4. /\ \A k \in Instance : k # i => hc'[k] = hc[k]
      /\ hc'[i] = hc[i] \/ hc'[i] = {c}
      /\ p = "lock" => hc'[i] = {c}
      /\ hc[i] \subseteq hc'[i]
  BY DEF Typed
<1>5. OneHolder'
  <2>1. \A k \in Instance : \A d, e \in hc'[k] : d = e
    BY <1>4 DEF OneHolder
  <2>2. ASSUME NEW k \in Instance, NEW d \in Call,
               calls'[d].on = {k}, calls'[d].kind # "local",
               calls'[d].pc \notin {"none", "lock", "done", "dead"}
        PROVE  d \in hc'[k]
    <3>1. CASE d = c
      <4>1. k = i
        BY <1>1, <1>2, <2>2, <3>1
      <4>2. CASE p = "lock"
        BY <1>4, <3>1, <4>1, <4>2
      <4>3. CASE p # "lock"
        BY <1>1, <1>2, <1>4, <2>2, <3>1, <4>1, <4>3 DEF OneHolder
      <4> QED
        BY <4>2, <4>3
    <3>2. CASE d # c
      BY <1>1, <1>4, <2>2, <3>2 DEF OneHolder
    <3> QED
      BY <3>1, <3>2
  <2> QED
    BY <2>1, <2>2 DEF OneHolder
<1>6. LocksInUse'
  <2>1. ASSUME NEW k \in Instance, NEW d \in hc'[k]
        PROVE  calls'[d].on = {k} /\ calls'[d].pc \notin {"none", "lock", "done"}
    <3>1. CASE d \in hc[k]
      <4>1. d \in Call /\ calls[d].on = {k} /\ calls[d].pc \notin {"none", "lock", "done"}
        BY <3>1 DEF LocksInUse, Typed
      <4> QED
        BY <1>1, <4>1
    <3>2. CASE d \notin hc[k]
      BY <1>1, <1>2, <1>4, <3>2
    <3> QED
      BY <3>1, <3>2
  <2>2. ASSUME NEW k \in Instance, NEW d \in io[k]
        PROVE  calls'[d].pc = "call" /\ \E e \in Call : d \in calls'[e].up /\ calls'[e].pc # "done"
    <3>1. d \in Call /\ calls[d].pc = "call"
      BY DEF LocksInUse, Typed
    <3>2. PICK e \in Call : d \in calls[e].up /\ calls[e].pc # "done"
      BY DEF LocksInUse
    <3>3. calls'[e].up = calls[e].up /\ calls'[e].pc # "done"
      BY <1>1, <3>2
    <3> QED
      BY <1>1, <1>2, <3>1, <3>2, <3>3
  <2> QED
    BY <2>1, <2>2 DEF LocksInUse
<1>7. CallersWait'
  <2>1. \A d \in Call : calls'[d].up = calls[d].up /\ (Live(d)' => Live(d))
    BY <1>1, <1>2 DEF Live
  <2>2. ASSUME NEW d \in Call, NEW e \in calls'[d].up
        PROVE  calls'[e].pc # "none" /\ (Live(d)' => calls'[e].pc = "call")
    <3>1. e \in calls[d].up /\ e \in Call
      BY <1>1, <2>1, <2>2 DEF CallState
    <3>2. calls[e].pc # "none" /\ (Live(d) => calls[e].pc = "call")
      BY <3>1 DEF CallersWait
    <3> QED
      BY <1>1, <1>2, <2>1, <3>1, <3>2
  <2> QED
    BY <2>1, <2>2 DEF CallersWait
<1> QED
  BY <1>3, <1>5, <1>6, <1>7
(* A client, or another call, makes a call. *)
LEMMA NewStep ==
    ASSUME BridgeInv, NEW d \in Call, calls[d] = NoCall, NEW j \in Instance,
           NEW start \in {"lock", "run"}, NEW kind \in {"client", "local", "bridge"},
           start = "run" => kind = "local",
           NEW up \in SUBSET Call,
           \A c \in up : calls[c].pc = "run",
           \A c, e \in up : c = e,
           calls' \in [Call -> CallState], calls'[d] = New(j, start, up, kind),
           \A c \in Call \ {d} :
                /\ calls'[c].on = calls[c].on /\ calls'[c].up = calls[c].up
                /\ calls'[c].kind = calls[c].kind
                /\ calls'[c].pc = IF c \in up THEN "call" ELSE calls[c].pc,
           UNCHANGED <<hc, queue>>, io' \in [Instance -> SUBSET Call],
           \A k \in Instance : io'[k] \subseteq io[k] \cup up
    PROVE  BridgeInv'
<1> USE DEF BridgeInv
<1>1. /\ calls[d].pc = "none" /\ d \notin up
      /\ calls'[d].pc = start /\ calls'[d].on = {j} /\ calls'[d].up = up /\ calls'[d].kind = kind
  BY DEF NoCall, New
<1>2. Typed'
  BY DEF Typed
<1>3. OneHolder'
  BY <1>1 DEF OneHolder
<1>4. LocksInUse'
  <2>1. ASSUME NEW k \in Instance, NEW c \in hc[k]
        PROVE  calls'[c].on = {k} /\ calls'[c].pc \notin {"none", "lock", "done"}
    <3>1. c \in Call /\ calls[c].on = {k} /\ calls[c].pc \notin {"none", "lock", "done"}
      BY DEF LocksInUse, Typed
    <3> QED
      BY <1>1, <3>1
  <2>2. ASSUME NEW k \in Instance, NEW c \in io'[k]
        PROVE  calls'[c].pc = "call" /\ \E e \in Call : c \in calls'[e].up /\ calls'[e].pc # "done"
    <3>1. CASE c \in up
      BY <1>1, <3>1
    <3>2. CASE c \in io[k] /\ c \notin up
      <4>1. c \in Call /\ calls[c].pc = "call"
        BY <3>2 DEF LocksInUse, Typed
      <4>2. PICK e \in Call : c \in calls[e].up /\ calls[e].pc # "done"
        BY <3>2 DEF LocksInUse
      <4>3. e # d
        BY <4>2 DEF NoCall
      <4> QED
        BY <1>1, <3>2, <4>1, <4>2, <4>3
    <3> QED
      BY <3>1, <3>2
  <2> QED
    BY <2>1, <2>2 DEF LocksInUse
<1>5. CallersWait'
  <2>1. ASSUME NEW e \in Call, NEW c \in calls'[e].up
        PROVE  calls'[c].pc # "none" /\ (Live(e)' => calls'[c].pc = "call")
    <3>1. CASE e = d
      BY <1>1, <2>1, <3>1
    <3>2. CASE e # d
      <4>1. c \in calls[e].up /\ c \in Call
        BY <2>1, <3>2 DEF CallState
      <4>2. calls[c].pc # "none" /\ (Live(e) => calls[c].pc = "call")
        BY <4>1 DEF CallersWait
      <4>3. Live(e)' => Live(e) \/ e \in up
        BY <3>2 DEF Live
      <4>4. e \in up => Live(e)
        BY DEF Live
      <4> QED
        BY <1>1, <4>1, <4>2, <4>3, <4>4
    <3> QED
      BY <3>1, <3>2
  <2>2. ASSUME NEW e \in Call, NEW f \in Call, Live(e)', Live(f)',
               NEW c \in calls'[e].up \cap calls'[f].up
        PROVE  e = f
    <3>1. \A g \in Call : g # d /\ Live(g)' => Live(g)
      BY DEF Live
    <3>2. \A g \in Call : g # d /\ Live(g) => calls[g].up \cap up = {}
      BY DEF CallersWait
    <3> QED
      BY <1>1, <2>2, <3>1, <3>2 DEF CallersWait
  <2> QED
    BY <2>1, <2>2 DEF CallersWait
<1>6. QueueRight'
  BY <1>1, QueueKept
<1> QED
  BY <1>2, <1>3, <1>4, <1>5, <1>6
(* A call ends, and its locks and its caller are released. *)
LEMMA EndStep ==
    ASSUME BridgeInv, NEW c \in Call, NEW i \in Instance,
           NEW p \in {"lock", "sign", "returned"}, At(c, i, p),
           NEW last \in {"done", "dead"}, NEW then \in {"ran", "dead"},
           calls' = [d \in Call |-> IF d = c THEN [calls[d] EXCEPT !.pc = last]
                                   ELSE IF d \in calls[c].up THEN [calls[d] EXCEPT !.pc = then]
                                   ELSE calls[d]],
           hc' = [hc EXCEPT ![i] = @ \ {c}],
           io' = [k \in Instance |-> io[k] \ calls[c].up],
           queue' = queue
    PROVE  BridgeInv'
<1> USE DEF BridgeInv
<1> DEFINE up == calls[c].up
<1>1. calls[c].pc = p /\ calls[c].on = {i} /\ Live(c)
  BY DEF At, Live
<1>2. up \subseteq Call /\ \A d \in up : calls[d].pc = "call" /\ d # c
  BY <1>1 DEF Typed, CallState, CallersWait
<1>3. \A d \in Call : calls[d] \in CallState
  BY DEF Typed
<1>4. ASSUME NEW d \in Call
      PROVE  /\ calls'[d] \in CallState
             /\ calls'[d].on = calls[d].on /\ calls'[d].up = calls[d].up
             /\ calls'[d].kind = calls[d].kind
             /\ calls'[d].pc = IF d = c THEN last ELSE IF d \in up THEN then ELSE calls[d].pc
  <2>1. calls'[d] = IF d = c THEN [calls[d] EXCEPT !.pc = last]
                    ELSE IF d \in up THEN [calls[d] EXCEPT !.pc = then] ELSE calls[d]
    OBVIOUS
  <2> QED
    BY <1>3, <2>1 DEF CallState, Stage
<1>5. Typed'
  <2>1. calls' \in [Call -> CallState]
    BY <1>4
  <2> QED
    BY <2>1 DEF Typed
<1>6. \A k \in Instance : /\ hc'[k] \subseteq hc[k] /\ hc[k] \subseteq hc'[k] \cup {c}
                          /\ io'[k] = io[k] \ up
                          /\ (k = i => c \notin hc'[k])
  BY DEF Typed
<1> HIDE DEF up
<1>7. OneHolder'
  <2>1. \A k \in Instance : \A d, e \in hc'[k] : d = e
    BY <1>6 DEF OneHolder
  <2>2. ASSUME NEW k \in Instance, NEW d \in Call,
               calls'[d].on = {k}, calls'[d].kind # "local",
               calls'[d].pc \notin {"none", "lock", "done", "dead"}
        PROVE  d \in hc'[k]
    <3>1. d # c /\ calls[d].pc \notin {"none", "lock", "done", "dead"}
      BY <1>2, <1>4, <2>2
    <3>2. d \in hc[k]
      BY <1>4, <2>2, <3>1 DEF OneHolder
    <3> QED
      BY <1>6, <3>1, <3>2
  <2> QED
    BY <2>1, <2>2 DEF OneHolder
<1>8. LocksInUse'
  <2>1. ASSUME NEW k \in Instance, NEW d \in hc'[k]
        PROVE  calls'[d].on = {k} /\ calls'[d].pc \notin {"none", "lock", "done"}
    <3>1. d \in Call /\ calls[d].on = {k} /\ calls[d].pc \notin {"none", "lock", "done"}
      BY <1>6 DEF LocksInUse, Typed
    <3>2. d # c
      BY <1>1, <1>6, <3>1
    <3> QED
      BY <1>4, <3>1, <3>2
  <2>2. ASSUME NEW k \in Instance, NEW d \in io'[k]
        PROVE  calls'[d].pc = "call" /\ \E e \in Call : d \in calls'[e].up /\ calls'[e].pc # "done"
    <3>1. d \in io[k] /\ d \notin up /\ d \in Call /\ calls[d].pc = "call"
      BY <1>6 DEF LocksInUse, Typed
    <3>2. PICK e \in Call : d \in calls[e].up /\ calls[e].pc # "done"
      BY <3>1 DEF LocksInUse
    <3>3. e # c
      BY <3>1, <3>2 DEF up
    <3> QED
      BY <1>1, <1>4, <3>1, <3>2, <3>3
  <2> QED
    BY <2>1, <2>2 DEF LocksInUse
<1>9. CallersWait'
  <2>1. \A d \in Call : calls'[d].up = calls[d].up /\ (Live(d)' => Live(d) /\ d # c)
    BY <1>2, <1>4 DEF Live
  <2>2. ASSUME NEW d \in Call, NEW e \in calls'[d].up
        PROVE  calls'[e].pc # "none" /\ (Live(d)' => calls'[e].pc = "call")
    <3>1. e \in calls[d].up /\ e \in Call
      BY <1>3, <2>1, <2>2 DEF CallState
    <3>2. calls[e].pc # "none" /\ (Live(d) => calls[e].pc = "call")
      BY <3>1 DEF CallersWait
    <3>3. Live(d)' => e \notin up /\ e # c
      BY <1>1, <2>1, <3>1, <3>2 DEF CallersWait, up
    <3> QED
      BY <1>4, <2>1, <3>1, <3>2, <3>3
  <2> QED
    BY <2>1, <2>2 DEF CallersWait
<1>10. QueueRight'
  BY <1>1, <1>2, <1>4, QueueKept
<1> QED
  BY <1>5, <1>7, <1>8, <1>9, <1>10

-----------------------------------------------------------------------------
(* Every step of the system is one of those. *)

LEMMA SameCallsStep ==
    ASSUME BridgeInv, UNCHANGED <<calls, hc, io>>,
           queue' \in [Instance -> Seq(Queued)], QueueRight'
    PROVE  BridgeInv'
<1>1. Typed'
  BY DEF BridgeInv, Typed
<1>2. OneHolder' /\ LocksInUse'
  BY DEF BridgeInv, OneHolder, LocksInUse
<1>3. CallersWait'
  BY DEF BridgeInv, CallersWait, Live
<1> QED
  BY <1>1, <1>2, <1>3 DEF BridgeInv

LEMMA ActionLoopStep ==
    ASSUME BridgeInv, NEW i \in Instance, ActionLoop(i)
    PROVE  BridgeInv'
<1> DEFINE a == Head(queue[i])
           q == IF a.type = "Commit" THEN "ran" ELSE "returned"
<1>1. /\ calls' = [d \in Call |-> IF d # a.call THEN calls[d] ELSE [calls[d] EXCEPT !.pc = q]]
      /\ queue[i] # <<>> /\ queue' = [queue EXCEPT ![i] = Tail(@)]
      /\ hc' = hc /\ io' = io
  BY DEF ActionLoop
<1>2. /\ QueueRight' /\ queue' \in [Instance -> Seq(Queued)] /\ a \in Queued
      /\ a.call \in Call => At(a.call, i, WaitsFor(a))
  BY <1>1, QueueTaken DEF BridgeInv
<1>3. q \in Stage \ {"none", "lock", "call", "done"}
      /\ WaitsFor(a) \in {"commit", "return"}
      /\ WaitsFor(a) \in Stage \ {"none", "call", "done", "dead"}
  BY DEF Stage, WaitsFor
<1> HIDE DEF a, q
<1>4. calls \in [Call -> CallState]
  BY DEF BridgeInv, Typed
<1>5. CASE a.call \in Call
  <2>1. Goto(a.call, q)
    BY <1>1, <1>4, <1>5 DEF Goto
  <2> QED
    BY <1>1, <1>2, <1>3, <1>5, <2>1, MoveStep
<1>6. CASE a.call \notin Call
  <2>1. calls' = calls
    BY <1>1, <1>4, <1>6
  <2> QED
    BY <1>1, <1>2, <2>1, SameCallsStep
<1> QED
  BY <1>5, <1>6

LEMMA PanicsStep ==
    ASSUME BridgeInv, NEW c \in Call, NEW i \in Instance, NEW p \in {"lock", "sign"},
           At(c, i, p), Panics(c, i)
    PROVE  BridgeInv'
<1>1. calls' = [d \in Call |-> IF d = c THEN [calls[d] EXCEPT !.pc = "dead"]
                              ELSE IF d \in calls[c].up THEN [calls[d] EXCEPT !.pc = "dead"]
                              ELSE calls[d]]
  BY DEF Panics
<1> QED
  BY <1>1, EndStep DEF Panics
LEMMA BridgeInvStep == BridgeInv /\ [Next]_vars => BridgeInv'
<1> SUFFICES ASSUME BridgeInv, [Next]_vars PROVE BridgeInv'
  OBVIOUS
<1>0. Typed /\ QueueRight /\ calls \in [Call -> CallState] /\ queue \in [Instance -> Seq(Queued)]
  BY DEF BridgeInv, Typed
<1>1. ASSUME NEW i \in Instance, ActionLoop(i) PROVE BridgeInv'
  BY <1>1, ActionLoopStep
<1>2. ASSUME NEW i \in Instance, LoopPanics(i) PROVE BridgeInv'
  <2>1. queue' \in [Instance -> Seq(Queued)] /\ UNCHANGED <<calls, hc, io>>
    BY <1>0, <1>2 DEF LoopPanics
  <2>2. queue'[i] = <<>> /\ Len(queue'[i]) = 0 /\ \A j \in Instance \ {i} : queue'[j] = queue[j]
    BY <1>0, <1>2 DEF LoopPanics
  <2>3. \A j \in Instance : \A k \in 1 .. Len(queue'[j]) : j # i
    BY <2>2
  <2>4. QueueRight'
    BY <1>0, <2>1, <2>2, <2>3 DEF QueueRight, At
  <2> QED
    BY <2>1, <2>4, SameCallsStep
<1>3. ASSUME NEW i \in Instance, NEW c \in Call, Lock(c, i) PROVE BridgeInv'
  <2>1. Goto(c, "sign") /\ At(c, i, "lock") /\ queue' = queue
    BY <1>3 DEF Lock
  <2>2. QueueRight'
    BY <1>0, <2>1, QueueKept, Moving DEF At, Stage
  <2> QED
    BY <1>0, <1>3, <2>1, <2>2, MoveStep DEF Lock, Stage
<1>4. ASSUME NEW i \in Instance, NEW c \in Call, Sign(c, i) PROVE BridgeInv'
  <2>1. Goto(c, "run") /\ At(c, i, "sign") /\ queue' = queue
    BY <1>4 DEF Sign
  <2>2. QueueRight'
    BY <1>0, <2>1, QueueKept, Moving DEF At, Stage
  <2> QED
    BY <1>0, <1>4, <2>1, <2>2, MoveStep DEF Sign, Stage
<1>5. ASSUME NEW i \in Instance, NEW c \in Call, LockPanics(c, i) PROVE BridgeInv'
  BY <1>5, PanicsStep DEF LockPanics
<1>6. ASSUME NEW i \in Instance, NEW c \in Call, SignPanics(c, i) PROVE BridgeInv'
  BY <1>6, PanicsStep DEF SignPanics
<1>7. ASSUME NEW i \in Instance, NEW c \in Call, NEW p \in {"run", "ran"}, NEW q \in {"commit", "return"},
             NEW type \in {"Commit", "Return"}, q = IF type = "Commit" THEN "commit" ELSE "return",
             At(c, i, p), Goto(c, q), UNCHANGED <<hc, io>>,
             queue' = [queue EXCEPT ![i] = Append(@, [type |-> type, call |-> c])]
      PROVE  BridgeInv'
  <2>1. /\ calls'[c].pc = q /\ calls'[c].on = calls[c].on
        /\ \A d \in Call : d # c => calls'[d] = calls[d]
    BY <1>0, <1>7, Moving DEF Stage
  <2>2. calls[c].pc = p /\ calls[c].on = {i}
    BY <1>7 DEF At
  <2>3. QueueRight' /\ queue' \in [Instance -> Seq(Queued)]
    BY <1>0, <1>7, <2>1, <2>2, QueueAppended
  <2> QED
    BY <1>7, <2>3, MoveStep DEF Stage
<1>8. ASSUME NEW i \in Instance, NEW c \in Call, Commit(c, i) PROVE BridgeInv'
  BY <1>7, <1>8 DEF Commit
<1>9. ASSUME NEW i \in Instance, NEW c \in Call, Return(c, i) PROVE BridgeInv'
  BY <1>7, <1>9 DEF Return
<1>10. ASSUME NEW i \in Instance, NEW c \in Call, ThreadPanics(c, i) PROVE BridgeInv'
  <2>1. Goto(c, "dead") /\ UNCHANGED <<hc, io, queue>>
    BY <1>10 DEF ThreadPanics
  <2>2. PICK p \in {"run", "ran"} : At(c, i, p)
    BY <1>10 DEF ThreadPanics
  <2>3. QueueRight'
    BY <1>0, <2>1, <2>2, QueueKept, Moving DEF At, Stage
  <2> QED
    BY <1>0, <2>1, <2>2, <2>3, MoveStep DEF Stage
<1>11. ASSUME NEW i \in Instance, NEW c \in Call, Returned(c, i) PROVE BridgeInv'
  BY <1>11, EndStep DEF Returned
<1>12. ASSUME NEW i \in Instance, NEW c \in Call, NEW d \in Call, LocalCall(c, i, d) PROVE BridgeInv'
  <2>1. /\ calls[c].pc = "run" /\ calls[d] = NoCall /\ calls[d].pc = "none"
        /\ calls' = [calls EXCEPT ![c].pc = "call", ![d] = New(i, "run", {c}, "local")]
        /\ UNCHANGED <<hc, io, queue>>
    BY <1>12 DEF LocalCall, At, Fresh, NoCall
  <2>2. New(i, "run", {c}, "local") \in CallState
    BY DEF New, CallState, Stage
  <2>3. /\ calls' \in [Call -> CallState] /\ calls'[d] = New(i, "run", {c}, "local")
        /\ \A e \in Call \ {d} :
             /\ calls'[e].on = calls[e].on /\ calls'[e].up = calls[e].up
             /\ calls'[e].kind = calls[e].kind
             /\ calls'[e].pc = IF e \in {c} THEN "call" ELSE calls[e].pc
    BY <1>0, <2>1, <2>2 DEF CallState, Stage
  <2> DEFINE up == {c}
  <2>4. /\ up \in SUBSET Call /\ (\A e \in up : calls[e].pc = "run") /\ (\A e, f \in up : e = f)
        /\ io' \in [Instance -> SUBSET Call] /\ \A k \in Instance : io'[k] \subseteq io[k] \cup up
        /\ calls'[d] = New(i, "run", up, "local")
        /\ \A e \in Call \ {d} :
             /\ calls'[e].on = calls[e].on /\ calls'[e].up = calls[e].up
             /\ calls'[e].kind = calls[e].kind
             /\ calls'[e].pc = IF e \in up THEN "call" ELSE calls[e].pc
    BY <1>0, <2>1, <2>3 DEF Typed
  <2> HIDE DEF up
  <2>5. "run" \in {"lock", "run"} /\ "local" \in {"client", "local", "bridge"} /\ UNCHANGED <<hc, queue>>
        /\ calls[d] = NoCall /\ calls' \in [Call -> CallState]
    BY <2>1, <2>3
  <2> QED
    BY <2>4, <2>5, NewStep
<1>13. ASSUME NEW i \in Instance, NEW c \in Call, NEW d \in Call, NEW j \in Instance,
              BridgeCall(c, i, d, j)
       PROVE  BridgeInv'
  <2>1. /\ calls[c].pc = "run" /\ calls[d] = NoCall /\ calls[d].pc = "none"
        /\ calls' = [calls EXCEPT ![c].pc = "call", ![d] = New(j, "lock", {c}, "bridge")]
        /\ io' = [io EXCEPT ![i] = {c}]
        /\ UNCHANGED <<hc, queue>>
    BY <1>13 DEF BridgeCall, At, Fresh, NoCall, Handler
  <2>2. New(j, "lock", {c}, "bridge") \in CallState
    BY DEF New, CallState, Stage
  <2>3. /\ calls' \in [Call -> CallState] /\ calls'[d] = New(j, "lock", {c}, "bridge")
        /\ \A e \in Call \ {d} :
             /\ calls'[e].on = calls[e].on /\ calls'[e].up = calls[e].up
             /\ calls'[e].kind = calls[e].kind
             /\ calls'[e].pc = IF e \in {c} THEN "call" ELSE calls[e].pc
    BY <1>0, <2>1, <2>2 DEF CallState, Stage
  <2>4. io \in [Instance -> SUBSET Call] /\ {c} \in SUBSET Call
    BY <1>0 DEF Typed
  <2>5. io' \in [Instance -> SUBSET Call] /\ \A k \in Instance : io'[k] \subseteq io[k] \cup {c}
    BY <2>1, <2>4
  <2> DEFINE up == {c}
  <2>6. /\ up \in SUBSET Call /\ (\A e \in up : calls[e].pc = "run") /\ (\A e, f \in up : e = f)
        /\ io' \in [Instance -> SUBSET Call] /\ \A k \in Instance : io'[k] \subseteq io[k] \cup up
        /\ calls'[d] = New(j, "lock", up, "bridge")
        /\ \A e \in Call \ {d} :
             /\ calls'[e].on = calls[e].on /\ calls'[e].up = calls[e].up
             /\ calls'[e].kind = calls[e].kind
             /\ calls'[e].pc = IF e \in up THEN "call" ELSE calls[e].pc
    BY <2>1, <2>3, <2>4, <2>5
  <2> HIDE DEF up
  <2>7. "lock" \in {"lock", "run"} /\ "bridge" \in {"client", "local", "bridge"} /\ UNCHANGED <<hc, queue>>
        /\ calls[d] = NoCall /\ calls' \in [Call -> CallState]
    BY <2>1, <2>3
  <2> QED
    BY <2>6, <2>7, NewStep
<1>14. ASSUME NEW i \in Instance, NEW c \in Call, ClientCall(c, i) PROVE BridgeInv'
  <2>1. /\ calls[c] = NoCall /\ calls' = [calls EXCEPT ![c] = New(i, "lock", {}, "client")]
        /\ UNCHANGED <<hc, io, queue>>
    BY <1>14 DEF ClientCall, Fresh
  <2>2. New(i, "lock", {}, "client") \in CallState
    BY DEF New, CallState, Stage
  <2>3. /\ calls' \in [Call -> CallState] /\ calls'[c] = New(i, "lock", {}, "client")
        /\ \A e \in Call \ {c} : calls'[e] = calls[e]
    BY <1>0, <2>1, <2>2
  <2>4. /\ {} \in SUBSET Call /\ (\A e \in {} : calls[e].pc = "run") /\ (\A e, f \in {} : e = f)
        /\ io' \in [Instance -> SUBSET Call] /\ \A k \in Instance : io'[k] \subseteq io[k] \cup {}
    BY <1>0, <2>1 DEF Typed
  <2>5. \A e \in Call \ {c} :
             /\ calls'[e].on = calls[e].on /\ calls'[e].up = calls[e].up
             /\ calls'[e].kind = calls[e].kind
             /\ calls'[e].pc = IF e \in {} THEN "call" ELSE calls[e].pc
    BY <2>3
  <2>6. "lock" \in {"lock", "run"} /\ "client" \in {"client", "local", "bridge"} /\ UNCHANGED <<hc, queue>>
    BY <2>1
  <2> QED
    BY <2>1, <2>3, <2>4, <2>5, <2>6, NewStep
<1>15. ASSUME NEW i \in Instance, Receive(i) PROVE BridgeInv'
  <2>1. /\ UNCHANGED <<calls, hc, io>> /\ 0 \notin Call
        /\ queue' = [queue EXCEPT ![i] = Append(@, [type |-> "Commit", call |-> 0])]
    BY <1>15 DEF Receive, Call
  <2>2. QueueRight' /\ queue' \in [Instance -> Seq(Queued)]
    BY <1>0, <2>1, QueueAppended
  <2> QED
    BY <2>1, <2>2, SameCallsStep
<1>16. CASE UNCHANGED vars
  <2>1. QueueRight'
    BY <1>0, <1>16, QueueKept DEF vars
  <2> QED
    BY <1>0, <1>16, <2>1, SameCallsStep DEF vars
<1> QED
  BY <1>1, <1>2, <1>3, <1>4, <1>5, <1>6, <1>8, <1>9, <1>10, <1>11, <1>12, <1>13, <1>14, <1>15,
     <1>16 DEF Next, Work, CallStep
-----------------------------------------------------------------------------
(* Every lock is held by a call that needs it, and given up on every way   *)
(* out, panics included (setup_call_api in conductor_api/src/interface.rs, *)
(* bridge_call in core/src/nucleus/ribosome/api/call.rs).                  *)
THEOREM LocksAlwaysInUse == Spec => []LocksInUse
<1>1. BridgeInv => LocksInUse
  BY DEF BridgeInv
<1> QED
  BY <1>1, BridgeInvInit, BridgeInvStep, PTL DEF Spec

(* An instance works on one call at a time, besides the calls it makes to  *)
(* itself, for any number of clients and bridges (hc.write() in            *)
(* setup_call_api).                                                        *)
THEOREM OneCallPerInstance == Spec => []OneCallAtATime
<1>1. BridgeInv => OneCallAtATime
  <2> SUFFICES ASSUME BridgeInv, NEW i \in Instance
               PROVE  Cardinality({c \in Call : /\ calls[c].on = {i} /\ calls[c].kind # "local"
                                  /\ calls[c].pc \notin {"none", "lock", "done", "dead"}}) <= 1
    BY DEF OneCallAtATime
  <2> DEFINE W == {c \in Call : /\ calls[c].on = {i} /\ calls[c].kind # "local"
                                /\ calls[c].pc \notin {"none", "lock", "done", "dead"}}
  <2>1. \A c, d \in W : c = d
    BY DEF BridgeInv, OneHolder
  <2> HIDE DEF W
  <2>2. W = {} \/ \E c : W = {c}
    BY <2>1
  <2>3. Cardinality(W) <= 1
    <3>1. CASE W = {}
      BY <3>1, FS_EmptySet
    <3>2. CASE \E c : W = {c}
      <4>1. PICK c : W = {c}
        BY <3>2
      <4>2. Cardinality({c}) = 1
        BY FS_Singleton
      <4> QED
        BY <4>1, <4>2
    <3> QED
      BY <2>2, <3>1, <3>2
  <2> QED
    BY <2>3 DEF W
<1> QED
  BY <1>1, BridgeInvInit, BridgeInvStep, PTL DEF Spec

-----------------------------------------------------------------------------
(* What a failing signature damages.                                       *)

(* A caller is in the same instance or at the other end of a bridge, and a *)
(* handler is locked by a call of its own instance.                        *)
CallsOverBridges ==
    /\ \A d \in Call : \A c \in calls[d].up : \A i, j \in Instance :
         calls[c].on = {i} /\ calls[d].on = {j} => i = j \/ <<i, j>> \in bridges
    /\ \A i \in Instance : \A c \in io[i] : calls[c].on = {i}

DamageInv ==
    /\ BridgeInv /\ CallsOverBridges /\ DamageUpstream
    /\ alive \in [Instance -> BOOLEAN]

LEMMA CallsOverBridgesKept ==
    ASSUME BridgeInv, CallsOverBridges, bridges' = bridges,
           \A c \in Call : calls'[c].on = calls[c].on /\ calls'[c].up = calls[c].up,
           \A k \in Instance : io'[k] \subseteq io[k]
    PROVE  CallsOverBridges'
<1>1. (\A d \in Call : calls[d].up \subseteq Call) /\ (\A k \in Instance : io[k] \subseteq Call)
  BY DEF BridgeInv, Typed, CallState
<1> QED
  BY <1>1 DEF CallsOverBridges

(* Nothing is damaged but in instances that were before, or that are in    *)
(* the set. *)
LEMMA DamageKept ==
    ASSUME DamageUpstream, bridges' = bridges, failed \subseteq failed',
           \A S \in SUBSET Instance :
               /\ HoldsCallers(S) /\ failed' \subseteq S
               /\ \A i \in Instance : Damaged(i) => i \in S
               => \A i \in Instance : Damaged(i)' => i \in S
    PROVE  DamageUpstream'
BY DEF DamageUpstream, HoldsCallers
LEMMA PanicsDamage ==
    ASSUME DamageInv, NEW c \in Call, NEW i \in Instance, NEW p \in {"lock", "sign"},
           At(c, i, p), Panics(c, i),
           NEW S \in SUBSET Instance, HoldsCallers(S), i \in S,
           \A k \in Instance : Damaged(k) => k \in S,
           NEW k \in Instance, Damaged(k)'
    PROVE  k \in S
<1> DEFINE up == calls[c].up
<1>1. calls[c].on = {i}
  BY DEF At
<1>2. \A b \in up : calls[b].on = {k} => k \in S
  BY <1>1 DEF DamageInv, CallsOverBridges, HoldsCallers
<1>3. /\ calls' = [d \in Call |-> IF d \in up \cup {c} THEN [calls[d] EXCEPT !.pc = "dead"]
                                                    ELSE calls[d]]
      /\ poisoned' = poisoned \cup {<<"hc", j>> : j \in {j \in Instance : hc[j] = {c}}}
                              \cup {<<"io", j>> : j \in {j \in Instance : io[j] \cap up # {}}}
      /\ alive' = alive
  BY DEF Panics
<1>4. \A d \in Call : calls[d] \in CallState
  BY DEF DamageInv, BridgeInv, Typed
<1>5. \A d \in Call : /\ calls'[d].on = calls[d].on
                      /\ d \notin up \cup {c} => calls'[d].pc = calls[d].pc
  BY <1>3, <1>4 DEF CallState
<1> HIDE DEF up
<1>6. CASE <<"hc", k>> \in poisoned'
  <2>1. CASE <<"hc", k>> \in poisoned
    BY <2>1 DEF Damaged
  <2>2. CASE hc[k] = {c}
    BY <1>1, <2>2 DEF DamageInv, BridgeInv, LocksInUse
  <2> QED
    BY <1>3, <1>6, <2>1, <2>2
<1>7. CASE <<"io", k>> \in poisoned'
  <2>1. CASE <<"io", k>> \in poisoned
    BY <2>1 DEF Damaged
  <2>2. CASE io[k] \cap up # {}
    BY <1>2, <2>2 DEF DamageInv, CallsOverBridges
  <2> QED
    BY <1>3, <1>7, <2>1, <2>2
<1>8. CASE ~alive'[k]
  BY <1>3, <1>8 DEF Damaged
<1>9. ASSUME NEW d \in Call, calls'[d].pc = "dead", calls'[d].on = {k} PROVE k \in S
  <2>1. CASE d \in up \cup {c}
    BY <1>1, <1>2, <1>5, <1>9, <2>1
  <2>2. CASE d \notin up \cup {c}
    <3>1. At(d, k, "dead")
      BY <1>5, <1>9, <2>2 DEF At
    <3> QED
      BY <3>1 DEF Damaged
  <2> QED
    BY <2>1, <2>2
<1> QED
  BY <1>6, <1>7, <1>8, <1>9 DEF Damaged, At

(* Steps that damage at most an instance of the set. *)
LEMMA MoveDamage ==
    ASSUME NEW i \in Instance, NEW S,
           \A k \in Instance : Damaged(k) => k \in S,
           poisoned' = poisoned, \A k \in Instance \ {i} : alive'[k] = alive[k],
           i \in S \/ alive'[i] = alive[i],
           \A c \in Call : calls'[c].pc = "dead" =>
               \/ calls[c].pc = "dead" /\ calls'[c].on = calls[c].on
               \/ i \in S /\ calls'[c].on = {i},
           NEW k \in Instance, Damaged(k)'
    PROVE  k \in S
<1>1. CASE <<"hc", k>> \in poisoned \/ <<"io", k>> \in poisoned
  BY <1>1 DEF Damaged
<1>2. CASE ~alive'[k]
  BY <1>2 DEF Damaged
<1>3. ASSUME NEW d \in Call, calls'[d].pc = "dead", calls'[d].on = {k} PROVE k \in S
  BY <1>3 DEF Damaged, At
<1> QED
  BY <1>1, <1>2, <1>3 DEF Damaged, At
LEMMA DamageInvInit == Init => DamageInv
<1> SUFFICES ASSUME Init PROVE DamageInv
  OBVIOUS
<1>1. \A c \in Call : calls[c].pc = "none" /\ calls[c].up = {}
  BY DEF Init, NoCall
<1>2. CallsOverBridges
  BY <1>1 DEF Init, CallsOverBridges
<1>3. \A i \in Instance : ~Damaged(i)
  BY <1>1 DEF Init, Damaged, At
<1> QED
  BY <1>2, <1>3, BridgeInvInit DEF Init, DamageInv, DamageUpstream

(* The calls that are made. *)
LEMMA NewDamage ==
    ASSUME DamageInv, bridges' = bridges, UNCHANGED <<poisoned, alive, failed>>, BridgeInv',
           NEW d \in Call, calls[d].pc = "none", calls'[d].pc # "dead",
           \A c \in Call \ {d} :
               /\ calls'[c].on = calls[c].on /\ calls'[c].up = calls[c].up
               /\ calls'[c].pc = calls[c].pc \/ calls'[c].pc = "call",
           \A c \in calls'[d].up : c # d /\ \A i, j \in Instance :
               calls[c].on = {i} /\ calls'[d].on = {j} => i = j \/ <<i, j>> \in bridges,
           \A k \in Instance : \A c \in io'[k] : c \in io[k] \/ (c \in Call \ {d} /\ calls[c].on = {k})
    PROVE  DamageInv'
<1>1. /\ \A e \in Call : calls[e].up \subseteq Call /\ calls'[e].up \subseteq Call /\ d \notin calls[e].up
      /\ \A k \in Instance : io[k] \subseteq Call /\ d \notin io[k]
  BY DEF DamageInv, BridgeInv, Typed, CallState, CallersWait, LocksInUse
<1>2. CallsOverBridges'
  <2>1. ASSUME NEW e \in Call, NEW c \in calls'[e].up, NEW i \in Instance, NEW j \in Instance,
               calls'[c].on = {i}, calls'[e].on = {j}
        PROVE  i = j \/ <<i, j>> \in bridges'
    <3>1. CASE e = d
      BY <1>1, <2>1, <3>1
    <3>2. CASE e # d
      <4>1. c \in calls[e].up /\ c \in Call \ {d}
        BY <1>1, <2>1, <3>2
      <4> QED
        BY <2>1, <3>2, <4>1 DEF DamageInv, CallsOverBridges
    <3> QED
      BY <3>1, <3>2
  <2>2. \A i \in Instance : \A c \in io'[i] : calls'[c].on = {i}
    BY <1>1 DEF DamageInv, CallsOverBridges
  <2> QED
    BY <2>1, <2>2 DEF CallsOverBridges
<1>3. \A k \in Instance : Damaged(k)' => Damaged(k)
  BY DEF Damaged, At
<1>4. DamageUpstream'
  BY <1>3 DEF DamageInv, DamageUpstream, HoldsCallers
<1> QED
  BY <1>2, <1>4 DEF DamageInv
LEMMA DamageInvStep == DamageInv /\ [Next]_vars => DamageInv'
<1> SUFFICES ASSUME DamageInv, [Next]_vars PROVE DamageInv'
  OBVIOUS
<1>0. BridgeInv /\ BridgeInv' /\ calls \in [Call -> CallState]
      /\ alive \in [Instance -> BOOLEAN] /\ DamageUpstream
  BY BridgeInvStep DEF DamageInv, BridgeInv, Typed
<1>1. ASSUME bridges' = bridges, failed \subseteq failed', alive' \in [Instance -> BOOLEAN],
             \A c \in Call : calls'[c].on = calls[c].on /\ calls'[c].up = calls[c].up,
             \A k \in Instance : io'[k] \subseteq io[k],
             NEW i \in Instance,
             \A S \in SUBSET Instance :
                 /\ HoldsCallers(S) /\ failed' \subseteq S
                 /\ \A k \in Instance : Damaged(k) => k \in S
                 => \A k \in Instance : Damaged(k)' => k \in S
      PROVE  DamageInv'
  <2>1. CallsOverBridges'
    BY <1>0, <1>1, CallsOverBridgesKept DEF DamageInv
  <2>2. DamageUpstream'
    BY <1>0, <1>1, DamageKept
  <2> QED
    BY <1>0, <1>1, <2>1, <2>2 DEF DamageInv
<1>2. ASSUME UNCHANGED <<bridges, failed, poisoned>>, alive' \in [Instance -> BOOLEAN],
             \A c \in Call : /\ calls'[c].on = calls[c].on /\ calls'[c].up = calls[c].up
                             /\ calls'[c].pc = "dead" => calls[c].pc = "dead",
             \A k \in Instance : io'[k] \subseteq io[k],
             NEW i \in Instance, alive' = alive
      PROVE  DamageInv'
  <2>1. \A k \in Instance : Damaged(k)' => Damaged(k)
    BY <1>2 DEF Damaged, At
  <2> QED
    BY <1>1, <1>2, <2>1
<1>3. ASSUME NEW i \in Instance, ActionLoop(i) PROVE DamageInv'
  <2> DEFINE a == Head(queue[i])
             q == IF a.type = "Commit" THEN "ran" ELSE "returned"
  <2>1. calls' = [d \in Call |-> IF d # a.call THEN calls[d] ELSE [calls[d] EXCEPT !.pc = q]]
    BY <1>3 DEF ActionLoop
  <2>2. q # "dead"
    OBVIOUS
  <2> HIDE DEF a, q
  <2>3. \A c \in Call : /\ calls'[c].on = calls[c].on /\ calls'[c].up = calls[c].up
                        /\ calls'[c].pc = "dead" => calls[c].pc = "dead"
    BY <1>0, <2>1, <2>2 DEF CallState
  <2> QED
    BY <1>0, <1>2, <1>3, <2>3 DEF ActionLoop
<1>4. ASSUME NEW i \in Instance, LoopPanics(i) PROVE DamageInv'
  <2>1. /\ UNCHANGED <<bridges, calls, io, failed, poisoned>> /\ <<"io", i>> \in poisoned
        /\ alive' = [alive EXCEPT ![i] = FALSE]
    BY <1>4 DEF LoopPanics, HandlerPoisoned, Handler
  <2>2. alive' \in [Instance -> BOOLEAN] /\ \A k \in Instance \ {i} : alive'[k] = alive[k]
    BY <1>0, <2>1
  <2>3. ASSUME NEW S \in SUBSET Instance, \A k \in Instance : Damaged(k) => k \in S,
               NEW k \in Instance, Damaged(k)'
        PROVE  k \in S
    <3>1. i \in S
      BY <2>1, <2>3 DEF Damaged
    <3> QED
      BY <2>1, <2>2, <2>3, <3>1 DEF Damaged, At
  <2> QED
    BY <1>1, <2>1, <2>2, <2>3
<1>5. ASSUME NEW i \in Instance, NEW c \in Call, NEW q \in Stage \ {"dead"}, Goto(c, q),
             UNCHANGED <<bridges, io, poisoned, alive, failed>>
      PROVE  DamageInv'
  BY <1>0, <1>2, <1>5, Moving
<1>6. ASSUME NEW i \in Instance, NEW c \in Call, Lock(c, i) \/ Sign(c, i) \/ Commit(c, i) \/ Return(c, i)
      PROVE  DamageInv'
  BY <1>5, <1>6 DEF Lock, Sign, Commit, Return, Stage
<1>7. ASSUME NEW i \in Instance, NEW c \in Call, NEW p \in {"lock", "sign"}, At(c, i, p),
             Panics(c, i), failed \subseteq failed', Damaged(i) \/ i \in failed'
      PROVE  DamageInv'
  <2>1. /\ UNCHANGED <<bridges, alive>>
        /\ calls' = [d \in Call |-> IF d \in calls[c].up \cup {c} THEN [calls[d] EXCEPT !.pc = "dead"]
                                                                 ELSE calls[d]]
        /\ \A k \in Instance : io'[k] \subseteq io[k]
    BY <1>7 DEF Panics
  <2>2. \A d \in Call : calls'[d].on = calls[d].on /\ calls'[d].up = calls[d].up
    BY <1>0, <2>1 DEF CallState
  <2>3. ASSUME NEW S \in SUBSET Instance, HoldsCallers(S), failed' \subseteq S,
               \A k \in Instance : Damaged(k) => k \in S, NEW k \in Instance, Damaged(k)'
        PROVE  k \in S
    BY <1>7, <2>3, PanicsDamage
  <2> QED
    BY <1>0, <1>1, <1>7, <2>1, <2>2, <2>3
<1>8. ASSUME NEW i \in Instance, NEW c \in Call, LockPanics(c, i) PROVE DamageInv'
  BY <1>7, <1>8 DEF LockPanics, Damaged
<1>9. ASSUME NEW i \in Instance, NEW c \in Call, SignPanics(c, i) PROVE DamageInv'
  BY <1>7, <1>9 DEF SignPanics, SignFails, HandlerPoisoned, Handler, Damaged
<1>10. ASSUME NEW i \in Instance, NEW c \in Call, ThreadPanics(c, i) PROVE DamageInv'
  <2>1. /\ UNCHANGED <<bridges, io, poisoned, alive>> /\ failed \subseteq failed'
        /\ Goto(c, "dead") /\ calls[c].on = {i} /\ (Damaged(i) \/ i \in failed')
    BY <1>10 DEF ThreadPanics, At, SignFails, HandlerPoisoned, Handler, Damaged
  <2>2. /\ calls'[c].on = calls[c].on /\ calls'[c].up = calls[c].up
        /\ \A d \in Call : d # c => calls'[d] = calls[d]
    BY <1>0, <2>1, Moving DEF Stage
  <2>3. ASSUME NEW S \in SUBSET Instance, failed' \subseteq S,
               \A k \in Instance : Damaged(k) => k \in S, NEW k \in Instance, Damaged(k)'
        PROVE  k \in S
    <3>1. i \in S
      BY <2>1, <2>3
    <3> QED
      BY <2>1, <2>2, <2>3, <3>1, MoveDamage
  <2>4. \A d \in Call : calls'[d].on = calls[d].on /\ calls'[d].up = calls[d].up
    BY <2>2
  <2> QED
    BY <1>0, <1>1, <2>1, <2>3, <2>4
<1>11. ASSUME NEW i \in Instance, NEW c \in Call, Returned(c, i) PROVE DamageInv'
  <2>1. /\ UNCHANGED <<bridges, poisoned, alive, failed>>
        /\ calls' = [d \in Call |-> IF d = c THEN [calls[d] EXCEPT !.pc = "done"]
                                    ELSE IF d \in calls[c].up THEN [calls[d] EXCEPT !.pc = "ran"]
                                    ELSE calls[d]]
        /\ \A k \in Instance : io'[k] \subseteq io[k]
    BY <1>11 DEF Returned
  <2>2. \A d \in Call : /\ calls'[d].on = calls[d].on /\ calls'[d].up = calls[d].up
                        /\ calls'[d].pc = "dead" => calls[d].pc = "dead"
    BY <1>0, <2>1 DEF CallState
  <2> QED
    BY <1>0, <1>2, <2>1, <2>2
<1>12. ASSUME NEW i \in Instance, NEW c \in Call, NEW d \in Call, LocalCall(c, i, d) PROVE DamageInv'
  <2>1. /\ calls[c].pc = "run" /\ calls[d].pc = "none" /\ calls[c].on = {i}
        /\ calls' = [calls EXCEPT ![c].pc = "call", ![d] = New(i, "run", {c}, "local")]
        /\ UNCHANGED <<bridges, io, poisoned, alive, failed>>
    BY <1>12 DEF LocalCall, At, Fresh, NoCall
  <2>2. /\ calls'[d].pc = "run" /\ calls'[d].up = {c} /\ calls'[d].on = {i}
        /\ \A e \in Call \ {d} :
             /\ calls'[e].on = calls[e].on /\ calls'[e].up = calls[e].up
             /\ calls'[e].pc = calls[e].pc \/ calls'[e].pc = "call"
    BY <1>0, <2>1 DEF CallState, New
  <2>3. \A e \in calls'[d].up : e # d /\ \A m, n \in Instance :
            calls[e].on = {m} /\ calls'[d].on = {n} => m = n \/ <<m, n>> \in bridges
    BY <2>1, <2>2
  <2>4. UNCHANGED <<poisoned, alive, failed>> /\ bridges' = bridges /\ calls[d].pc = "none"
        /\ calls'[d].pc # "dead"
    BY <2>1, <2>2
  <2>5. \A k \in Instance : \A e \in io'[k] : e \in io[k] \/ (e \in Call \ {d} /\ calls[e].on = {k})
    BY <2>1
  <2> QED
    BY <1>0, <2>2, <2>3, <2>4, <2>5, NewDamage
<1>13. ASSUME NEW i \in Instance, NEW c \in Call, NEW d \in Call, NEW j \in Instance,
              BridgeCall(c, i, d, j)
       PROVE  DamageInv'
  <2>1. /\ calls[c].pc = "run" /\ calls[d].pc = "none" /\ calls[c].on = {i} /\ <<i, j>> \in bridges
        /\ calls' = [calls EXCEPT ![c].pc = "call", ![d] = New(j, "lock", {c}, "bridge")]
        /\ io' = [io EXCEPT ![i] = {c}]
        /\ UNCHANGED <<bridges, poisoned, alive, failed>>
    BY <1>13 DEF BridgeCall, At, Fresh, NoCall, Handler
  <2>2. /\ calls'[d].pc = "lock" /\ calls'[d].up = {c} /\ calls'[d].on = {j}
        /\ \A e \in Call \ {d} :
             /\ calls'[e].on = calls[e].on /\ calls'[e].up = calls[e].up
             /\ calls'[e].pc = calls[e].pc \/ calls'[e].pc = "call"
    BY <1>0, <2>1 DEF CallState, New
  <2>3. \A k \in Instance : \A e \in io'[k] : e \in io[k] \/ (e \in Call \ {d} /\ calls[e].on = {k})
    BY <1>0, <2>1 DEF BridgeInv, Typed
  <2>4. \A e \in calls'[d].up : e # d /\ \A m, n \in Instance :
            calls[e].on = {m} /\ calls'[d].on = {n} => m = n \/ <<m, n>> \in bridges
    BY <2>1, <2>2
  <2>5. UNCHANGED <<poisoned, alive, failed>> /\ bridges' = bridges /\ calls[d].pc = "none"
        /\ calls'[d].pc # "dead"
    BY <2>1, <2>2
  <2> QED
    BY <1>0, <2>2, <2>3, <2>4, <2>5, NewDamage
<1>14. ASSUME NEW i \in Instance, NEW c \in Call, ClientCall(c, i) PROVE DamageInv'
  <2>1. /\ calls[c].pc = "none"
        /\ calls' = [calls EXCEPT ![c] = New(i, "lock", {}, "client")]
        /\ UNCHANGED <<bridges, io, poisoned, alive, failed>>
    BY <1>14 DEF ClientCall, Fresh, NoCall
  <2>2. /\ calls'[c].pc = "lock" /\ calls'[c].up = {}
        /\ \A e \in Call \ {c} : calls'[e] = calls[e]
    BY <1>0, <2>1 DEF New
  <2> QED
    BY <1>0, <2>1, <2>2, NewDamage
<1>15. ASSUME NEW i \in Instance, Receive(i) PROVE DamageInv'
  BY <1>0, <1>2, <1>15 DEF Receive
<1>16. CASE UNCHANGED vars
  <2>1. CallsOverBridges'
    BY <1>0, <1>16, CallsOverBridgesKept DEF vars, DamageInv
  <2>2. DamageUpstream'
    BY <1>16 DEF vars, DamageInv, DamageUpstream, HoldsCallers, Damaged, At
  <2> QED
    BY <1>0, <1>16, <2>1, <2>2 DEF vars, DamageInv
<1> QED
  BY <1>3, <1>4, <1>6, <1>8, <1>9, <1>10, <1>11, <1>12, <1>13, <1>14, <1>15, <1>16
     DEF Next, Work, CallStep

(* What a failing signature damages, poisoned locks, threads and action    *)
(* loops that are gone, is in every set of instances that holds the ones   *)
(* where a signature failed and, with an instance, those that have a       *)
(* bridge to it: damage spreads to callers only (the unwraps in            *)
(* setup_call_api, call.rs and core/src/conductor_api.rs).                 *)
THEOREM DamageStaysUpstream == Spec => []DamageUpstream
<1>1. DamageInv => DamageUpstream
  BY DEF DamageInv
<1> QED
  BY <1>1, DamageInvInit, DamageInvStep, PTL DEF Spec
=============================================================================
