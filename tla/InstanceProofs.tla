--------------------------- MODULE InstanceProofs ---------------------------
(***************************************************************************)
(* Proofs about Instance, for every set of threads, every number of jobs   *)
(* and every capacity of the channels.                                     *)
(***************************************************************************)
EXTENDS Instance, SequenceTheorems, TLAPS

(* Where a thread is that has not dispatched its present job's action. *)
Undispatched == {"observe", "lock", "dispatch", "ready"}

(* The loop has an action in hand only between reducing and publishing. *)
TakenWhileReduced == loop # "reduced" => taken = <<>>

(* Actions are numbered by the jobs that their threads have started, and a *)
(* thread that has yet to dispatch has none under its present number.      *)
Numbered ==
    \A k \in DOMAIN Order :
        LET a == Order[k] IN
        /\ a[2] <= jobs[a[1]]
        /\ pc[a[1]] \in Undispatched => a[2] < jobs[a[1]]

(* A job that only fires an action never waits for the loop. *)
FiresDispatch ==
    \A t \in Thread :
        /\ pc[t] # "idle" => jobs[t] > 0
        /\ job[t] = "fire" => pc[t] \in {"idle", "dispatch"}

(* The inductive invariant that the order of actions rests on. *)
OrderInv == TypeOK /\ TakenWhileReduced /\ FiresDispatch /\ Numbered /\ InOrder

-----------------------------------------------------------------------------
(* The three parts of Order are a sequence of actions. *)
LEMMA OrderType ==
    ASSUME TypeOK
    PROVE  /\ Order \in Seq(Id)
           /\ Len(Order) = Len(history) + Len(taken) + Len(action_channel)
           /\ DOMAIN Order = 1 .. Len(Order)
<1>1. /\ history \in Seq(Id) /\ taken \in Seq(Id) /\ action_channel \in Seq(Id)
  BY DEF TypeOK
<1>2. /\ history \o taken \in Seq(Id)
      /\ Len(history \o taken) = Len(history) + Len(taken)
  BY <1>1, ConcatProperties
<1>3. /\ (history \o taken) \o action_channel \in Seq(Id)
      /\ Len((history \o taken) \o action_channel) = Len(history \o taken) + Len(action_channel)
  BY <1>1, <1>2, ConcatProperties
<1> QED
  BY <1>2, <1>3, LenProperties DEF Order

(* What the loop's and the threads' control guarantees of the types. *)
ControlInv == TypeOK /\ TakenWhileReduced /\ FiresDispatch

(* The action or observer of a job under way belongs to a started job. *)
LEMMA MineInId ==
    ASSUME TypeOK, FiresDispatch, NEW t \in Thread, pc[t] # "idle"
    PROVE  Mine(t) \in Id
BY MaxJobsAssumption DEF TypeOK, FiresDispatch, Mine, Id

(* The variables keep their types, and the channels their capacities.      *)
LEMMA ControlStep ==
    ASSUME ControlInv, [Next]_vars
    PROVE  ControlInv'
<1> USE BufAssumption, MaxJobsAssumption, JobAssumption DEF ControlInv
<1>1. ASSUME NEW t \in Thread, NEW j \in Job, Start(t, j)
      PROVE  ControlInv'
  BY <1>1 DEF TypeOK, TakenWhileReduced, FiresDispatch, Start, chans
<1>2. ASSUME NEW t \in Thread, CreateObserver(t)
      PROVE  ControlInv'
  <2>1. Mine(t) \in Id
    BY <1>2, MineInId DEF CreateObserver
  <2>2. /\ observer_channel' \in Seq(Id)
        /\ Len(observer_channel') <= Buf
    BY <1>2, <2>1, AppendProperties DEF CreateObserver, TypeOK
  <2> QED
    BY <1>2, <2>2 DEF TypeOK, TakenWhileReduced, FiresDispatch, CreateObserver
<1>3. ASSUME NEW t \in Thread, KeepGuard(t)
      PROVE  ControlInv'
  BY <1>3 DEF TypeOK, TakenWhileReduced, FiresDispatch, KeepGuard, chans
<1>4. ASSUME NEW t \in Thread, DispatchAction(t)
      PROVE  ControlInv'
  <2>1. Mine(t) \in Id
    BY <1>4, MineInId DEF DispatchAction
  <2>2. /\ action_channel' \in Seq(Id)
        /\ Len(action_channel') <= Buf
    BY <1>4, <2>1, AppendProperties DEF DispatchAction, TypeOK
  <2> QED
    BY <1>4, <2>2 DEF TypeOK, TakenWhileReduced, FiresDispatch, DispatchAction
<1>5. ASSUME NEW t \in Thread, BlockOnReturns(t)
      PROVE  ControlInv'
  BY <1>5 DEF TypeOK, TakenWhileReduced, FiresDispatch, BlockOnReturns, chans
<1>6. CASE Reduce
  <2>1. /\ Head(action_channel) \in Id
        /\ Tail(action_channel) \in Seq(Id)
        /\ Len(Tail(action_channel)) <= Buf
    BY <1>6, HeadTailProperties, LenProperties DEF Reduce, TypeOK
  <2>2. taken' \in Seq(Id)
    BY <1>6, <2>1 DEF Reduce
  <2> QED
    BY <1>6, <2>1, <2>2 DEF TypeOK, TakenWhileReduced, FiresDispatch, Reduce
<1>7. CASE ChangeState
  <2>1. /\ history' \in Seq(Id)
        /\ taken' \in Seq(Id)
    BY <1>7, ConcatProperties DEF ChangeState, TypeOK
  <2> QED
    BY <1>7, <2>1 DEF TypeOK, TakenWhileReduced, FiresDispatch, ChangeState, chans
<1>8. CASE TickObservers
  <2>1. Elements(observer_channel) \subseteq Id
    BY LenProperties, ElementOfSeq DEF Elements, TypeOK
  <2>2. /\ observer_channel' \in Seq(Id)
        /\ Len(observer_channel') <= Buf
    BY <1>8 DEF TickObservers
  <2> QED
    BY <1>8, <2>1, <2>2 DEF TypeOK, TakenWhileReduced, FiresDispatch, TickObservers
<1>9. CASE UNCHANGED vars
  BY <1>9 DEF TypeOK, TakenWhileReduced, FiresDispatch, vars
<1> QED
  BY <1>1, <1>2, <1>3, <1>4, <1>5, <1>6, <1>7, <1>8, <1>9
     DEF Next, ThreadStep, ProcessAction

LEMMA ControlInit ==
    ASSUME Init
    PROVE  ControlInv
BY BufAssumption, MaxJobsAssumption
   DEF Init, ControlInv, TypeOK, TakenWhileReduced, FiresDispatch
-----------------------------------------------------------------------------
(* Taking an action and publishing it leave its place in the order; only   *)
(* dispatching one adds to it, at the end.                                 *)
LEMMA OrderKept ==
    ASSUME ControlInv, Reduce \/ ChangeState
    PROVE  Order' = Order
<1> DEFINE H == history  T == taken  A == action_channel
<1>1. /\ H \in Seq(Id) /\ T \in Seq(Id) /\ A \in Seq(Id)
  BY DEF ControlInv, TypeOK
<1>2. CASE Reduce
  <2>1. T = <<>>
    BY <1>2 DEF Reduce, ControlInv, TakenWhileReduced
  <2>2. /\ <<Head(A)>> \in Seq(Id) /\ Tail(A) \in Seq(Id)
        /\ A = <<Head(A)>> \o Tail(A)
    BY <1>1, <1>2, HeadTailProperties DEF Reduce
  <2>3. (H \o <<Head(A)>>) \o Tail(A) = H \o (<<Head(A)>> \o Tail(A))
    BY <1>1, <2>2, ConcatAssociative
  <2>4. (H \o T) \o A = H \o A
    BY <1>1, <2>1, ConcatEmptySeq
  <2> QED
    BY <1>2, <2>2, <2>3, <2>4 DEF Reduce, Order
<1>3. CASE ChangeState
  <2>1. H \o T \in Seq(Id)
    BY <1>1, ConcatProperties
  <2>2. (H \o T) \o <<>> = H \o T
    BY <2>1, ConcatEmptySeq
  <2> QED
    BY <1>3, <2>2 DEF ChangeState, Order, chans
<1> QED
  BY <1>2, <1>3

LEMMA OrderAppended ==
    ASSUME ControlInv, NEW t \in Thread, DispatchAction(t)
    PROVE  Order' = Append(Order, Mine(t))
<1> DEFINE HT == history \o taken
<1>1. HT \in Seq(Id) /\ action_channel \in Seq(Id) /\ Mine(t) \in Id
  BY ConcatProperties, MineInId DEF ControlInv, TypeOK, DispatchAction
<1>2. /\ Append(action_channel, Mine(t)) = action_channel \o <<Mine(t)>>
      /\ Append(HT \o action_channel, Mine(t)) = (HT \o action_channel) \o <<Mine(t)>>
      /\ <<Mine(t)>> \in Seq(Id)
  BY <1>1, AppendIsConcat, ConcatProperties
<1>3. HT \o (action_channel \o <<Mine(t)>>) = (HT \o action_channel) \o <<Mine(t)>>
  BY <1>1, <1>2, ConcatAssociative
<1> QED
  BY <1>2, <1>3 DEF DispatchAction, Order

(* Numbered and InOrder are kept by a step that adds no action and lets no *)
(* thread go back before its dispatch.                                     *)
LEMMA SameOrder ==
    ASSUME ControlInv, ControlInv', Numbered, InOrder, Order' = Order,
           \A t \in Thread : \/ jobs'[t] = jobs[t] /\ (pc'[t] \in Undispatched => pc[t] \in Undispatched)
                             \/ jobs'[t] > jobs[t]
    PROVE  Numbered' /\ InOrder'
<1>1. DOMAIN Order = 1 .. Len(Order) /\ Order \in Seq(Id)
  BY OrderType DEF ControlInv
<1>2. ASSUME NEW k \in DOMAIN Order
      PROVE  /\ Order[k][2] <= jobs'[Order[k][1]]
             /\ pc'[Order[k][1]] \in Undispatched => Order[k][2] < jobs'[Order[k][1]]
  <2>1. Order[k] \in Id
    BY <1>1, <1>2
  <2>2. PICK u \in Thread, n \in 1 .. MaxJobs : Order[k] = <<u, n>>
    BY <2>1 DEF Id
  <2>3. n <= jobs[u] /\ (pc[u] \in Undispatched => n < jobs[u])
    BY <1>2, <2>2 DEF Numbered
  <2>4. jobs[u] \in Nat /\ jobs'[u] \in Nat /\ n \in Nat
    BY MaxJobsAssumption DEF ControlInv, TypeOK
  <2> QED
    BY <2>2, <2>3, <2>4
<1> QED
  BY <1>2 DEF Numbered, InOrder
(* A dispatched action has the highest number of its thread so far. *)
LEMMA Dispatched ==
    ASSUME OrderInv, ControlInv', NEW t \in Thread, DispatchAction(t)
    PROVE  Numbered' /\ InOrder'
<1>0. ControlInv /\ Numbered /\ InOrder
  BY DEF OrderInv, ControlInv
<1>1. /\ Order \in Seq(Id) /\ DOMAIN Order = 1 .. Len(Order)
      /\ Order' = Append(Order, Mine(t))
      /\ Mine(t) \in Id
  BY <1>0, OrderType, OrderAppended, MineInId DEF ControlInv, DispatchAction
<1>2. /\ Len(Order) \in Nat
      /\ Len(Order') = Len(Order) + 1
      /\ \A k \in 1 .. Len(Order) : Order'[k] = Order[k]
      /\ Order'[Len(Order) + 1] = Mine(t)
      /\ Order' \in Seq(Id)
  BY <1>1, AppendProperties, LenProperties
<1>b. DOMAIN Order' = 1 .. Len(Order) + 1
  BY <1>2, LenProperties
<1>3. /\ jobs' = jobs
      /\ pc[t] = "dispatch" /\ pc'[t] \in {"idle", "polling"}
      /\ \A u \in Thread : u # t => pc'[u] = pc[u]
      /\ \A u \in Thread : jobs[u] \in Nat
  BY <1>0, MaxJobsAssumption DEF DispatchAction, ControlInv, TypeOK
<1>4. ASSUME NEW k \in 1 .. Len(Order)
      PROVE  /\ Order[k][1] \in Thread /\ Order[k][2] \in Nat
             /\ Order[k][2] <= jobs[Order[k][1]]
             /\ Order[k][1] = t => Order[k][2] < jobs[t]
             /\ pc'[Order[k][1]] \in Undispatched => Order[k][2] < jobs[Order[k][1]]
  <2>1. Order[k] \in Id
    BY <1>1, <1>4
  <2>2. /\ Order[k][1] \in Thread /\ Order[k][2] \in Nat
    BY <2>1 DEF Id
  <2>3. /\ Order[k][2] <= jobs[Order[k][1]]
        /\ pc[Order[k][1]] \in Undispatched => Order[k][2] < jobs[Order[k][1]]
    BY <1>0, <1>1, <1>4 DEF Numbered
  <2> QED
    BY <1>3, <2>2, <2>3 DEF Undispatched
<1>5. Numbered'
  <2> SUFFICES ASSUME NEW k \in 1 .. Len(Order) + 1
               PROVE  /\ Order'[k][2] <= jobs[Order'[k][1]]
                      /\ pc'[Order'[k][1]] \in Undispatched => Order'[k][2] < jobs[Order'[k][1]]
    BY <1>2, <1>3, <1>b DEF Numbered
  <2>1. CASE k \in 1 .. Len(Order)
    BY <1>2, <1>4, <2>1
  <2>2. CASE k = Len(Order) + 1
    BY <1>2, <1>3, <2>2 DEF Mine, Undispatched
  <2> QED
    BY <1>2, <2>1, <2>2
<1>6. InOrder'
  <2> SUFFICES ASSUME NEW i \in 1 .. Len(Order) + 1, NEW j \in 1 .. Len(Order) + 1, i < j
               PROVE  /\ Order'[i] # Order'[j]
                      /\ Order'[i][1] = Order'[j][1] => Order'[i][2] < Order'[j][2]
    BY <1>b DEF InOrder
  <2>1. CASE j \in 1 .. Len(Order)
    <3>1. i \in 1 .. Len(Order)
      BY <1>2, <2>1
    <3> QED
      BY <1>0, <1>1, <1>2, <2>1, <3>1 DEF InOrder
  <2>2. CASE j = Len(Order) + 1
    <3>1. i \in 1 .. Len(Order)
      BY <1>2, <2>2
    <3>2. Order'[j][1] = t /\ Order'[j][2] = jobs[t]
      BY <1>2, <2>2 DEF Mine
    <3>3. Order'[i][1] = t => Order'[i][2] < jobs[t]
      BY <1>2, <1>4, <3>1
    <3>4. Order'[i][2] \in Nat /\ jobs[t] \in Nat
      BY <1>2, <1>3, <1>4, <3>1
    <3> QED
      BY <3>2, <3>3, <3>4
  <2> QED
    BY <1>2, <2>1, <2>2
<1> QED
  BY <1>5, <1>6

LEMMA OrderStep ==
    ASSUME OrderInv, [Next]_vars
    PROVE  OrderInv'
<1>0. ControlInv /\ ControlInv' /\ Numbered /\ InOrder
  BY ControlStep DEF OrderInv, ControlInv
<1>a. \A t \in Thread : jobs[t] \in Nat /\ jobs'[t] \in Nat
  BY <1>0, MaxJobsAssumption DEF ControlInv, TypeOK
<1> SUFFICES Numbered' /\ InOrder'
  BY <1>0 DEF OrderInv, ControlInv
<1>1. ASSUME NEW t \in Thread, NEW j \in Job, Start(t, j)
      PROVE  Numbered' /\ InOrder'
  <2>1. Order' = Order
    BY <1>1 DEF Start, Order, chans
  <2>2. \A u \in Thread : \/ jobs'[u] = jobs[u] /\ (pc'[u] \in Undispatched => pc[u] \in Undispatched)
                          \/ jobs'[u] > jobs[u]
    BY <1>0, <1>1, <1>a DEF Start, Undispatched, ControlInv, TypeOK
  <2> QED
    BY <1>0, <2>1, <2>2, SameOrder
<1>2. ASSUME NEW t \in Thread, CreateObserver(t) \/ KeepGuard(t) \/ BlockOnReturns(t)
      PROVE  Numbered' /\ InOrder'
  <2>1. Order' = Order
    BY <1>2 DEF CreateObserver, KeepGuard, BlockOnReturns, Order, chans
  <2>2. \A u \in Thread : jobs'[u] = jobs[u] /\ (pc'[u] \in Undispatched => pc[u] \in Undispatched)
    BY <1>0, <1>2 DEF CreateObserver, KeepGuard, BlockOnReturns, Undispatched, ControlInv, TypeOK
  <2> QED
    BY <1>0, <2>1, <2>2, SameOrder
<1>3. ASSUME NEW t \in Thread, DispatchAction(t)
      PROVE  Numbered' /\ InOrder'
  BY <1>0, <1>3, Dispatched
<1>4. CASE Reduce \/ ChangeState
  <2>1. Order' = Order
    BY <1>0, <1>4, OrderKept
  <2>2. \A u \in Thread : jobs'[u] = jobs[u] /\ (pc'[u] \in Undispatched => pc[u] \in Undispatched)
    BY <1>4 DEF Reduce, ChangeState, Undispatched
  <2> QED
    BY <1>0, <2>1, <2>2, SameOrder
<1>5. CASE TickObservers \/ UNCHANGED vars
  <2>1. Order' = Order
    BY <1>5 DEF TickObservers, Order, vars
  <2>2. \A u \in Thread : jobs'[u] = jobs[u] /\ (pc'[u] \in Undispatched => pc[u] \in Undispatched)
    BY <1>5 DEF TickObservers, Undispatched, vars
  <2> QED
    BY <1>0, <2>1, <2>2, SameOrder
<1> QED
  BY <1>1, <1>2, <1>3, <1>4, <1>5 DEF Next, ThreadStep, ProcessAction

LEMMA OrderInit ==
    ASSUME Init
    PROVE  OrderInv
<1>1. ControlInv
  BY ControlInit
<1>2. DOMAIN Order = {}
  <2>1. Len(Order) = 0 /\ DOMAIN Order = 1 .. Len(Order)
    BY <1>1, OrderType DEF Init, ControlInv
  <2> QED
    BY <2>1
<1> QED
  BY <1>1, <1>2 DEF OrderInv, ControlInv, Numbered, InOrder

-----------------------------------------------------------------------------
(* The loop knows the observer of every future that is being awaited; the  *)
(* tick keeps it because its receiver is alive.                            *)
LEMMA ObserverStep ==
    ASSUME ControlInv, ObserverKnown, [Next]_vars
    PROVE  ObserverKnown'
<1> DEFINE Known == state_observers \cup Elements(observer_channel)
<1>0. TypeOK
  BY DEF ControlInv
<1>1. ASSUME NEW t \in Thread, NEW j \in Job, Start(t, j)
      PROVE  ObserverKnown'
  BY <1>0, <1>1 DEF Start, ObserverKnown, Mine, TypeOK, chans, Elements
<1>2. ASSUME NEW t \in Thread, CreateObserver(t)
      PROVE  ObserverKnown'
  <2>1. Mine(t) \in Id
    BY <1>2, MineInId DEF CreateObserver, ControlInv
  <2>2. Elements(observer_channel') = Elements(observer_channel) \cup {Mine(t)}
    <3>1. /\ Len(observer_channel) \in Nat
          /\ DOMAIN observer_channel = 1 .. Len(observer_channel)
          /\ observer_channel' \in Seq(Id)
          /\ Len(observer_channel') = Len(observer_channel) + 1
          /\ \A k \in 1 .. Len(observer_channel) : observer_channel'[k] = observer_channel[k]
          /\ observer_channel'[Len(observer_channel) + 1] = Mine(t)
      BY <1>0, <1>2, <2>1, AppendProperties, LenProperties DEF CreateObserver, TypeOK
    <3>2. DOMAIN observer_channel' = 1 .. Len(observer_channel) + 1
      BY <3>1, LenProperties
    <3> QED
      BY <3>1, <3>2 DEF Elements
  <2> QED
    BY <1>0, <1>2, <2>2 DEF CreateObserver, ObserverKnown, Mine, TypeOK
<1>3. ASSUME NEW t \in Thread, KeepGuard(t) \/ DispatchAction(t) \/ BlockOnReturns(t)
      PROVE  ObserverKnown'
  <2>1. /\ UNCHANGED <<observer_channel, state_observers, job, jobs>>
        /\ \A u \in Thread : pc'[u] \notin {"idle", "observe"} => pc[u] \notin {"idle", "observe"}
    BY <1>0, <1>3 DEF KeepGuard, DispatchAction, BlockOnReturns, TypeOK, chans
  <2> QED
    BY <2>1 DEF ObserverKnown, Mine, Elements
<1>4. CASE Reduce \/ ChangeState
  BY <1>4 DEF Reduce, ChangeState, ObserverKnown, Mine, chans, Elements
<1>5. CASE TickObservers
  BY <1>5 DEF TickObservers, ObserverKnown, Mine, HasReceiver
<1>6. CASE UNCHANGED vars
  BY <1>6 DEF vars, ObserverKnown, Mine, Elements
<1> QED
  BY <1>1, <1>2, <1>3, <1>4, <1>5, <1>6 DEF Next, ThreadStep, ProcessAction
(* A future that resolves because its own action is visible leaves none of *)
(* its thread's actions behind it: they would have higher numbers.         *)
LEMMA NoneBehind ==
    ASSUME OrderInv, NEW t \in Thread, pc[t] = "polling", Mine(t) \in Elements(history),
           NEW a \in Elements(taken \o action_channel)
    PROVE  a[1] # t
<1> DEFINE rest == taken \o action_channel
<1>0. history \in Seq(Id) /\ taken \in Seq(Id) /\ action_channel \in Seq(Id)
  BY DEF OrderInv, TypeOK
<1>1. rest \in Seq(Id) /\ Order = history \o rest
  BY <1>0, ConcatProperties, ConcatAssociative DEF Order
<1>2. PICK i \in DOMAIN history : history[i] = Mine(t)
  BY DEF Elements
<1>3. PICK j \in DOMAIN rest : rest[j] = a
  BY DEF Elements
<1> HIDE DEF rest
<1>4. /\ i \in 1 .. Len(history) /\ j \in 1 .. Len(rest)
      /\ Len(history) \in Nat /\ Len(rest) \in Nat
  BY <1>0, <1>1, LenProperties
<1>5. /\ Len(Order) = Len(history) + Len(rest)
      /\ DOMAIN Order = 1 .. Len(Order)
      /\ \A k \in 1 .. Len(history) + Len(rest) :
            Order[k] = IF k <= Len(history) THEN history[k] ELSE rest[k - Len(history)]
  BY <1>0, <1>1, ConcatProperties, LenProperties
<1>6. /\ i \in DOMAIN Order /\ Order[i] = Mine(t)
      /\ Len(history) + j \in DOMAIN Order /\ i < Len(history) + j
      /\ Order[Len(history) + j] = a
  BY <1>2, <1>3, <1>4, <1>5
<1>7. a \in Id
  BY <1>1, <1>3, <1>4
<1>8. a[2] <= jobs[a[1]] /\ a[2] \in Nat /\ jobs[t] \in Nat
  BY <1>6, <1>7, MaxJobsAssumption DEF OrderInv, Numbered, TypeOK, Id
<1>9. Mine(t)[1] = a[1] => Mine(t)[2] < a[2]
  BY <1>6 DEF OrderInv, InOrder
<1> QED
  BY <1>8, <1>9 DEF Mine

-----------------------------------------------------------------------------
(* The channels never hold more than DEFAULT_CHANNEL_BUF_SIZE elements and *)
(* the loop and the threads stay in their states, for any number of        *)
(* threads and jobs (Context::create_observer, dispatch_action).           *)
THEOREM TypeCorrect == Spec => []TypeOK
<1>1. Init => ControlInv
  BY ControlInit
<1>2. ControlInv /\ [Next]_vars => ControlInv'
  BY ControlStep
<1>3. ControlInv => TypeOK
  BY DEF ControlInv
<1> QED
  BY <1>1, <1>2, <1>3, PTL DEF Spec

(* Every action takes effect at most once, and those of one thread in the  *)
(* order in which it dispatched them (process_action).                     *)
THEOREM ActionsInOrder == Spec => []InOrder
<1>1. Init => OrderInv
  BY OrderInit
<1>2. OrderInv /\ [Next]_vars => OrderInv'
  BY OrderStep
<1>3. OrderInv => InOrder
  BY DEF OrderInv
<1> QED
  BY <1>1, <1>2, <1>3, PTL DEF Spec

(* From create_observer to the return of block_on the loop knows the       *)
(* observer of the future: no tick in between forgets it                   *)
(* (process_action retains the observers whose receivers are alive).       *)
THEOREM ObserversAlwaysKnown == Spec => []ObserverKnown
<1>1. Init => ControlInv /\ ObserverKnown
  BY ControlInit DEF Init, ObserverKnown
<1>2. ControlInv /\ ObserverKnown /\ [Next]_vars => (ControlInv /\ ObserverKnown)'
  BY ControlStep, ObserverStep
<1> QED
  BY <1>1, <1>2, PTL DEF Spec

(* When the block_on of a thread returns, everything that the thread ever  *)
(* dispatched is in the visible state, what it did not wait for included   *)
(* (block_on, dispatch_action_and_wait).                                   *)
THEOREM OwnWritesRead == Spec => ReadsOwnWrites
<1>1. Init => OrderInv
  BY OrderInit
<1>2. OrderInv /\ [Next]_vars => OrderInv'
  BY OrderStep
<1>3. OrderInv /\ [Next]_vars
        => [\A t \in Thread : pc[t] = "polling" /\ pc'[t] = "idle" =>
              \A a \in Elements(taken \o action_channel) : a[1] # t]_vars
  <2> SUFFICES ASSUME OrderInv, [Next]_vars, NEW t \in Thread,
                      pc[t] = "polling", pc'[t] = "idle",
                      NEW a \in Elements(taken \o action_channel)
               PROVE  a[1] # t
    OBVIOUS
  <2>1. BlockOnReturns(t)
    BY DEF OrderInv, TypeOK, Next, vars, Start, ThreadStep, CreateObserver, KeepGuard,
           DispatchAction, BlockOnReturns, Ready, ProcessAction, Reduce, ChangeState, TickObservers
  <2>2. Mine(t) \in Elements(history)
    BY <2>1 DEF BlockOnReturns, Ready
  <2> QED
    BY <2>2, NoneBehind
<1> QED
  BY <1>1, <1>2, <1>3, PTL DEF Spec, ReadsOwnWrites
=============================================================================
