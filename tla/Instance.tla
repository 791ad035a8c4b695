------------------------------ MODULE Instance ------------------------------
(***************************************************************************)
(* The redux loop of an instance (core/src/instance.rs) and the threads    *)
(* that use it (core/src/context.rs).  Threads put actions on a bounded    *)
(* channel; one thread takes them, reduces the state under a read lock,    *)
(* publishes the result under the write lock and then ticks the observers, *)
(* which reach it over a second bounded channel.                           *)
(*                                                                         *)
(* What a thread asks of the loop is one of these jobs:                    *)
(*   fire    dispatch an action and go on (timers, network handlers)       *)
(*   wait    dispatch_action_and_wait, or block_on of a future that        *)
(*           dispatches an action and polls for its effect (commit, hold)  *)
(*   local   block_on of a future that is ready when it is first polled    *)
(*           and dispatches nothing (get_entry of a locally held entry)    *)
(*   get     get_entry_with_meta_workflow when the local headers cannot be *)
(*           read: the match on context.state() keeps its read guard while *)
(*           the network look-up is awaited                                *)
(* The 10 ms of recv_timeout bound the wait for a tick, so a blocked       *)
(* future is polled with or without one: ticks in transit are left out.    *)
(***************************************************************************)
EXTENDS Naturals, Sequences, FiniteSets

CONSTANTS
    Thread,   \* the threads that hold a Context
    Job,      \* the jobs they may start, of those above
    MaxJobs,  \* bound on the jobs started by one thread
    Buf       \* DEFAULT_CHANNEL_BUF_SIZE, the capacity of both channels

ASSUME JobAssumption == Job \subseteq {"fire", "wait", "local", "get"}
ASSUME MaxJobsAssumption == MaxJobs \in Nat
ASSUME BufAssumption == Buf \in Nat \ {0}

VARIABLES
    action_channel,    \* actions dispatched and not yet taken
    observer_channel,  \* observers created and not yet taken
    state_observers,   \* the observers the loop ticks
    history,           \* the actions in the visible state, in their order
    taken,             \* the action the loop is processing, in a sequence
    guards,            \* threads that keep a read guard on the state
    loop,              \* where the loop's thread is
    pc,                \* where each thread is
    job,               \* the job it is doing
    jobs               \* how many it has started

chans == <<action_channel, observer_channel>>
vars == <<action_channel, observer_channel, state_observers, history, taken,
          guards, loop, pc, job, jobs>>

(* An ActionWrapper and an Observer are identified by the job they belong  *)
(* to: the id of an ActionWrapper is unique in the process.                *)
Id == Thread \X (1 .. MaxJobs)

Mine(t) == <<t, jobs[t]>>

(* The receiving end of an observer is dropped when block_on returns.      *)
HasReceiver(o) == jobs[o[1]] = o[2] /\ pc[o[1]] \notin {"idle", "observe"}

Elements(s) == {s[i] : i \in DOMAIN s}

-----------------------------------------------------------------------------
Init ==
    /\ action_channel = <<>>
    /\ observer_channel = <<>>
    /\ state_observers = {}
    /\ history = <<>>
    /\ taken = <<>>
    /\ guards = {}
    /\ loop = "recv"
    /\ pc = [t \in Thread |-> "idle"]
    /\ job = [t \in Thread |-> "wait"]
    /\ jobs = [t \in Thread |-> 0]

Start(t, j) ==
    /\ pc[t] = "idle"
    /\ jobs[t] < MaxJobs
    /\ jobs' = [jobs EXCEPT ![t] = @ + 1]
    /\ job' = [job EXCEPT ![t] = j]
    /\ pc' = [pc EXCEPT ![t] = IF j = "fire" THEN "dispatch" ELSE "observe"]
    /\ UNCHANGED <<chans, state_observers, history, taken, guards, loop>>

(* Context::create_observer: blocks while the channel is full. *)
CreateObserver(t) ==
    /\ pc[t] = "observe"
    /\ Len(observer_channel) < Buf
    /\ observer_channel' = Append(observer_channel, Mine(t))
    /\ pc' = [pc EXCEPT ![t] = IF job[t] = "local" THEN "ready"
                               ELSE IF job[t] = "get" THEN "lock" ELSE "dispatch"]
    /\ UNCHANGED <<action_channel, state_observers, history, taken, guards, loop, job, jobs>>

(* The guard of context.state() lives until the end of the match. *)
KeepGuard(t) ==
    /\ pc[t] = "lock"
    /\ guards' = guards \cup {t}
    /\ pc' = [pc EXCEPT ![t] = "dispatch"]
    /\ UNCHANGED <<chans, state_observers, history, taken, loop, job, jobs>>

(* dispatch_action: blocks while the channel is full. *)
DispatchAction(t) ==
    /\ pc[t] = "dispatch"
    /\ Len(action_channel) < Buf
    /\ action_channel' = Append(action_channel, Mine(t))
    /\ pc' = [pc EXCEPT ![t] = IF job[t] = "fire" THEN "idle" ELSE "polling"]
    /\ UNCHANGED <<observer_channel, state_observers, history, taken, guards, loop, job, jobs>>

(* Faulty: the state that is still being reduced is polled. *)
ReadyTooEarly(t) ==
    pc[t] = "ready" \/ (pc[t] = "polling" /\ Mine(t) \in Elements(history \o taken))

(* The poll that finds the action's effect in the visible state. *)
Ready(t) == pc[t] = "ready" \/ (pc[t] = "polling" /\ Mine(t) \in Elements(history))

(* block_on and dispatch_action_and_wait: the last turn of their loop. *)
BlockOnReturns(t) ==
    /\ Ready(t)
    /\ guards' = guards \ {t}
    /\ pc' = [pc EXCEPT ![t] = "idle"]
    /\ UNCHANGED <<chans, state_observers, history, taken, loop, job, jobs>>

-----------------------------------------------------------------------------
(* start_action_loop: for action_wrapper in rx_action; process_action then *)
(* reduces it under the read lock, which other readers do not exclude.     *)
Reduce ==
    /\ loop = "recv"
    /\ action_channel # <<>>
    /\ taken' = <<Head(action_channel)>>
    /\ action_channel' = Tail(action_channel)
    /\ loop' = "reduced"
    /\ UNCHANGED <<observer_channel, state_observers, history, guards, pc, job, jobs>>

(* Faulty: the new state is made from an old one. *)
ChangeStateStale ==
    /\ loop = "reduced"
    /\ guards = {}
    /\ history' = taken
    /\ taken' = <<>>
    /\ loop' = "changed"
    /\ UNCHANGED <<chans, state_observers, guards, pc, job, jobs>>

(* The write lock is granted when nobody holds a read guard. *)
ChangeState ==
    /\ loop = "reduced"
    /\ guards = {}
    /\ history' = history \o taken
    /\ taken' = <<>>
    /\ loop' = "changed"
    /\ UNCHANGED <<chans, state_observers, guards, pc, job, jobs>>

(* New observers are added, all are ticked, and those whose receiver is    *)
(* gone are dropped.                                                       *)
TickObservers ==
    /\ loop = "changed"
    /\ state_observers' = {o \in state_observers \cup Elements(observer_channel) : HasReceiver(o)}
    /\ observer_channel' = <<>>
    /\ loop' = "recv"
    /\ UNCHANGED <<action_channel, history, taken, guards, pc, job, jobs>>

ThreadStep(t) == CreateObserver(t) \/ KeepGuard(t) \/ DispatchAction(t) \/ BlockOnReturns(t)

ProcessAction == Reduce \/ ChangeState \/ TickObservers

Next ==
    \/ \E t \in Thread, j \in Job : Start(t, j)
    \/ \E t \in Thread : ThreadStep(t)
    \/ ProcessAction

Spec == Init /\ [][Next]_vars

(* Threads keep running; so does the loop.  A thread need not start a job. *)
FairSpec == Spec /\ WF_vars(ProcessAction) /\ \A t \in Thread : WF_vars(ThreadStep(t))

-----------------------------------------------------------------------------
(* Properties.                                                             *)

(* Every variable holds a value of its declared kind; neither channel      *)
(* holds more than its capacity.                                           *)
TypeOK ==
    /\ action_channel \in Seq(Id) /\ Len(action_channel) <= Buf
    /\ observer_channel \in Seq(Id) /\ Len(observer_channel) <= Buf
    /\ state_observers \subseteq Id
    /\ history \in Seq(Id)
    /\ taken \in Seq(Id)
    /\ guards \subseteq Thread
    /\ loop \in {"recv", "reduced", "changed"}
    /\ pc \in [Thread -> {"idle", "observe", "lock", "dispatch", "polling", "ready"}]
    /\ job \in [Thread -> {"fire", "wait", "local", "get"}]
    /\ jobs \in [Thread -> 0 .. MaxJobs]

(* Actions in the order in which the loop gets, or will get, to them. *)
Order == history \o taken \o action_channel

(* No action is processed twice, and the actions of one thread take effect *)
(* in the order in which the thread dispatched them.                       *)
InOrder ==
    \A i, j \in DOMAIN Order : i < j => Order[i] # Order[j]
        /\ (Order[i][1] = Order[j][1] => Order[i][2] < Order[j][2])

(* From create_observer to the return of block_on the loop knows the       *)
(* observer, so that every change of the state ticks it.                   *)
ObserverKnown ==
    \A t \in Thread : job[t] # "fire" /\ pc[t] \notin {"idle", "observe"} =>
        Mine(t) \in state_observers \cup Elements(observer_channel)

(* A thread whose block_on returns sees the effect of everything that it   *)
(* dispatched before, also of what it did not wait for.                    *)
ReadsOwnWrites ==
    [][\A t \in Thread : pc[t] = "polling" /\ pc'[t] = "idle" =>
          \A a \in Elements(taken \o action_channel) : a[1] # t]_vars

(* Every job that a thread starts comes to its end, unless for ever a      *)
(* guard on the state is kept from the loop, or the observer channel is    *)
(* full while there is no action to drain it for: nothing else blocks.     *)
JobsReturn ==
    \/ \A t \in Thread : []<>(pc[t] = "idle")
    \/ <>[](guards # {})
    \/ <>[](Len(observer_channel) = Buf /\ action_channel = <<>> /\ loop = "recv")

(* create_observer installs the observer. *)
ObserverInstalled == \A t \in Thread : pc[t] = "observe" ~> pc[t] # "observe"

(* The future of a network look-up resolves. *)
LookupResolves ==
    \A t \in Thread : job[t] = "get" /\ pc[t] = "polling" ~> pc[t] = "idle"
=============================================================================
