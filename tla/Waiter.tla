------------------------------- MODULE Waiter -------------------------------
(***************************************************************************)
(* The test conductor of the scenario tests: a JavaScript test calls zome  *)
(* functions of several instances and waits until the side effects of a    *)
(* call have reached every instance (nodejs_waiter/src/waiter.rs,          *)
(* nodejs_conductor/native/src/js_test_conductor.rs and the signal         *)
(* multiplexer of conductor_api/src/conductor/base.rs).                    *)
(*                                                                         *)
(* Every action an instance processes becomes a signal on the instance's   *)
(* channel; the multiplexer takes at most one signal of each instance per  *)
(* round into the channel of the background task, whose Waiter pairs       *)
(* signals: a call with its return, a commit with the holds of the entry.  *)
(* When the last pair of a call is complete the call's blocking task is    *)
(* sent Stop, and its promise resolves.  Tasks run in a thread pool.       *)
(*                                                                         *)
(* A call is named by its position in the test; each call commits entries  *)
(* of its own, <<call, n>>, of one of the kinds the waiter tells apart.    *)
(***************************************************************************)
EXTENDS Integers, Sequences, FiniteSets, SequencesExt

CONSTANTS
    Inst,       \* sequence of the conductor's instances
    Plans,      \* the tests: sequences of [inst, mode, commits]
    Pool        \* threads of the pool tasks are scheduled on

VARIABLES
    plan, js,           \* the test; [at, pc] of the JavaScript thread
    task,               \* [call -> state of its CallBlockingTask]
    senders,            \* the sync_channel(1) of control senders
    chan, turn,         \* instance channels; the instance the multiplexer visits
    checkers, current,  \* Waiter: conditions per call; the active call, if any
    sending,            \* calls whose checker is in the middle of stop()
    due,                \* effects the instances still have to process
    running, bg,        \* is_running; the background task
    overtaken           \* a hold was forwarded before its commit

js_vars == <<plan, js>>
waiter_vars == <<checkers, current, sending>>
vars == <<plan, js, task, senders, chan, turn, checkers, current, sending,
          due, running, bg, overtaken>>

Calls == 1 .. Len(plan)
Insts == Range(Inst)
num_instances == Len(Inst)
NoCheckers == [c \in {} |-> <<>>]

-----------------------------------------------------------------------------
(* Signals, and the waiter as a function of them.                          *)

ACall(c) == [type |-> "SignalZomeFunctionCall", of |-> <<c, 0>>]
AReturn(c) == [type |-> "ReturnZomeFunctionResult", of |-> <<c, 0>>]
ACommit(e, kind) == [type |-> "Commit", of |-> e, kind |-> kind]
Act(type, e) == [type |-> type, of |-> e]

Extra(kind) ==
    CASE kind = "update" -> {"UpdateEntry"}
      [] kind = "deletion" -> {"RemoveEntry"}
      [] kind = "link_add" -> {"AddLink"}
      [] kind = "link_remove" -> {"RemoveLink"}
      [] OTHER -> {}

Condition(count, want) == [count |-> count, want |-> want]

\* The conditions a signal adds to the active checker.
Awaits(sig) ==
    CASE sig.type = "Commit" ->
             {Condition(num_instances, Act(t, sig.of)) : t \in {"Hold"} \union Extra(sig.kind)}
      [] sig.type = "AddPendingValidation" ->
             {Condition(1, Act("RemovePendingValidation", sig.of))}
      [] OTHER -> {}

\* CallFxChecker::run_checks without the stop().
ChecksNever(conditions, sig) == conditions

run_checks(conditions, sig) ==
    SelectSeq([i \in DOMAIN conditions |->
                  IF conditions[i].want = sig
                  THEN [conditions[i] EXCEPT !.count = @ - 1]
                  ELSE conditions[i]],
              LAMBDA c : c.count > 0)

\* process_signal on [checkers, current, senders]: attach, then run all checks.
\* (The code keys a checker by the call that claimed the sender; here it has
\* the name of the call that registered the sender.)
Attached(w, sig) ==
    IF sig.type = "SignalZomeFunctionCall" THEN
        IF w.senders = <<>> THEN [w EXCEPT !.current = {}]
        ELSE [checkers |-> [c \in DOMAIN w.checkers \union {Head(w.senders)} |->
                               IF c = Head(w.senders)
                               THEN <<Condition(1, AReturn(sig.of[1]))>>
                               ELSE w.checkers[c]],
              current |-> {Head(w.senders)},
              senders |-> Tail(w.senders)]
    ELSE IF w.current \subseteq DOMAIN w.checkers THEN
        [w EXCEPT !.checkers = [c \in DOMAIN @ |->
             IF c \in w.current THEN @[c] \o SetToSeq(Awaits(sig)) ELSE @[c]]]
    ELSE w

process_signal(w, sig) ==
    LET a == Attached(w, sig)
    IN  [a EXCEPT !.checkers = [c \in DOMAIN a.checkers |-> run_checks(a.checkers[c], sig)]]

\* The checkers a signal emptied: they stop() their tasks and are dropped.
Emptied(w) == {c \in DOMAIN w.checkers : w.checkers[c] = <<>>}
Retained(w) == [c \in DOMAIN w.checkers \ Emptied(w) |-> w.checkers[c]]

-----------------------------------------------------------------------------
Init ==
    /\ plan \in Plans
    /\ js = [at |-> 1, pc |-> "next"]
    /\ task = [c \in Calls |-> "none"]
    /\ senders = <<>>
    /\ chan = [i \in Insts |-> <<>>]
    /\ turn = 1
    /\ checkers = NoCheckers
    /\ current = {}
    /\ sending = <<>>
    /\ due = {}
    /\ running = TRUE
    /\ bg = "loop"
    /\ overtaken = FALSE

Step == plan[js.at]

\* register_callback schedules the blocking task, then hands its sender over.
register_callback ==
    /\ running
    /\ js.at <= Len(plan)
    /\ js.pc = "next"
    /\ Step.mode # "call"
    /\ task' = [task EXCEPT ![js.at] = "queued"]
    /\ js' = [js EXCEPT !.pc = "send"]
    /\ UNCHANGED <<plan, senders, chan, turn, waiter_vars, due, running, bg, overtaken>>

SendSender ==
    /\ running
    /\ js.pc = "send"
    /\ senders = <<>>
    /\ senders' = <<js.at>>
    /\ js' = [js EXCEPT !.pc = "call"]
    /\ UNCHANGED <<plan, task, chan, turn, waiter_vars, due, running, bg, overtaken>>

Entries(c) == {<<c, n>> : n \in 1 .. Len(plan[c].commits)}

\* What an instance does with a published entry; another instance may have
\* to wait for the base of a link first.
EffectsOf(here, e, kind) ==
    LET holds == <<Act("Hold", e)>> \o SetToSeq({Act(t, e) : t \in Extra(kind)})
    IN  {holds}
        \union (IF kind # "link_add" \/ here THEN {}
                ELSE {<<Act("AddPendingValidation", e)>> \o holds
                          \o <<Act("RemovePendingValidation", e)>>})

\* call() blocks JavaScript until the instance has returned the result.
call ==
    /\ running
    /\ js.at <= Len(plan)
    /\ js.pc = (IF Step.mode = "call" THEN "next" ELSE "call")
    /\ LET commits == Step.commits
           told == <<ACall(js.at)>>
                       \o [n \in DOMAIN commits |-> ACommit(<<js.at, n>>, commits[n])]
                       \o <<AReturn(js.at)>>
       IN  /\ chan' = [chan EXCEPT ![Step.inst] = @ \o told]
           /\ \E todo \in [Insts \X Entries(js.at) ->
                               UNION {EffectsOf(FALSE, e, commits[e[2]]) : e \in Entries(js.at)}] :
                  /\ \A x \in DOMAIN todo :
                         todo[x] \in EffectsOf(x[1] = Step.inst, x[2], commits[x[2][2]])
                  /\ due' = due \union {[at |-> x[1], of |-> x[2], todo |-> todo[x]] : x \in DOMAIN todo}
    /\ js' = IF Step.mode = "callSync" THEN [js EXCEPT !.pc = "await"]
             ELSE [at |-> js.at + 1, pc |-> "next"]
    /\ UNCHANGED <<plan, task, senders, turn, waiter_vars, running, bg, overtaken>>

Ended(c) == task[c] \in {"released", "dropped"}

Awaited ==
    /\ js.pc = "await"
    /\ Ended(js.at)
    /\ js' = [at |-> js.at + 1, pc |-> "next"]
    /\ UNCHANGED <<plan, task, senders, chan, turn, waiter_vars, due, running, bg, overtaken>>

\* stop(): at the end of the test, or from its error handler.
stop ==
    /\ running
    /\ js.pc \in {"next", "await"}
    /\ running' = FALSE
    /\ UNCHANGED <<plan, js, task, senders, chan, turn, waiter_vars, due, bg, overtaken>>

\* A thread of the pool takes the oldest waiting task; the background task
\* has one thread to itself.
TaskStarts ==
    /\ Cardinality({c \in Calls : task[c] = "waiting"}) < Pool - (IF bg = "done" THEN 0 ELSE 1)
    /\ \E c \in Calls :
           /\ task[c] = "queued"
           /\ \A d \in Calls : task[d] = "queued" => c <= d
           /\ task' = [task EXCEPT ![c] = "waiting"]
    /\ UNCHANGED <<plan, js, senders, chan, turn, waiter_vars, due, running, bg, overtaken>>

-----------------------------------------------------------------------------
\* An instance processes the next action of one of the effects.
Effect(i) ==
    /\ running
    /\ \E d \in due :
           /\ d.at = i
           /\ chan' = [chan EXCEPT ![i] = Append(@, Head(d.todo))]
           /\ due' = (due \ {d})
                  \union (IF Len(d.todo) = 1 THEN {} ELSE {[d EXCEPT !.todo = Tail(@)]})
    /\ UNCHANGED <<plan, js, task, senders, turn, waiter_vars, running, bg, overtaken>>

Unforwarded(e) == \E i \in Insts : \E s \in Range(chan[i]) : s.type = "Commit" /\ s.of = e

\* One visit of the multiplexer: at most one signal of this instance.  The
\* background task processes it; the emptied checkers stop their tasks.  (The
\* channel between the two threads only delays signals, and is left out.)
Process(sig) ==
    LET w == process_signal([checkers |-> checkers, current |-> current, senders |-> senders], sig)
    IN  /\ checkers' = Retained(w)
        /\ current' = w.current
        /\ senders' = w.senders
        /\ sending' \in SetToSeqs(Emptied(w))

start_signal_multiplexer ==
    LET i == Inst[turn]
    IN  /\ running
        /\ sending = <<>>
        /\ \E j \in Insts : chan[j] # <<>>
        /\ IF chan[i] = <<>> THEN UNCHANGED <<chan, overtaken, senders, waiter_vars>>
           ELSE /\ chan' = [chan EXCEPT ![i] = Tail(@)]
                /\ overtaken' = (overtaken
                                   \/ (Head(chan[i]).type # "Commit" /\ Unforwarded(Head(chan[i]).of)))
                /\ Process(Head(chan[i]))
        /\ turn' = (turn % num_instances) + 1
        /\ UNCHANGED <<plan, js, task, due, running, bg>>

\* The control channel has no buffer: the send waits until the task receives.
SendStop ==
    /\ sending # <<>>
    /\ task[Head(sending)] = "waiting"
    /\ task' = [task EXCEPT ![Head(sending)] = IF bg = "loop" THEN "released" ELSE "dropped"]
    /\ sending' = Tail(sending)
    /\ UNCHANGED <<plan, js, senders, chan, turn, checkers, current, due, running, bg, overtaken>>

\* After the loop every checker is shut down ...
Shutdown ==
    /\ bg = "loop"
    /\ ~running
    /\ sending = <<>>
    /\ sending' \in SetToSeqs(DOMAIN checkers)
    /\ bg' = "shutdown"
    /\ UNCHANGED <<plan, js, task, senders, chan, turn, checkers, current, due, running, overtaken>>

\* ... and with the waiter the unclaimed sender goes too: its task ends.
Dropped ==
    /\ bg = "shutdown"
    /\ sending = <<>>
    /\ bg' = "done"
    /\ senders' = <<>>
    /\ checkers' = NoCheckers
    /\ task' = [c \in Calls |-> IF c \in Range(senders) /\ task[c] = "waiting" THEN "dropped" ELSE task[c]]
    /\ UNCHANGED <<plan, js, chan, turn, current, sending, due, running, overtaken>>

\* A task that starts after its sender is gone returns at once.
TaskReturns ==
    /\ bg = "done"
    /\ \E c \in Calls : task[c] = "waiting" /\ task' = [task EXCEPT ![c] = "dropped"]
    /\ UNCHANGED <<plan, js, senders, chan, turn, waiter_vars, due, running, bg, overtaken>>

Work ==
    \/ register_callback \/ SendSender \/ call \/ Awaited \/ TaskStarts
    \/ (\E i \in Insts : Effect(i)) \/ start_signal_multiplexer
    \/ SendStop \/ Shutdown \/ Dropped \/ TaskReturns

Next == Work \/ stop

Spec == Init /\ [][Next]_vars

FairSpec == Spec /\ WF_vars(Work)

-----------------------------------------------------------------------------
\* A promise resolves only when the side effects of its call are complete:
\* every instance holds every entry the call committed and has applied its
\* link, update or removal (Waiter::process_signal; the promise of callSync
\* "once it determines that all test-relevant network activity has
\* completed", js_test_conductor.rs:188).
NotEarly ==
    \A c \in Calls : task[c] = "released" =>
        \A d \in due : d.of[1] = c => d.todo = <<Act("RemovePendingValidation", d.of)>>

\* Every promise resolves, unless the test is stopped: the only signals the
\* waiter can miss are holds of another instance that the multiplexer
\* forwarded before the commit they belong to.
PromisesResolve ==
    []<>((\A c \in Calls : task[c] # "none" => Ended(c)) \/ ~running \/ overtaken)

\* stop() lets go of everything: whatever was pending, the background task
\* ends and with it every blocking task, so the test process can exit
\* (MainBackgroundTask::perform, waiter.rs:353).
StopReleases ==
    []<>(running \/ (bg = "done" /\ \A c \in Calls : task[c] # "none" => Ended(c)))
=============================================================================
