---------------------------- MODULE BridgeCalls ----------------------------
(***************************************************************************)
(* Zome calls that call each other, within an instance and over bridges    *)
(* (core/src/nucleus/ribosome/api/call.rs, conductor_api/src/interface.rs, *)
(* core/src/conductor_api.rs).  A call holds the write lock of the         *)
(* Holochain object of its instance until it returns.  A call over a       *)
(* bridge holds, in addition, the write lock of the caller's own handler,  *)
(* which every signature of that instance needs, the ones its action loop  *)
(* makes for a commit included.                                            *)
(*                                                                         *)
(* A lock is a set of at most one holder, and it is poisoned when a thread *)
(* panics that holds it.  Zome code does at most one thing that blocks.    *)
(***************************************************************************)
EXTENDS Naturals, Sequences, FiniteSets, Relation

CONSTANTS
    Instance,     \* the instances of the conductor
    Configured,   \* the sets of bridges a configuration may contain
    MaxCall,      \* bound on the calls
    MaxPanic      \* bound on the instances where a signature fails

Call == 1 .. MaxCall

VARIABLES
    bridges,      \* pairs of caller and callee
    calls,        \* where each call is, its instance, what made it
    hc,           \* the lock of each Holochain object
    io,           \* the lock of each instance's handler
    poisoned,     \* the poisoned locks: pairs of kind and instance
    queue,        \* the action channel of each instance
    alive,        \* does the instance's action loop run?
    received,     \* has a message made an instance commit?
    failed        \* history: the instances where a signature failed

vars == <<bridges, calls, hc, io, poisoned, queue, alive, received, failed>>

-----------------------------------------------------------------------------
Reaches(B) == TransitiveClosure([e \in Instance \X Instance |-> e \in B], Instance)

(* Faulty: only a bridge from an instance to itself is refused. *)
AcyclicButSelf(B) == \A i \in Instance : <<i, i>> \notin B

(* instance_ids_sorted_by_bridge_dependencies finds an order, so that      *)
(* check_consistency accepts the configuration.                            *)
Acyclic(B) == \A i \in Instance : ~Reaches(B)[<<i, i>>]

NoCall == [pc |-> "none", on |-> {}, up |-> {}, kind |-> "none"]

Init ==
    /\ bridges \in {B \in Configured : Acyclic(B)}
    /\ calls = [c \in Call |-> NoCall]
    /\ hc = [i \in Instance |-> {}]
    /\ io = [i \in Instance |-> {}]
    /\ poisoned = {}
    /\ queue = [i \in Instance |-> <<>>]
    /\ alive = [i \in Instance |-> TRUE]
    /\ received = FALSE
    /\ failed = {}

(* Faulty: the instances share one handler. *)
SharedHandler(i) == CHOOSE j \in Instance : TRUE

(* Context::conductor_api: each instance has a handler of its own.         *)
Handler(i) == i

(* The calls are numbered as they are made. *)
Fresh(c) == calls[c] = NoCall /\ \A d \in 1 .. c - 1 : calls[d] # NoCall

At(c, i, p) == calls[c].pc = p /\ calls[c].on = {i}
Goto(c, p) == calls' = [calls EXCEPT ![c].pc = p]
New(i, p, up, kind) == [pc |-> p, on |-> {i}, up |-> up, kind |-> kind]

HandlerPoisoned(i) == <<"io", Handler(i)>> \in poisoned
HandlerFree(i) == io[Handler(i)] = {} /\ ~HandlerPoisoned(i)

(* ConductorApi::sign gives an error. *)
SignFails(i) ==
    /\ HandlerFree(i)
    /\ Cardinality(failed) < MaxPanic
    /\ failed' = failed \cup {i}

-----------------------------------------------------------------------------
(* The handler of a "call" request (setup_call_api): a client's thread, or *)
(* the zome thread of the caller, which holds the caller's handler.        *)

ClientCall(c, i) ==
    /\ Fresh(c)
    /\ calls' = [calls EXCEPT ![c] = New(i, "lock", {}, "client")]
    /\ UNCHANGED <<bridges, hc, io, poisoned, queue, alive, received, failed>>

Lock(c, i) ==
    /\ At(c, i, "lock")
    /\ <<"hc", i>> \notin poisoned
    /\ hc[i] = {}
    /\ hc' = [hc EXCEPT ![i] = {c}]
    /\ Goto(c, "sign")
    /\ UNCHANGED <<bridges, io, poisoned, queue, alive, received, failed>>

(* make_cap_request_for_call, unless the client sent a provenance; then    *)
(* call_zome_function starts the zome thread.                              *)
Sign(c, i) ==
    /\ At(c, i, "sign")
    /\ HandlerFree(i) \/ calls[c].kind = "client"
    /\ Goto(c, "run")
    /\ UNCHANGED <<bridges, hc, io, poisoned, queue, alive, received, failed>>

(* The thread of the handler panics.  Its caller's zome thread dies with   *)
(* it, and nobody will send the result that the caller's caller waits for. *)
Panics(c, i) ==
    LET up == calls[c].up IN
    /\ calls' = [d \in Call |-> IF d \in up \cup {c} THEN [calls[d] EXCEPT !.pc = "dead"]
                                                     ELSE calls[d]]
    /\ hc' = [hc EXCEPT ![i] = @ \ {c}]
    /\ io' = [k \in Instance |-> io[k] \ up]
    /\ poisoned' = poisoned \cup {<<"hc", k>> : k \in {j \in Instance : hc[j] = {c}}}
                            \cup {<<"io", k>> : k \in {j \in Instance : io[j] \cap up # {}}}
    /\ UNCHANGED <<bridges, queue, alive, received>>

LockPanics(c, i) ==
    /\ At(c, i, "lock")
    /\ <<"hc", i>> \in poisoned
    /\ Panics(c, i)
    /\ UNCHANGED failed

SignPanics(c, i) ==
    /\ At(c, i, "sign")
    /\ \/ HandlerPoisoned(i) /\ UNCHANGED failed
       \/ SignFails(i)
    /\ Panics(c, i)

-----------------------------------------------------------------------------
(* The zome thread (run_dna)                                               *)

Commit(c, i) ==
    /\ At(c, i, "run")
    /\ alive[i]
    /\ queue' = [queue EXCEPT ![i] = Append(@, [type |-> "Commit", call |-> c])]
    /\ Goto(c, "commit")
    /\ UNCHANGED <<bridges, hc, io, poisoned, alive, received, failed>>

(* invoke_call to this instance: from_args signs, local_call waits.        *)
LocalCall(c, i, d) ==
    /\ At(c, i, "run")
    /\ Fresh(d)
    /\ HandlerFree(i)
    /\ calls' = [calls EXCEPT ![c].pc = "call", ![d] = New(i, "run", {c}, "local")]
    /\ UNCHANGED <<bridges, hc, io, poisoned, queue, alive, received, failed>>

(* bridge_call: the handler stays locked until the answer is there.        *)
BridgeCall(c, i, d, j) ==
    /\ At(c, i, "run")
    /\ Fresh(d)
    /\ <<i, j>> \in bridges
    /\ HandlerFree(i)
    /\ io' = [io EXCEPT ![Handler(i)] = {c}]
    /\ calls' = [calls EXCEPT ![c].pc = "call", ![d] = New(j, "lock", {c}, "bridge")]
    /\ UNCHANGED <<bridges, hc, poisoned, queue, alive, received, failed>>

(* run_dna returns: the thread sends ReturnZomeFunctionResult.             *)
Return(c, i) ==
    /\ At(c, i, "run") \/ At(c, i, "ran")
    /\ alive[i]
    /\ queue' = [queue EXCEPT ![i] = Append(@, [type |-> "Return", call |-> c])]
    /\ Goto(c, "return")
    /\ UNCHANGED <<bridges, hc, io, poisoned, alive, received, failed>>

(* The zome thread panics: the lock of its handler is poisoned, a          *)
(* signature for a local call fails, or the action channel is closed.      *)
ThreadPanics(c, i) ==
    /\ At(c, i, "run") \/ At(c, i, "ran")
    /\ \/ At(c, i, "run") /\ HandlerPoisoned(i) /\ UNCHANGED failed
       \/ At(c, i, "run") /\ SignFails(i)
       \/ ~alive[i] /\ UNCHANGED failed
    /\ Goto(c, "dead")
    /\ UNCHANGED <<bridges, hc, io, poisoned, queue, alive, received>>

(* CallResultFuture is ready: the locks taken for the call are released,   *)
(* and the caller goes on.                                                 *)
Returned(c, i) ==
    /\ At(c, i, "returned")
    /\ hc' = [hc EXCEPT ![i] = @ \ {c}]
    /\ io' = [k \in Instance |-> io[k] \ calls[c].up]
    /\ calls' = [d \in Call |-> IF d = c THEN [calls[d] EXCEPT !.pc = "done"]
                                ELSE IF d \in calls[c].up THEN [calls[d] EXCEPT !.pc = "ran"]
                                ELSE calls[d]]
    /\ UNCHANGED <<bridges, poisoned, queue, alive, received, failed>>

-----------------------------------------------------------------------------
(* The receive callback of some instance commits an entry, outside of any  *)
(* call.                                                                   *)
Receive(i) ==
    /\ ~received /\ alive[i]
    /\ received' = TRUE
    /\ queue' = [queue EXCEPT ![i] = Append(@, [type |-> "Commit", call |-> 0])]
    /\ UNCHANGED <<bridges, calls, hc, io, poisoned, alive, failed>>

(* The action loop: create_new_chain_header signs the header of a commit.  *)
ActionLoop(i) ==
    /\ alive[i]
    /\ queue[i] # <<>>
    /\ LET a == Head(queue[i]) IN
       /\ a.type = "Commit" => HandlerFree(i)
       /\ calls' = [d \in Call |->
                        IF d # a.call THEN calls[d]
                        ELSE [calls[d] EXCEPT !.pc = IF a.type = "Commit" THEN "ran" ELSE "returned"]]
    /\ queue' = [queue EXCEPT ![i] = Tail(@)]
    /\ UNCHANGED <<bridges, hc, io, poisoned, alive, received, failed>>

LoopPanics(i) ==
    /\ alive[i]
    /\ queue[i] # <<>>
    /\ Head(queue[i]).type = "Commit"
    /\ HandlerPoisoned(i)
    /\ alive' = [alive EXCEPT ![i] = FALSE]
    /\ queue' = [queue EXCEPT ![i] = <<>>]
    /\ UNCHANGED <<bridges, calls, hc, io, poisoned, received, failed>>

CallStep(c, i) ==
    \/ Lock(c, i) \/ Sign(c, i) \/ LockPanics(c, i) \/ SignPanics(c, i)
    \/ Commit(c, i) \/ Return(c, i) \/ ThreadPanics(c, i) \/ Returned(c, i)
    \/ \E d \in Call : LocalCall(c, i, d) \/ \E j \in Instance : BridgeCall(c, i, d, j)

Work ==
    \E i \in Instance :
        ActionLoop(i) \/ LoopPanics(i) \/ \E c \in Call : CallStep(c, i)

Next == Work \/ \E i \in Instance : Receive(i) \/ \E c \in Call : ClientCall(c, i)

Spec == Init /\ [][Next]_vars

(* As long as some thread or loop can go on, one does.                     *)
FairSpec == Spec /\ WF_vars(Work)

-----------------------------------------------------------------------------
(* Properties                                                              *)

(* A lock is held by a call that needs it, and is released on every way   *)
(* out: a Holochain object by a call that works on it or whose thread died *)
(* (setup_call_api), a handler by a call that waits for one over a bridge  *)
(* (bridge_call).                                                          *)
LocksInUse ==
    \A i \in Instance :
        /\ \A c \in hc[i] : calls[c].on = {i} /\ calls[c].pc \notin {"none", "lock", "done"}
        /\ \A c \in io[i] : calls[c].pc = "call" /\ \E d \in Call : c \in calls[d].up
                                                    /\ calls[d].pc # "done"

(* An instance works on one call at a time, besides the calls it makes to  *)
(* itself: the interfaces and all bridges together (hc.write() in          *)
(* setup_call_api), also when the waiting ones come over different bridges. *)
OneCallAtATime ==
    \A i \in Instance :
        Cardinality({c \in Call : /\ calls[c].on = {i} /\ calls[c].kind # "local"
                                  /\ calls[c].pc \notin {"none", "lock", "done", "dead"}}) <= 1

Damaged(i) ==
    \/ <<"hc", i>> \in poisoned \/ <<"io", i>> \in poisoned
    \/ ~alive[i]
    \/ \E c \in Call : At(c, i, "dead")

HoldsCallers(S) == \A i, j \in Instance : <<i, j>> \in bridges /\ j \in S => i \in S

(* What a failing signature damages (poisoned locks, threads and loops     *)
(* that are gone) stays with its instance and the ones that can call it    *)
(* over bridges, which are in every set that holds the instance and, with  *)
(* an instance, those with a bridge to it: no other instance stops to work.*)
DamageUpstream ==
    \A S \in SUBSET Instance :
        HoldsCallers(S) /\ failed \subseteq S => \A i \in Instance : Damaged(i) => i \in S

(* As long as signatures succeed, every call returns: the locks that calls *)
(* over bridges hold while they wait, and the loops that wait for them,    *)
(* never wait for each other in a circle.                                  *)
CallsReturn == []<>(failed # {} \/ \A c \in Call : calls[c].pc \in {"none", "done"})
=============================================================================
