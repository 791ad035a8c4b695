----------------------------- MODULE MCThreads ------------------------------
(***************************************************************************)
(* The threads of an instance, of the test runner that waits for           *)
(* instances, and of a file storage.  A behaviour is one of Instance,      *)
(* Waiter or Cas; unit says of which, and the variables of the others      *)
(* rest.                                                                   *)
(***************************************************************************)
EXTENDS Instance

CONSTANTS
    Plans, Inst, Pool,  \* of Waiter
    Uses, MaxFaults     \* of Cas

VARIABLES
    unit,  \* the component that the behaviour is of
    plan, js, task, senders, chan, turn, checkers, current, sending, due,
    running, bg, overtaken,
    use, writersFirst, th, file, outer, lock, sent, torn, faults

waiterVars == <<plan, js, task, senders, chan, turn, checkers, current,
                sending, due, running, bg, overtaken>>
casVars == <<use, writersFirst, th, file, outer, lock, sent, torn, faults>>

Waiting == INSTANCE Waiter

CasFile == INSTANCE Cas

(* Tests of two instances, with up to three calls. *)
Do(inst, mode, commits) == [inst |-> inst, mode |-> mode, commits |-> commits]
MCInst == <<"a", "b">>
MCPlans ==
    {<<Do("a", "callSync", <<"link_add">>), Do("b", "callSync", <<"app">>)>>,
     <<Do("a", "callWithPromise", <<"app">>), Do("a", "callWithPromise", <<"update">>)>>,
     <<Do("a", "callSync", <<"app", "deletion">>), Do("a", "call", <<>>)>>,
     <<Do("b", "callWithPromise", <<"link_remove">>), Do("b", "callSync", <<>>)>>}

(* Three threads of an instance that add and fetch the same two contents.  *)
Op(do, of, want) == [op |-> do, of |-> of, want |-> want]
InstanceThreads ==
    [guarded |-> TRUE, contents |-> {"foo", "bar"},
     plan |-> [one |-> <<Op("add", "foo", "any"), Op("fetch", "foo", "any")>>,
               two |-> <<Op("fetch", "foo", "any"), Op("add", "foo", "any")>>,
               three |-> <<Op("fetch", "foo", "any"), Op("fetch", "bar", "any")>>]]

(* StorageTestSuite::round_trip_test: the main thread on two clones, and    *)
(* three threads that wait for each other.                                  *)
RoundTripTest ==
    [guarded |-> FALSE, contents |-> {"foo", "bar", "entry"},
     plan |-> [main |-> <<Op("fetch", "foo", "none"), Op("fetch", "bar", "none"),
                          Op("add", "foo", "any"), Op("fetch", "foo", "some"),
                          Op("fetch", "bar", "none"), Op("add", "bar", "any"),
                          Op("fetch", "foo", "some"), Op("fetch", "bar", "some"),
                          Op("send", "spawned", "any"), Op("recv", "joined", "any")>>,
               one |-> <<Op("recv", "spawned", "any"), Op("fetch", "entry", "none"),
                         Op("send", "tx1", "any")>>,
               two |-> <<Op("recv", "tx1", "any"), Op("add", "entry", "any"),
                         Op("send", "tx2", "any")>>,
               three |-> <<Op("recv", "tx2", "any"), Op("fetch", "entry", "some"),
                           Op("send", "joined", "any")>>]]

MCUses == [instance |-> InstanceThreads, round_trip_test |-> RoundTripTest]

-----------------------------------------------------------------------------
MCInit ==
    /\ unit \in {"instance", "waiter", "cas"}
    /\ Init
    /\ (unit = "waiter" \/ plan = CHOOSE p \in Plans : TRUE) /\ Waiting!Init
    /\ (unit = "cas" \/ (use = "instance" /\ writersFirst = TRUE)) /\ CasFile!Init

MCNext ==
    \/ unit = "instance" /\ Next /\ UNCHANGED <<unit, waiterVars, casVars>>
    \/ unit = "waiter" /\ Waiting!Next /\ UNCHANGED <<unit, vars, casVars>>
    \/ unit = "cas" /\ CasFile!Next /\ UNCHANGED <<unit, vars, waiterVars>>

MCSpec ==
    /\ MCInit /\ [][MCNext]_<<unit, vars, waiterVars, casVars>>
    /\ WF_vars(unit = "instance" /\ ProcessAction)
    /\ \A t \in Thread : WF_vars(unit = "instance" /\ ThreadStep(t))
    /\ WF_waiterVars(unit = "waiter" /\ Waiting!Work)
    /\ WF_casVars(unit = "cas" /\ \E t \in CasFile!Threads : CasFile!Work(t))

-----------------------------------------------------------------------------
(* Every promise resolves, unless the test is stopped or signals overtook  *)
(* each other.                                                             *)
PromisesResolve == Waiting!PromisesResolve

(* No reader of FilesystemStorage meets a file that is created and not yet *)
(* written.                                                                *)
NoHalfRead == unit = "cas" => CasFile!NoHalfRead

(* Nothing waits for ever: the jobs on the loop of an instance return      *)
(* though its channels are bounded and guards are held (JobsReturn), and   *)
(* so does every add and fetch of a file storage though fetch takes its    *)
(* lock twice.                                                             *)
AllReturn == JobsReturn /\ <>[](unit = "cas" => CasFile!AllDone)

=============================================================================
