------------------------------ MODULE MCTools -------------------------------
(***************************************************************************)
(* The tools and the value types around a conductor.  A behaviour is one   *)
(* of Time, SecBuf, Package, or of the suites EavTests, ChainQueryTests    *)
(* and WaiterTests; unit says of which, and the variables of the others    *)
(* rest.                                                                   *)
(***************************************************************************)
EXTENDS Time

CONSTANTS
    Pieces, MaxText,                             \* of EavTests
    MaxOps,                                      \* of SecBuf
    Sorted, Orders, Edits, Zomes, MaxSteps       \* of Package

VARIABLES
    unit,  \* the component that the behaviour is of
    suite, suite_kind, store, added, now, attr,
    chain, pager, test,
    waiter_test, waiter_at, waiter_w, waiter_stopped,
    mem, steps, op, result, secbuf_stored, count,
    project, cargo, packed, dest, last, package_steps

suiteVars == <<suite, suite_kind, store, added, now, attr>>
queryVars == <<chain, pager, test>>
waiterVars == <<waiter_test, waiter_at, waiter_w, waiter_stopped>>
secbufVars == <<mem, steps, op, result, secbuf_stored, count>>
packageVars == <<project, cargo, packed, dest, last, package_steps>>

Suite == INSTANCE EavTests WITH
    kind <- suite_kind

QueryTests == INSTANCE ChainQueryTests WITH
    Commits <- {}, Searches <- {}, Limits <- {}, MaxHeaders <- 5

WaiterSuite == INSTANCE WaiterTests WITH
    test <- waiter_test, at <- waiter_at, w <- waiter_w,
    stopped <- waiter_stopped

Buffers == INSTANCE SecBuf WITH
    stored <- secbuf_stored

Bundles == INSTANCE Package WITH
    steps <- package_steps

(* Durations at the borders of every unit. *)
Parts(of, n) == {k * n : k \in of}
MCPeriods ==
    {[secs |-> y + w + d + h + m + s, nanos |-> n] :
        y \in Parts({0, 1, 33}, YR), w \in Parts({0, 1, 51}, WK), d \in Parts({0, 6}, DY),
        h \in Parts({0, 23}, HR), m \in Parts({0, 59}, MN), s \in {0, 1, 59},
        n \in {0, 1, 1000, 25100, 120000000, 600025100, 600025000, 999999999}}
      \union {[secs |-> 1073741, nanos |-> 999999999], [secs |-> 16777216, nanos |-> 0]}
Shortest == [secs |-> 0, nanos |-> 1]

(* The project and its edits are those of MCPackage. *)
Plain == INSTANCE MCPackage WITH Sorted <- <<>>, Orders <- {}, Edits <- {}
MCSorted == Plain!MCSorted
MCOrders == Plain!MCOrders
MCEdits == Plain!MCEdits

-----------------------------------------------------------------------------
MCInit ==
    /\ unit \in {"time", "suite", "query", "waiter", "secbuf", "package"}
    /\ (unit = "time" \/ (kind = "period" /\ first = {Shortest})) /\ Init
    /\ (unit = "suite" \/ (suite = "round_trip" /\ suite_kind = "memory")) /\ Suite!Init
    /\ \/ unit = "query"
       \/ test = CHOOSE t \in DOMAIN QueryTests!Types : TRUE
    /\ QueryTests!TestInit
    /\ \/ unit = "waiter"
       \/ waiter_test = CHOOSE t \in WaiterSuite!Tests : TRUE
    /\ WaiterSuite!Init
    /\ Buffers!Init
    /\ (unit = "package" \/ cargo = TRUE) /\ Bundles!Init

MCNext ==
    \/ /\ unit = "time" /\ Next
       /\ UNCHANGED <<unit, suiteVars, queryVars, waiterVars, secbufVars, packageVars>>
    \/ /\ unit = "suite" /\ Suite!Add
       /\ UNCHANGED <<unit, vars, queryVars, waiterVars, secbufVars, packageVars>>
    \/ /\ unit = "query" /\ QueryTests!TestStep
       /\ UNCHANGED <<unit, vars, suiteVars, waiterVars, secbufVars, packageVars>>
    \/ /\ unit = "waiter" /\ WaiterSuite!Next
       /\ UNCHANGED <<unit, vars, suiteVars, queryVars, secbufVars, packageVars>>
    \/ /\ unit = "secbuf" /\ Buffers!Next
       /\ UNCHANGED <<unit, vars, suiteVars, queryVars, waiterVars, packageVars>>
    \/ /\ unit = "package" /\ Bundles!Next
       /\ UNCHANGED <<unit, vars, suiteVars, queryVars, waiterVars, secbufVars>>

MCSpec ==
    /\ MCInit /\ [][MCNext]_<<unit, vars, suiteVars, queryVars, waiterVars, secbufVars,
            packageVars>>

-----------------------------------------------------------------------------
(* A formatted period or timestamp is parsed to the value it was made      *)
(* from.                                                                   *)
TimeRoundTrip == unit = "time" => RoundTrip

(* The assertions of the repository's own tests hold: of time.rs for every *)
(* text; of the EAV storages, the memory and pickle one whatever the clock *)
(* does and the file storage when no stamps are equal; of the iterators,   *)
(* query() and its globs; and of the waiter.                               *)
SuitesPass ==
    /\ unit = "time" => TestsPass
    /\ unit = "suite" => Suite!EavSuitePasses
    /\ unit = "query" => QueryTests!QueryTestsPass
    /\ unit = "waiter" => WaiterSuite!TestsPass

(* No sequence of the key functions comes to a panic of SecBuf.            *)
NeverPanics == unit = "secbuf" => Buffers!NeverPanics

(* hc package and hc unpack restore a project of plain directories.        *)
UnpackRestores == unit = "package" => Bundles!UnpackRestores

=============================================================================
