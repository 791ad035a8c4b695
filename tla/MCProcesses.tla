---------------------------- MODULE MCProcesses -----------------------------
(***************************************************************************)
(* The processes and locks around the instances of a conductor.  A         *)
(* behaviour is one of IpcWorker, N3h or BridgeCalls; unit says of which,  *)
(* and the variables of the others rest.                                   *)
(***************************************************************************)
EXTENDS BridgeCalls

CONSTANTS
    i1, i2, i3,                        \* of BridgeCalls
    Bootstrap, CoreSends, MaxFaults,   \* of IpcWorker and N3h
    Proc

VARIABLES
    unit,  \* the component that the behaviour is of
    thread, spawn, sockets, taken, nId, eventQueue, evtLst, worker, announced,
    readyRx, core, link, child, server, delivered, faults,
    target, fuse, inPath, file, app, mounted, proc, spoilt, n3h_faults

ipcVars == <<thread, spawn, sockets, taken, nId, eventQueue, evtLst, worker,
             announced, readyRx, core, link, child, server, delivered, faults>>
n3hVars == <<target, fuse, inPath, file, app, mounted, proc, spoilt,
             n3h_faults>>

Ipc == INSTANCE IpcWorker

Artifact == INSTANCE N3h WITH
    faults <- n3h_faults

(* A chain of bridges, two callers of one instance, and a circle, which    *)
(* check_consistency refuses.                                              *)
MCInstance == {i1, i2, i3}
MCConfigured == {{<<i1, i2>>, <<i2, i3>>}, {<<i1, i3>>, <<i2, i3>>}, {<<i1, i2>>, <<i2, i1>>}}

-----------------------------------------------------------------------------
MCInit ==
    /\ unit \in {"bridge", "ipc", "n3h"}
    /\ (unit = "bridge" \/ bridges = CHOOSE B \in Configured : Acyclic(B)) /\ Init
    /\ Ipc!Init /\ (unit = "ipc" \/ spawn.mine)
    /\ \/ unit = "n3h"
       \/ (target = (CHOOSE t \in Artifact!Targets : TRUE) /\ fuse = TRUE /\ inPath = "none")
    /\ Artifact!Init

MCNext ==
    \/ unit = "bridge" /\ Next /\ UNCHANGED <<unit, ipcVars, n3hVars>>
    \/ unit = "ipc" /\ Ipc!Next /\ UNCHANGED <<unit, vars, n3hVars>>
    \/ unit = "n3h" /\ Artifact!Next /\ UNCHANGED <<unit, vars, ipcVars>>

MCSpec ==
    /\ MCInit /\ [][MCNext]_<<unit, vars, ipcVars, n3hVars>>
    /\ WF_vars(unit = "bridge" /\ Work)

-----------------------------------------------------------------------------
(* A message of the core reaches n3h at most once, in order, over all      *)
(* reconnects (IpcNetWorker::tick, send_all).                              *)
InOrderOnce == unit = "ipc" => Ipc!InOrderOnce

(* What get_verify_n3h runs from its own directory has the pinned hash.    *)
OnlyVerified == unit = "n3h" => Artifact!OnlyVerified

=============================================================================
