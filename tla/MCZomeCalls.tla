---------------------------- MODULE MCZomeCalls -----------------------------
(***************************************************************************)
(* Zome calls: the instance that answers them and the memory shared with   *)
(* WASM.  A behaviour is one of Nucleus or of WasmMemory; unit says of     *)
(* which, and the variables of the other rest.                             *)
(***************************************************************************)
EXTENDS Nucleus

CONSTANTS
    me, bob, z1, z2, f, g,                                \* Nucleus
    W, MemSize, MaxLen, MaxApi                            \* WasmMemory

VARIABLES
    unit,  \* the component that the behaviour is of
    mem, host, guest, wasm_pc, enc, local, sent, heard, writes, apis

wasmVars == <<mem, host, guest, wasm_pc, enc, local, sent, heard, writes, apis>>

Wasm == INSTANCE WasmMemory WITH
    pc <- wasm_pc

(* A DNA without zomes, one with two zomes and no public function, and one *)
(* with a public and a private function.                                   *)
MCAgent == {me, bob}
MCDnas == {[zomes |-> {}, fns |-> {}, public |-> {}],
           [zomes |-> {z1, z2}, fns |-> {f}, public |-> {}],
           [zomes |-> {z1}, fns |-> {f, g}, public |-> {f}]}
MCRequest == {[type |-> "Assigned", assignees |-> {{bob}}, fns |-> {g}],
              [type |-> "Transferable", assignees |-> {}, fns |-> {g}],
              [type |-> "Assigned", assignees |-> {}, fns |-> {g}]}

-----------------------------------------------------------------------------
MCInit ==
    /\ unit \in {"nucleus", "wasm"}
    /\ (unit = "nucleus" \/ dna = CHOOSE d \in Dnas : TRUE) /\ Init
    /\ Wasm!Init

MCNext ==
    \/ unit = "nucleus" /\ Next /\ UNCHANGED <<unit, wasmVars>>
    \/ unit = "wasm" /\ Wasm!Next /\ UNCHANGED <<unit, vars>>

MCSpec ==
    /\ MCInit /\ [][MCNext]_<<unit, vars, wasmVars>>

-----------------------------------------------------------------------------
(* The host, the HDK and the zome read what was written for them           *)
(* (WasmPageManager, ribosome).                                            *)
ReadsIntact == unit = "wasm" => Wasm!ReadsIntact

=============================================================================
