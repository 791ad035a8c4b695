----------------------------- MODULE MCStorages -----------------------------
(***************************************************************************)
(* What is kept on disk.  A behaviour is one of EavStorage, Conductor or   *)
(* Keystore; unit says of which, and the variables of the others rest.     *)
(***************************************************************************)
EXTENDS EavStorage, TLC

CONSTANTS
    base, other, link, removed, l1, l2,            \* EavStorage
    Agent, Dna, Instance, Interface, Bundle, Ui,   \* Conductor
    Key, First, MaxObject, MaxFault, MaxCall, None,
    Typed, Default, Extra, CacheTime, MaxCalls, MaxRestarts  \* Keystore

VARIABLES
    unit,  \* the component that the behaviour is of
    config, file, mode, instances, made, active, callees, agent_keys,
    interface_threads, server, static_servers, behind, slipped, faults, calls,
    store, cache, keystore_file, address, job, pm, idle, timer, signed,
    keystore_calls, restarts

conductorVars == <<config, file, mode, instances, made, active, callees,
                   agent_keys, interface_threads, server, static_servers,
                   behind, slipped, faults, calls>>
keystoreVars == <<store, cache, keystore_file, address, job, pm, idle, timer,
                  signed, keystore_calls, restarts>>

Admin == INSTANCE Conductor

Keys == INSTANCE Keystore WITH
    file <- keystore_file, calls <- keystore_calls

(* A link can be added and removed (two attributes) for two values. *)
MCEntity == {base, other}
MCAttribute == {link, removed}
MCValue == {l1, l2}

(* A conductor with one agent and DNA, an instance behind an interface     *)
(* and one it has a bridge to; and one with no instances yet.              *)
Fresh == INSTANCE Conductor WITH
    First <- {}
FirstConfigs ==
    LET a == CHOOSE x \in Agent : TRUE
        d == CHOOSE x \in Dna : TRUE
        f == CHOOSE x \in Interface : TRUE
        k == CHOOSE x \in Key : TRUE
        i == CHOOSE x \in Instance : TRUE
        j == CHOOSE x \in Instance \ {i} : TRUE
        empty == [Fresh!DefaultConfiguration EXCEPT !.agents = a :> [key |-> k, remote |-> FALSE]]
    IN {empty,
        [empty EXCEPT !.dnas = {d},
                      !.instances = [x \in {i, j} |-> [dna |-> d, agent |-> a]],
                      !.interfaces = f :> {i},
                      !.bridges = {<<i, j>>}],
        [empty EXCEPT !.dnas = {d},
                      !.instances = i :> [dna |-> d, agent |-> a],
                      !.dpki = i]}

-----------------------------------------------------------------------------
MCInit ==
    /\ unit \in {"eav", "conductor", "keystore"}
    /\ Init
    /\ (unit = "conductor" \/ file = {CHOOSE f \in First : TRUE}) /\ Admin!Init
    /\ Keys!Init

MCNext ==
    \/ unit = "eav" /\ Next /\ UNCHANGED <<unit, conductorVars, keystoreVars>>
    \/ unit = "conductor" /\ Admin!Next /\ UNCHANGED <<unit, vars, keystoreVars>>
    \/ unit = "keystore" /\ Keys!Next /\ UNCHANGED <<unit, vars, conductorVars>>

MCSpec ==
    /\ MCInit /\ [][MCNext]_<<unit, vars, conductorVars, keystoreVars>>

-----------------------------------------------------------------------------
(* A configuration that was saved can be booted (check_consistency,        *)
(* boot_from_config).                                                      *)
SavedConfigBoots == unit = "conductor" => Admin!SavedConfigBoots

(* Configured interfaces are active and serve the current objects.         *)
ListedAreServed == unit = "conductor" => Admin!ListedAreServed

(* An agent acts with its own key: the key in memory is the one of the     *)
(* agent in the configuration, though keystores are cached by id and ids   *)
(* are added again, and what is signed as the agent is signed with the key *)
(* of its address, whichever passphrases were typed.                       *)
AgentKeysRight == (unit = "conductor" => Admin!KeysMatch) /\ (unit = "keystore" => Keys!AgentSigns)

=============================================================================
