----------------------------- MODULE Conductor -----------------------------
(***************************************************************************)
(* The conductor (conductor_api/src/conductor/): a configuration, the      *)
(* instances, interface threads and static servers made from it, and the   *)
(* admin functions that change all of them and save the configuration.     *)
(*                                                                         *)
(* The admin functions run under the mutex of the static CONDUCTOR, so     *)
(* each is one action; a panic inside one poisons the mutex and ends the   *)
(* administration.  A handler of an interface keeps the instances it was   *)
(* given when its thread was spawned, and an instance keeps the callees    *)
(* its bridges had when it was made: an instance object is <<id, n>>, the  *)
(* n-th object made under an id since the process started.                 *)
(*                                                                         *)
(* Saving the configuration may fail, and the process may stop at any      *)
(* time, also between the truncation of the configuration file and the     *)
(* write that fills it.                                                    *)
(***************************************************************************)
EXTENDS Naturals, Sequences, FiniteSets, Functions, TLC

CONSTANTS
    Agent, Dna, Instance, Interface, Bundle, Ui,  \* the ids of each kind
    Key,        \* public addresses of agent keys
    First,      \* the configurations a conductor is first started with
    MaxObject,  \* bound on the objects made under one id by one process
    MaxFault,   \* bound on the saves that fail
    MaxCall,    \* bound on the calls of admin methods
    None        \* an absent id

VARIABLES
    config,             \* Conductor::config
    file,               \* the configuration config_path() holds, if readable
    mode,               \* "down", "up" or "poisoned"
    instances,          \* Conductor::instances: ids to object numbers
    made,               \* how many objects were made under each id
    active,             \* the objects whose Holochain is active
    callees,            \* pairs of a caller object and a bridged callee
    agent_keys,         \* Conductor::agent_keys: ids to public addresses
    interface_threads,  \* the keys of Conductor::interface_threads
    server,             \* the server of each interface, and its instances
    static_servers,     \* Conductor::static_servers: ids to servers
    behind,             \* the file lacks a change of the configuration
    slipped,            \* a save has failed since the process started
    faults,             \* how many saves have failed
    calls               \* how many admin methods were called

process == <<instances, made, active, callees, agent_keys, interface_threads,
             server, static_servers>>
disk == <<file, behind, slipped, faults>>
vars == <<config, mode, process, disk, calls>>

(* Configuration::default()                                                *)
DefaultConfiguration ==
    [agents |-> <<>>, dnas |-> {}, instances |-> <<>>, interfaces |-> <<>>,
     bridges |-> {}, bundles |-> {}, uis |-> {}, dpki |-> None]

NoServer == [state |-> "none", serves |-> {}]

-----------------------------------------------------------------------------
(* Configuration::check_consistency.  Ids of agents, DNAs, instances and   *)
(* interfaces are unique (detect_dupes), so those parts are functions.     *)

(* Every set of instances has one that calls no other of the set: what     *)
(* petgraph's toposort needs to succeed.                                   *)
Acyclic(bridges) ==
    \A S \in SUBSET Instance :
        S # {} => \E i \in S : \A j \in S : <<i, j>> \notin bridges

RefersToKnown(c) ==
    /\ \A i \in DOMAIN c.instances :
           /\ c.instances[i].agent \in DOMAIN c.agents
           /\ c.instances[i].dna \in c.dnas
    /\ \A f \in DOMAIN c.interfaces : c.interfaces[f] \subseteq DOMAIN c.instances
    /\ c.bridges \subseteq (DOMAIN c.instances) \X (DOMAIN c.instances)
    /\ \A u \in c.uis :
           /\ u.bundle \in c.bundles
           /\ u.interface \in (DOMAIN c.interfaces) \cup {None}
    /\ c.dpki \in (DOMAIN c.instances) \cup {None}

CheckConsistency(c) == RefersToKnown(c) /\ Acyclic(c.bridges)

(* The orders toposort may return, reversed: callees before their callers. *)
InstanceIdsSortedByBridgeDependencies(c) ==
    {s \in [1 .. Cardinality(DOMAIN c.instances) -> DOMAIN c.instances] :
        /\ IsInjective(s)
        /\ \A m, n \in DOMAIN s : <<s[m], s[n]>> \in c.bridges => n < m}

(* save_remove_instance drops the instance and its mentions in interfaces, *)
(* and keeps bridges and the dpki instance.                                *)
SaveRemoveInstances(c, ids) ==
    [c EXCEPT !.instances = Restrict(@, DOMAIN @ \ ids),
              !.interfaces = [f \in DOMAIN @ |-> @[f] \ ids]]

-----------------------------------------------------------------------------
(* Keeping a changed configuration: the check first, then the assignment,  *)
(* then save_config, whose error leaves the assignment in place.           *)

SaveWorks == file' = {config'} /\ behind' = FALSE /\ UNCHANGED <<slipped, faults>>

SaveFails ==
    /\ faults < MaxFault
    /\ faults' = faults + 1
    /\ behind' = TRUE /\ slipped' = TRUE
    /\ file' \in {file, {}}

Saved == SaveWorks \/ SaveFails

Change(new) == mode = "up" /\ CheckConsistency(new) /\ config' = new

(* The process stops: what was kept in memory is lost.                     *)
Stopped ==
    /\ mode' = "down" /\ config' = DefaultConfiguration
    /\ behind' = FALSE /\ slipped' = FALSE /\ calls' = calls
    /\ instances' = <<>> /\ active' = {} /\ callees' = {} /\ agent_keys' = <<>>
    /\ made' = [i \in Instance |-> 0]
    /\ interface_threads' = {} /\ static_servers' = <<>>
    /\ server' = [f \in Interface |-> NoServer]

Crash == mode # "down" /\ Stopped /\ UNCHANGED <<file, faults>>

(* The process stops between File::create, which truncates the file, and   *)
(* the write.                                                              *)
CrashInSave ==
    /\ mode = "up" /\ faults < MaxFault
    /\ Stopped
    /\ file' = {}
    /\ faults' = faults + 1

-----------------------------------------------------------------------------
(* The interfaces.  A server that was told to stop keeps its port until    *)
(* its thread has ended ("dying"); run() fails on a port that is taken and *)
(* spawn_interface_thread unwraps that failure.                            *)

(* make_interface_handler: the listed instances that exist at this moment. *)
Served(c, f, insts) ==
    {<<i, insts[i]>> : i \in c.interfaces[f] \cap DOMAIN insts}

(* The kill switch of a thread is sent once, before its key is removed.    *)
StopInterfaceById(f, threads, servers) ==
    IF f \in threads
    THEN [threads |-> threads \ {f}, servers |-> [servers EXCEPT ![f].state = "dying"]]
    ELSE [threads |-> threads, servers |-> servers]

(* spawn_interface_thread: a panic under the mutex when the port is taken. *)
(* A server that was told to stop may or may not have given it back.       *)
SpawnInterfaceThread(c, f, threads, servers) ==
    \/ /\ interface_threads' = threads \cup {f} /\ mode' = mode
       /\ server' = [servers EXCEPT ![f] = [state |-> "up",
                                           serves |-> Served(c, f, instances)]]
    \/ /\ servers[f].state # "none"
       /\ interface_threads' = threads /\ server' = servers /\ mode' = "poisoned"

(* start_interface: an error when there is a thread already.               *)
StartInterfaceById(c, f, threads, servers) ==
    \/ /\ f \in threads
       /\ interface_threads' = threads /\ server' = servers /\ mode' = mode
    \/ f \notin threads /\ SpawnInterfaceThread(c, f, threads, servers)

(* A stopped interface's thread ends: its server is dropped.               *)
PortReleased(f) ==
    /\ server[f].state = "dying"
    /\ server' = [server EXCEPT ![f] = NoServer]
    /\ UNCHANGED <<config, file, mode, instances, made, active, callees,
                   agent_keys, interface_threads, static_servers, disk, calls>>

(* setup_call_api: a call through the interface reaches the object of the  *)
(* handler's own map, and is answered when that object is active.          *)
CanCall(f, o) == server[f].state = "up" /\ o \in server[f].serves /\ o \in active

-----------------------------------------------------------------------------
(* Starting: the executable loads the file, checks it, mounts a conductor, *)
(* loads the agents' keys, boots, and starts everything.                   *)

Init ==
    /\ file \in {{c} : c \in First}
    /\ config = DefaultConfiguration /\ mode = "down" /\ faults = 0 /\ calls = 0
    /\ behind = FALSE /\ slipped = FALSE
    /\ instances = <<>> /\ active = {} /\ callees = {} /\ agent_keys = <<>>
    /\ made = [i \in Instance |-> 0]
    /\ interface_threads = {} /\ static_servers = <<>>
    /\ server = [f \in Interface |-> NoServer]

(* instantiate_from_config: the object keeps the object of each callee.    *)
Bridged(c, i, n, insts) ==
    {<< <<i, n>>, <<b[2], insts[b[2]]>> >> : b \in {x \in c.bridges : x[1] = i}}

(* Instantiating in the given order expects the callee of every bridge     *)
(* among the instances made before.                                        *)
CalleesThere(c, order) ==
    \A n \in DOMAIN order, j \in Instance :
        <<order[n], j>> \in c.bridges => \E m \in 1 .. n - 1 : order[m] = j

UiIds(c) == {u.id : u \in c.uis}

LoadKeys(c) ==
    [a \in {x \in DOMAIN c.agents : ~c.agents[x].remote} |-> c.agents[a].key]

(* boot_from_config ends with dpki_bootstrap, which calls the dpki         *)
(* instance: no instance is active yet, and the error ends the start.      *)
BootFromConfig(c) ==
    /\ CheckConsistency(c)
    /\ c.dpki = None
    /\ config' = c
    /\ agent_keys' = LoadKeys(c)
    /\ instances' = [i \in DOMAIN c.instances |-> 1]
    /\ made' = [i \in Instance |-> IF i \in DOMAIN c.instances THEN 1 ELSE 0]
    /\ callees' = UNION {Bridged(c, i, 1, instances') : i \in DOMAIN c.instances}

StartAll(c) ==
    /\ active' = {<<i, 1>> : i \in DOMAIN c.instances}
    /\ interface_threads' = DOMAIN c.interfaces
    /\ server' = [f \in Interface |->
                     IF f \in DOMAIN c.interfaces
                     THEN [state |-> "up", serves |-> Served(c, f, instances')]
                     ELSE NoServer]
    /\ \E pick \in [UiIds(c) -> c.uis] :
           /\ \A u \in UiIds(c) : pick[u].id = u
           /\ static_servers' = [u \in UiIds(c) |-> [bundle |-> pick[u].bundle,
                                                   state |-> "serving"]]

(* A panic in the boot ends the process: it is kept as a mode of its own   *)
(* for the property that says it does not happen.                          *)
Start == \E c \in file :
    /\ mode = "down"
    /\ \E order \in InstanceIdsSortedByBridgeDependencies(c) :
           IF CalleesThere(c, order)
           THEN BootFromConfig(c) /\ StartAll(c) /\ mode' = "up"
           ELSE mode' = "boot panic" /\ UNCHANGED <<config, process>>
    /\ UNCHANGED <<disk, calls>>

-----------------------------------------------------------------------------
(* DNAs, instances and agents.  A call that returns an error before it has *)
(* changed anything is not a step.                                         *)

(* install_dna_from_file, the file having been read and its hash found     *)
(* right.                                                                  *)
InstallDna(d) ==
    /\ d \notin config.dnas
    /\ Change([config EXCEPT !.dnas = @ \cup {d}])
    /\ Saved
    /\ UNCHANGED <<mode, process>>

ObjectsOf(ids) == {<<i, instances[i]>> : i \in ids \cap DOMAIN instances}

(* Stops the instances it takes out of the configuration, but leaves their *)
(* objects in the map.                                                     *)
UnconfigureUnchecked(new, ids) ==
    /\ mode = "up" /\ config' = SaveRemoveInstances(new, ids)
    /\ SaveWorks /\ active' = active \ ObjectsOf(ids)
    /\ UNCHANGED <<mode, instances, made, callees, agent_keys,
                   interface_threads, server, static_servers>>

Unconfigure(new, ids) ==
    /\ Change(SaveRemoveInstances(new, ids))
    /\ \/ SaveWorks /\ active' = active \ ObjectsOf(ids)
       \/ SaveFails /\ active' = active
    /\ UNCHANGED <<mode, instances, made, callees, agent_keys,
                   interface_threads, server, static_servers>>

UninstallDna(d) ==
    Unconfigure([config EXCEPT !.dnas = @ \ {d}],
                {i \in DOMAIN config.instances : config.instances[i].dna = d})

RemoveAgent(a) ==
    /\ a \in DOMAIN config.agents
    /\ Unconfigure([config EXCEPT !.agents = Restrict(@, DOMAIN @ \ {a})],
                   {i \in DOMAIN config.instances : config.instances[i].agent = a})

(* The instance is made and entered before the configuration is saved.     *)
AddInstance(i, d, a) ==
    /\ i \notin DOMAIN config.instances
    /\ made[i] < MaxObject
    /\ Change([config EXCEPT !.instances = (i :> [dna |-> d, agent |-> a]) @@ @])
    /\ instances' = (i :> made[i] + 1) @@ instances
    /\ made' = [made EXCEPT ![i] = @ + 1]
    /\ callees' = callees \cup Bridged(config', i, made[i] + 1, instances)
    /\ Saved
    /\ UNCHANGED <<mode, active, agent_keys, interface_threads, server, static_servers>>

RemoveInstance(i) ==
    /\ Change(SaveRemoveInstances(config, {i}))
    /\ \/ /\ SaveWorks
          /\ active' = active \ ObjectsOf({i})
          /\ instances' = Restrict(instances, DOMAIN instances \ {i})
       \/ SaveFails /\ UNCHANGED <<active, instances>>
    /\ UNCHANGED <<mode, made, callees, agent_keys, interface_threads, server,
                   static_servers>>

StartInstance(i) ==
    /\ mode = "up" /\ i \in DOMAIN instances /\ <<i, instances[i]>> \notin active
    /\ active' = active \cup ObjectsOf({i})
    /\ UNCHANGED <<config, mode, instances, made, callees, agent_keys,
                   interface_threads, server, static_servers, disk>>

StopInstance(i) ==
    /\ mode = "up" /\ i \in DOMAIN instances /\ <<i, instances[i]>> \in active
    /\ active' = active \ ObjectsOf({i})
    /\ UNCHANGED <<config, mode, instances, made, callees, agent_keys,
                   interface_threads, server, static_servers, disk>>

(* A new keystore has a new key; an agent with a remote key brings its own *)
(* and has no keystore.  The keystore is entered before the configuration  *)
(* is kept.                                                                *)
AddAgent(a, k, remote) ==
    /\ a \notin DOMAIN config.agents
    /\ k \notin {config.agents[x].key : x \in DOMAIN config.agents} \cup Range(agent_keys)
    /\ Change([config EXCEPT !.agents = (a :> [key |-> k, remote |-> remote]) @@ @])
    /\ agent_keys' = IF remote THEN agent_keys ELSE (a :> k) @@ agent_keys
    /\ Saved
    /\ UNCHANGED <<mode, instances, made, active, callees, interface_threads,
                   server, static_servers>>

(* The agents of the test interface are not saved.                         *)
AddTestAgent(a, k) ==
    /\ a \notin DOMAIN config.agents
    /\ Change([config EXCEPT !.agents = (a :> [key |-> k, remote |-> FALSE]) @@ @])
    /\ agent_keys' = (a :> k) @@ agent_keys
    /\ behind' = TRUE
    /\ UNCHANGED <<mode, instances, made, active, callees, interface_threads,
                   server, static_servers, file, slipped, faults>>

-----------------------------------------------------------------------------
(* Interfaces and bridges.                                                 *)

Unthreaded == UNCHANGED <<instances, made, active, callees, agent_keys, static_servers>>

AddInterface(f) ==
    /\ f \notin DOMAIN config.interfaces
    /\ Change([config EXCEPT !.interfaces = (f :> {}) @@ @])
    /\ \/ SaveWorks /\ StartInterfaceById(config', f, interface_threads, server)
       \/ SaveFails /\ UNCHANGED <<mode, interface_threads, server>>
    /\ Unthreaded

RemoveInterface(f) ==
    /\ f \in DOMAIN config.interfaces
    /\ Change([config EXCEPT !.interfaces = Restrict(@, DOMAIN @ \ {f})])
    /\ \/ /\ SaveWorks
          /\ LET stopped == StopInterfaceById(f, interface_threads, server)
             IN interface_threads' = stopped.threads /\ server' = stopped.servers
       \/ SaveFails /\ UNCHANGED <<interface_threads, server>>
    /\ mode' = mode
    /\ Unthreaded

(* Both ways to change the instances of an interface restart it.           *)
ChangeInterfaceInPlace(f, ids) ==
    /\ Change([config EXCEPT !.interfaces[f] = ids])
    /\ Saved
    /\ UNCHANGED <<mode, interface_threads, server>>
    /\ Unthreaded

ChangeInterface(f, ids) ==
    /\ Change([config EXCEPT !.interfaces[f] = ids])
    /\ \/ /\ SaveWorks
          /\ LET stopped == StopInterfaceById(f, interface_threads, server)
             IN StartInterfaceById(config', f, stopped.threads, stopped.servers)
       \/ SaveFails /\ UNCHANGED <<mode, interface_threads, server>>
    /\ Unthreaded

AddInstanceToInterface(f, i) ==
    /\ f \in DOMAIN config.interfaces /\ i \notin config.interfaces[f]
    /\ ChangeInterface(f, config.interfaces[f] \cup {i})

RemoveInstanceFromInterface(f, i) ==
    /\ f \in DOMAIN config.interfaces /\ i \in config.interfaces[f]
    /\ ChangeInterface(f, config.interfaces[f] \ {i})

(* A bridge changes the configuration only: the caller keeps the callees   *)
(* it was made with.                                                       *)
AddBridge(i, j) ==
    /\ <<i, j>> \notin config.bridges
    /\ Change([config EXCEPT !.bridges = @ \cup {<<i, j>>}])
    /\ Saved
    /\ UNCHANGED <<mode, process>>

RemoveBridge(i, j) ==
    /\ <<i, j>> \in config.bridges
    /\ Change([config EXCEPT !.bridges = @ \ {<<i, j>>}])
    /\ Saved
    /\ UNCHANGED <<mode, process>>

-----------------------------------------------------------------------------
(* UI bundles and the static servers.  A server is "idle", "serving", or   *)
(* "dead" when the thread it was started in could not bind its port.       *)

InstallUiBundle(b) ==
    /\ Change([config EXCEPT !.bundles = @ \cup {b}])
    /\ Saved
    /\ UNCHANGED <<mode, process>>

Unserved == UNCHANGED <<mode, instances, made, active, callees, agent_keys,
                        interface_threads, server>>

(* No duplicate ids are looked for.  The server replaces, and so ends, one *)
(* of the same id; it is not started.                                      *)
AddUiInterface(u) ==
    /\ Change([config EXCEPT !.uis = @ \cup {u}])
    /\ \/ /\ SaveWorks
          /\ static_servers' = (u.id :> [bundle |-> u.bundle, state |-> "idle"])
                                   @@ static_servers
       \/ SaveFails /\ static_servers' = static_servers
    /\ Unserved

(* stop() of a server: an error without a thread to tell.                  *)
Ended(s) == [s EXCEPT !.state = IF @ = "serving" THEN "idle" ELSE @]

StopUis(ids) == [u \in DOMAIN static_servers |->
                     IF u \in ids THEN Ended(static_servers[u]) ELSE static_servers[u]]

WithoutUis(ids) == [config EXCEPT !.uis = {u \in @ : u.id \notin ids}]

(* Interfaces of the configuration are stopped first; the server is        *)
(* dropped once the change is saved.                                       *)
RemoveUis(removed, failing) ==
    LET ended == StopUis((removed \cup failing) \cap UiIds(config))
    IN /\ Change(WithoutUis(removed \cup failing))
       /\ IF failing = {} THEN SaveWorks ELSE SaveFails
       /\ static_servers' = Restrict(ended, DOMAIN ended \ removed)
       /\ Unserved

RemoveUiInterface(u) == RemoveUis({u}, {}) \/ RemoveUis({}, {u})

(* The configuration without the bundle is made before the interfaces of   *)
(* the bundle are removed and still has them: when there are any they go,  *)
(* the check then fails, and the bundle stays.                             *)
UninstallUiBundle(b) ==
    LET mine == {u.id : u \in {x \in config.uis : x.bundle = b}}
    IN /\ b \in config.bundles
       /\ \/ /\ mine = {}
             /\ Change([config EXCEPT !.bundles = @ \ {b}])
             /\ Saved
             /\ UNCHANGED <<mode, process>>
          \/ mine # {} /\ RemoveUis(mine, {})
          \/ \E u \in mine, S \in SUBSET mine : u \notin S /\ RemoveUis(S, {u})

(* start() of a server that serves drops the signal of its thread and      *)
(* binds the same port in another.                                         *)
StartUiInterface(u) ==
    /\ mode = "up" /\ u \in DOMAIN static_servers
    /\ \E s \in {"serving", "dead"} :
           static_servers' = [static_servers EXCEPT ![u].state = s]
    /\ UNCHANGED <<config, disk>>
    /\ Unserved

StopUiInterface(u) ==
    /\ mode = "up" /\ u \in DOMAIN static_servers
    /\ static_servers[u].state = "serving"
    /\ static_servers' = StopUis({u})
    /\ UNCHANGED <<config, disk>>
    /\ Unserved

-----------------------------------------------------------------------------
(* The methods of an admin interface: with_admin_dna_functions,            *)
(* with_admin_ui_functions and with_test_admin_functions.                  *)

DnaMethods == \E d \in Dna : InstallDna(d) \/ UninstallDna(d)

InstanceMethods == \E i \in Instance :
    \/ \E d \in Dna, a \in Agent : AddInstance(i, d, a)
    \/ RemoveInstance(i)
    \/ StartInstance(i)
    \/ StopInstance(i)

InterfaceMethods == \E f \in Interface :
    \/ AddInterface(f)
    \/ RemoveInterface(f)
    \/ \E i \in Instance : AddInstanceToInterface(f, i) \/ RemoveInstanceFromInterface(f, i)

AgentMethods == \E a \in Agent :
    \/ \E k \in Key, remote \in BOOLEAN : AddAgent(a, k, remote)
    \/ RemoveAgent(a)

BridgeMethods == \E i, j \in Instance : AddBridge(i, j) \/ RemoveBridge(i, j)

UiMethods ==
    \/ \E b \in Bundle : InstallUiBundle(b) \/ UninstallUiBundle(b)
    \/ \E u \in Ui :
           \/ \E b \in Bundle, f \in Interface \cup {None} :
                  AddUiInterface([id |-> u, bundle |-> b, interface |-> f])
           \/ RemoveUiInterface(u)
           \/ StartUiInterface(u)
           \/ StopUiInterface(u)

TestMethods == \E a \in Agent, k \in Key : AddTestAgent(a, k)

AdminCall ==
    /\ calls < MaxCall
    /\ calls' = calls + 1
    /\ \/ DnaMethods
       \/ InstanceMethods
       \/ InterfaceMethods
       \/ AgentMethods
       \/ BridgeMethods
       \/ UiMethods
       \/ TestMethods

Next ==
    \/ AdminCall
    \/ Start
    \/ Crash
    \/ CrashInSave
    \/ \E f \in Interface : PortReleased(f)

(* A conductor that has ended is started again; a thread that was told to  *)
(* stop ends.                                                              *)
Fairness == WF_vars(Start) /\ \A f \in Interface : WF_vars(PortReleased(f))

Spec == Init /\ [][Next]_vars /\ Fairness

-----------------------------------------------------------------------------
Objects == Instance \X (1 .. MaxObject)

(* Every variable keeps its type.                                          *)
TypeOK ==
    /\ DOMAIN config.instances \subseteq Instance
    /\ config.bridges \subseteq Instance \X Instance
    /\ Cardinality(file) <= 1
    /\ mode \in {"down", "up", "poisoned"}
    /\ DOMAIN instances \subseteq Instance
    /\ active \subseteq Objects
    /\ callees \subseteq Objects \X Objects
    /\ DOMAIN agent_keys \subseteq Agent
    /\ interface_threads \subseteq Interface
    /\ \A f \in Interface : server[f].state \in {"none", "up", "dying"}
    /\ DOMAIN static_servers \subseteq Ui

(* A configuration that was saved can be booted: whatever was changed and  *)
(* whichever save failed, the file is unreadable or consistent, and the    *)
(* boot finds the callee of every bridge made before its caller.           *)
SavedConfigBoots == mode # "boot panic" /\ \A c \in file : CheckConsistency(c)

(* While the conductor runs, every configured instance has an object, so   *)
(* the expectations on the instance map hold however additions, removals,  *)
(* uninstalls and failed saves are mixed.                                  *)
ConfiguredHaveInstance == DOMAIN config.instances \subseteq DOMAIN instances

(* "There are no stopped interfaces - every interface that is configured   *)
(* is also active", and it serves the current object of every instance it  *)
(* lists: in a process whose saves worked and which did not panic.         *)
ListedAreServed ==
    mode = "up" /\ ~slipped =>
        \A f \in DOMAIN config.interfaces :
            /\ f \in interface_threads /\ server[f].state = "up"
            /\ Served(config, f, instances) \subseteq server[f].serves

(* After a change the configuration is on disk: only a failed save and the *)
(* agents of the test interface leave the file behind.                     *)
FileKeepsUp == mode = "up" /\ ~behind => file = {config}

(* The key in memory is the key of the agent in the configuration, though  *)
(* remove_agent keeps the keystore of an id that can be added again.       *)
KeysMatch ==
    \A a \in DOMAIN config.agents \cap DOMAIN agent_keys :
        ~config.agents[a].remote => agent_keys[a] = config.agents[a].key

(* A bridged call holds the lock of every object on its way.  The objects  *)
(* never call each other in a circle, though they keep bridges that were   *)
(* removed from the configuration and new ones may point back.             *)
CallsInNoCircle ==
    \A S \in SUBSET {p[1] : p \in callees} :
        S # {} => \E o \in S : \A q \in S : <<o, q>> \notin callees

(* A static server that serves belongs to a configured UI interface, and   *)
(* its bundle is installed, while saves work: one whose removal could not  *)
(* be saved stays in the map and can be started again.                     *)
ServedUiInstalled ==
    ~slipped => \A u \in DOMAIN static_servers : static_servers[u].state = "serving" =>
        /\ static_servers[u].bundle \in config.bundles
        /\ \E x \in config.uis : x.id = u /\ x.bundle = static_servers[u].bundle

(* Uninstalling a DNA "removes (and stops) all instances this DNA is used  *)
(* in": no interface answers a call for an instance that is not in the     *)
(* configuration, while saves work.                                        *)
UninstalledNotAnswered ==
    mode = "up" /\ ~slipped =>
        \A f \in Interface, o \in Objects : CanCall(f, o) => o[1] \in DOMAIN config.instances

Startable == mode = "down" /\ \E c \in file : c.dpki = None

(* A stopped conductor whose configuration is readable and has no dpki     *)
(* instance comes up again: it does not stay stopped.                      *)
ComesUp == []<>~Startable
=============================================================================
