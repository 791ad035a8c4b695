------------------------------ MODULE Nucleus ------------------------------
(***************************************************************************)
(* The nucleus of one instance: how a conductor makes the instance from    *)
(* its storage or initializes a new chain                                  *)
(* (conductor_api/src/holochain.rs, core/src/workflows/application.rs,     *)
(* core/src/nucleus/actions/initialize.rs), the status and the zome calls  *)
(* in the nucleus' state slice (core/src/nucleus/state.rs, reducers/), the *)
(* capability grants that let a call run                                   *)
(* (core/src/nucleus/actions/call_zome_function.rs), and the two snapshots *)
(* a restart starts from (core/src/persister.rs).                          *)
(*                                                                         *)
(* The process may stop at any time; the storage survives.  The chain is   *)
(* the sequence of its entries, and an entry is its own address.           *)
(***************************************************************************)
EXTENDS Naturals, Sequences

CONSTANTS
    Dnas,      \* the DNAs an instance may be configured with: records of
               \* zomes, fns and public (the functions of the public traits)
    Agent,     \* the agents that call
    Me,        \* the agent of the instance
    Call,      \* identifiers of zome calls
    Request,   \* what zome code asks to be granted: records of type,
               \* assignees (see CapTokenGrant below) and fns
    MaxFault,  \* bound on failing commits, saves and sends together
    MaxCrash   \* bound on the stops of the process

ASSUME MeAssumption == Me \in Agent

VARIABLES
    dna,       \* the configured DNA
    state,     \* the instance's state: status, token, dna, chain, net,
               \* zome_calls and responses (AgentState::actions by thread)
    cas,       \* entries in the content storage
    saved,     \* the snapshots in the content storage: agent, nucleus
    queue,     \* the action channel
    loop,      \* where the action loop is
    left,      \* the state a loop left behind by a failed load has to save
    pc,        \* where Holochain::load or Holochain::new is
    todo,      \* the zomes whose genesis callback has not run
    calls,     \* the calls of this process
    granted,   \* history: the grants asked for on the chains of this storage
    failed,    \* has a genesis callback failed?
    genesis,   \* history: the zomes whose genesis callback has not failed
    was,       \* history: has the instance been active?
    dropped,   \* history: the statuses of the chains whose load was given up
    faults,    \* how many commits, saves and sends have failed
    crashes    \* how often the process has stopped

history == <<granted, genesis, was, dropped>>
vars == <<dna, state, cas, saved, queue, loop, left, pc, todo, failed, calls, history, faults, crashes>>

-----------------------------------------------------------------------------
(* CapTokenGrant (core_types/src/entry/cap_entries.rs).  An Option is a    *)
(* set of at most one element: {} is None.                                 *)

CapabilityType == {"Public", "Transferable", "Assigned"}

ASSUME RequestAssumption == \A r \in Request : r.type \in CapabilityType

(* CapTokenGrant::valid: the assignees to store, or an error ({}).         *)
Valid(type, assignees) ==
    IF type = "Assigned"
    THEN IF assignees \subseteq {{}} THEN {} ELSE {assignees}
    ELSE IF assignees \subseteq {{}} THEN {IF type = "Public" THEN {} ELSE {{}}} ELSE {}

(* CapTokenGrant::create *)
Create(id, r) ==
    {[kind |-> "grant", id |-> id, assignees |-> a, fns |-> r.fns]
        : a \in Valid(r.type, r.assignees)}

(* CapTokenGrant::cap_type: told from the assignees.                       *)
CapType(g) ==
    IF g.assignees = {} THEN "Public"
    ELSE IF g.assignees = {{}} THEN "Transferable" ELSE "Assigned"

DnaEntry == [kind |-> "dna"]
AgentEntry == [kind |-> "agent"]

(* The public grant initialize_chain creates for the public traits.        *)
PublicRequest == [type |-> "Public", assignees |-> {}, fns |-> dna.public]
PublicGrants == Create("hc_public", PublicRequest)

OnChain(chain) == {chain[i] : i \in DOMAIN chain}

(* Faulty: the newest grant is taken, whatever its id. *)
PublicTokenNewestGrant ==
    {g \in OnChain(state.chain) :
        /\ g.kind = "grant" /\ CapType(g) = "Public"
        /\ \E i \in DOMAIN state.chain : state.chain[i] = g
             /\ \A j \in i + 1 .. Len(state.chain) : state.chain[j].kind # "grant"}

(* Context::get_public_token: the newest public grant with the reserved id *)
PublicToken ==
    {g \in OnChain(state.chain) :
        /\ g.kind = "grant" /\ g.id = "hc_public" /\ CapType(g) = "Public"
        /\ \E i \in DOMAIN state.chain : state.chain[i] = g
             /\ \A j \in i + 1 .. Len(state.chain) :
                    state.chain[j].kind = "grant" => state.chain[j].id # "hc_public"}

-----------------------------------------------------------------------------
(* Threads that wait for the response to a Commit: "init" and the calls.   *)
Thread == Call \cup {"init"}
NoResponse == [t \in Thread |-> "none"]

(* NucleusState::new and an AgentState without a chain: State::new         *)
NewState == [status |-> "New", token |-> {}, dna |-> FALSE, chain |-> <<>>,
             net |-> FALSE, zome_calls |-> {}, responses |-> NoResponse]

(* Faulty: the chain is loaded as it was initialized. *)
LoadedAsInitialized(agent, nucleus) ==
    [NewState EXCEPT !.status = nucleus.status, !.token = nucleus.token,
                     !.chain = SelectSeq(agent, LAMBDA e : e.kind = "grant" => e.id # "app"),
                     !.dna = DnaEntry \in OnChain(agent)]

(* State::try_from_snapshots: the DNA is read from the chain.              *)
LoadedState(agent, nucleus) ==
    [NewState EXCEPT !.status = nucleus.status, !.token = nucleus.token,
                     !.chain = agent, !.dna = DnaEntry \in OnChain(agent)]

NoCall == [pc |-> "none", fn |-> "none", token |-> {}, by |-> Me, result |-> {}]

(* A call that was refused, or that the end of its process has ended.      *)
Over == [NoCall EXCEPT !.pc = "over"]

Init ==
    /\ dna \in Dnas
    /\ state = NewState
    /\ cas = {}
    /\ saved = [agent |-> {}, nucleus |-> {}]
    /\ queue = <<>>
    /\ loop = "idle"
    /\ left = {}
    /\ pc = "down"
    /\ todo = {}
    /\ failed = FALSE
    /\ calls = [c \in Call |-> NoCall]
    /\ granted = {}
    /\ genesis = {}
    /\ was = FALSE
    /\ dropped = {}
    /\ faults = 0
    /\ crashes = 0

-----------------------------------------------------------------------------
(* The conductor makes the instance (instantiate_from_config).             *)

(* get_dna_and_agent: the agent's entry is found by the address the        *)
(* context knows, in the storage, whether or not a header is on the chain. *)
HasDnaAndAgent(s) == s.dna /\ AgentEntry \in cas

(* Holochain::load: both snapshots are there and the state they give has a *)
(* DNA and an agent; initialize_network dispatches InitNetwork.            *)
Load ==
    /\ pc = "down"
    /\ saved.agent # {} /\ saved.nucleus # {}
    /\ \E a \in saved.agent, n \in saved.nucleus :
          /\ HasDnaAndAgent(LoadedState(a, n))
          /\ state' = LoadedState(a, n)
    /\ pc' = "load_network"
    /\ queue' = <<[type |-> "InitNetwork"]>>
    /\ UNCHANGED <<dna, cas, saved, loop, left, todo, failed, calls, history, faults, crashes>>

(* Holochain::new: a fresh state, whose status is New and which has no DNA, *)
(* so that initialize_chain dispatches InitializeChain.  The loop of the    *)
(* instance that failed to load still finishes its last action.             *)
NewChain ==
    /\ state' = NewState
    /\ pc' = "initialize"
    /\ queue' = <<[type |-> "InitializeChain"]>>
    /\ left' = IF loop = "idle" THEN {} ELSE {state}
    /\ loop' = "idle"
    /\ failed' = FALSE
    /\ UNCHANGED <<dna, cas, saved, todo, calls, granted, genesis, was, faults, crashes>>

(* Holochain::load fails at once, or ... *)
LoadFails ==
    /\ pc = "down"
    /\ \A a \in saved.agent, n \in saved.nucleus : ~HasDnaAndAgent(LoadedState(a, n))
    /\ NewChain
    /\ UNCHANGED dropped

(* ... when the agent's entry cannot be published: the error of a load     *)
(* makes the conductor initialize a new chain.                             *)
LoadedPublishFails ==
    /\ pc = "load_publish"
    /\ state.responses["init"] = "err"
    /\ NewChain
    /\ dropped' = dropped \cup {state.status}

(* After a load or an initialization: InitNetworkFuture is ready, and the  *)
(* agent's entry gets published.                                           *)
NetworkUp ==
    /\ pc \in {"load_network", "new_network"}
    /\ state.net
    /\ pc' = IF pc = "load_network" THEN "load_publish" ELSE "new_publish"
    /\ queue' = Append(queue, [type |-> "Publish"])
    /\ state' = [state EXCEPT !.responses["init"] = "none"]
    /\ UNCHANGED <<dna, cas, saved, loop, left, todo, failed, calls, history, faults, crashes>>

(* The Holochain object is returned and started.                           *)
Start ==
    /\ pc \in {"load_publish", "new_publish"}
    /\ state.responses["init"] = "ok"
    /\ pc' = "active"
    /\ was' = TRUE
    /\ UNCHANGED <<dna, state, cas, saved, queue, loop, left, todo, failed, calls, granted, genesis,
                   dropped, faults, crashes>>

-----------------------------------------------------------------------------
(* initialize_chain                                                        *)

Dispatch(a) == queue' = Append(queue, a)

Commit(by, e) == [type |-> "Commit", by |-> by, entry |-> e]
Return(ok) == [type |-> "ReturnInitializationResult", ok |-> ok]

initUnchanged == <<dna, cas, saved, loop, left, calls, granted, was, dropped, faults, crashes>>

(* dispatch_action_and_wait(InitializeChain) returns: the DNA is committed *)
CommitDna ==
    /\ pc = "initialize"
    /\ state.status # "New"
    /\ Dispatch(Commit("init", DnaEntry))
    /\ pc' = "dna"
    /\ UNCHANGED <<state, todo, failed, genesis, initUnchanged>>

CommitAgent ==
    /\ pc = "dna"
    /\ state.responses["init"] = "ok"
    /\ state' = [state EXCEPT !.responses["init"] = "none"]
    /\ Dispatch(Commit("init", AgentEntry))
    /\ pc' = "agent"
    /\ UNCHANGED <<todo, failed, genesis, initUnchanged>>

(* A commit of the initialization fails: dispatch_error_result, and error. *)
CommitError ==
    /\ pc \in {"dna", "agent", "public"}
    /\ state.responses["init"] = "err"
    /\ Dispatch(Return(FALSE))
    /\ pc' = "error"
    /\ UNCHANGED <<state, todo, failed, genesis, initUnchanged>>

(* A DNA without zomes: an error, and no result for the nucleus.           *)
NoZomes ==
    /\ pc = "agent"
    /\ state.responses["init"] = "ok"
    /\ dna.zomes = {}
    /\ pc' = "error"
    /\ UNCHANGED <<state, queue, todo, failed, genesis, initUnchanged>>

CommitPublicGrant ==
    /\ pc = "agent"
    /\ state.responses["init"] = "ok"
    /\ dna.zomes # {} /\ dna.public # {}
    /\ state' = [state EXCEPT !.responses["init"] = "none"]
    /\ \E g \in PublicGrants : Dispatch(Commit("init", g))
    /\ granted' = granted \cup {PublicRequest}
    /\ pc' = "public"
    /\ UNCHANGED <<dna, cas, saved, loop, left, todo, failed, calls, genesis, was, dropped, faults, crashes>>

(* The genesis callbacks are mapped over the zomes ...                     *)
BeginGenesis ==
    /\ \/ pc = "public"
       \/ pc = "agent" /\ dna.zomes # {} /\ dna.public = {}
    /\ state.responses["init"] = "ok"
    /\ todo' = dna.zomes
    /\ pc' = "genesis"
    /\ UNCHANGED <<state, queue, failed, genesis, initUnchanged>>

(* ... one after the other: run_callback maps a null result to Pass, any   *)
(* other to Fail, and an error of the ribosome to NotImplemented.          *)
Genesis(z, r) ==
    /\ pc = "genesis"
    /\ z \in todo
    /\ todo' = todo \ {z}
    /\ failed' = (failed \/ r = "Fail")
    /\ genesis' = IF r = "Fail" THEN genesis ELSE genesis \cup {z}
    /\ UNCHANGED <<state, queue, pc, initUnchanged>>

ReturnInitializationResult ==
    /\ pc = "genesis"
    /\ todo = {}
    /\ Dispatch(Return(~failed))
    /\ pc' = "result"
    /\ UNCHANGED <<state, todo, failed, genesis, initUnchanged>>

(* InitializationFuture: ready with the status, or with an error after     *)
(* INITIALIZATION_TIMEOUT (which may pass at any time before).             *)
InitializationDone ==
    /\ pc = "result"
    /\ state.status = "Initialized"
    /\ pc' = "new_network"
    /\ Dispatch([type |-> "InitNetwork"])
    /\ UNCHANGED <<state, todo, failed, genesis, initUnchanged>>

InitializationError ==
    /\ pc = "result"
    /\ pc' = "error"
    /\ UNCHANGED <<state, queue, todo, failed, genesis, initUnchanged>>

(* Holochain::new fails: the instance is not made.                         *)
PublishError ==
    /\ pc = "new_publish"
    /\ state.responses["init"] = "err"
    /\ pc' = "error"
    /\ UNCHANGED <<state, queue, todo, failed, genesis, initUnchanged>>

InitThread ==
    \/ NetworkUp \/ Start \/ CommitDna \/ CommitAgent \/ CommitError \/ NoZomes
    \/ CommitPublicGrant \/ BeginGenesis \/ LoadedPublishFails \/ PublishError
    \/ \E z \in todo, r \in {"Pass", "Fail", "NotImplemented"} : Genesis(z, r)
    \/ ReturnInitializationResult \/ InitializationDone \/ InitializationError

-----------------------------------------------------------------------------
(* Zome calls (call_zome_function.rs)                                      *)

(* get_grant: a grant is looked up on the chain, not in the storage.       *)
GetGrant(token) == {g \in token : g \in OnChain(state.chain) /\ g.kind = "grant"}

(* Faulty: the assignees are not compared with the caller. *)
VerifyGrantForAnyone(g, fn, by, signed) == fn \in g.fns /\ signed

(* verify_grant.  The grant's token is its address, which found it.        *)
VerifyGrant(g, fn, by, signed) ==
    /\ fn \in g.fns
    /\ signed
    /\ CapType(g) = "Assigned" => \E a \in g.assignees : by \in a

CheckCapability(token, fn, by, signed) ==
    \E g \in GetGrant(token) : VerifyGrant(g, fn, by, signed)

(* validate_call.  The token {AgentEntry} is the agent's public key        *)
(* (is_token_the_agent); signed: verify_call_sig finds the caller's        *)
(* signature of the function and its parameters.                           *)
ValidateCall(token, fn, by, signed) ==
    /\ state.dna
    /\ fn \in dna.fns
    /\ \/ CheckCapability(token, fn, by, signed)
       \/ token = {AgentEntry} /\ by = Me /\ signed

callUnchanged == <<dna, cas, saved, loop, left, pc, todo, failed, genesis, was, dropped, faults, crashes>>

(* The interfaces hold the write lock of the Holochain object during a     *)
(* call (interface.rs setup_call_api), so calls follow one another.        *)
Unlocked == \A c \in Call : calls[c].pc \in {"none", "over", "done"}

(* call_zome_function on an active instance: the checks, the signal, and   *)
(* the thread that runs the zome function.                                 *)
CallZomeFunction(c, fn, token, by, signed) ==
    /\ pc = "active"
    /\ Unlocked
    /\ calls[c].pc = "none"
    /\ IF ValidateCall(token, fn, by, signed)
       THEN /\ calls' = [calls EXCEPT ![c] = [pc |-> "running", fn |-> fn, token |-> token,
                                              by |-> by, result |-> {}]]
            /\ Dispatch([type |-> "SignalZomeFunctionCall"])
       ELSE calls' = [calls EXCEPT ![c] = Over] /\ UNCHANGED queue
    /\ UNCHANGED <<state, granted, callUnchanged>>

(* The zome code calls commit_capability_grant.                            *)
CommitCapabilityGrant(c, r) ==
    /\ calls[c].pc = "running"
    /\ IF Create("app", r) = {}
       THEN calls' = [calls EXCEPT ![c].pc = "ran"] /\ UNCHANGED <<queue, granted>>
       ELSE /\ \E g \in Create("app", r) : Dispatch(Commit(c, g))
            /\ granted' = granted \cup {r}
            /\ calls' = [calls EXCEPT ![c].pc = "committing"]
    /\ UNCHANGED <<state, callUnchanged>>

CommitReturns(c) ==
    /\ calls[c].pc = "committing"
    /\ state.responses[c] # "none"
    /\ calls' = [calls EXCEPT ![c].pc = "ran"]
    /\ UNCHANGED <<state, queue, granted, callUnchanged>>

(* run_dna returns, and the thread sends ReturnZomeFunctionResult.  The    *)
(* result is named by the call that produced it.                           *)
RunDnaReturns(c) ==
    /\ calls[c].pc \in {"running", "ran"}
    /\ calls' = [calls EXCEPT ![c].pc = "returned"]
    /\ Dispatch([type |-> "ReturnZomeFunctionResult", call |-> c])
    /\ UNCHANGED <<state, granted, callUnchanged>>

(* NucleusState::zome_call_result *)
ZomeCallResult(c) == {r.value : r \in {q \in state.zome_calls : q.call = c}}

(* CallResultFuture is ready.                                              *)
CallReturns(c) ==
    /\ calls[c].pc \in {"running", "committing", "ran", "returned"}
    /\ \E v \in ZomeCallResult(c) :
          calls' = [calls EXCEPT ![c] = [pc |-> "done", fn |-> @.fn, token |-> {}, by |-> Me,
                                         result |-> {v}]]
    /\ UNCHANGED <<state, queue, granted, callUnchanged>>

CallThread(c) ==
    \/ \E r \in Request : CommitCapabilityGrant(c, r)
    \/ CommitReturns(c) \/ RunDnaReturns(c) \/ CallReturns(c)

-----------------------------------------------------------------------------
(* The action loop (Instance::process_action): an action is reduced, the   *)
(* new state becomes visible, and its two snapshots are saved.             *)

ReduceInitializeChain(s) ==
    IF s.status \in {"Initializing", "Initialized"}
    THEN [s EXCEPT !.status = "InitializationFailed"]
    ELSE [s EXCEPT !.status = "Initializing", !.dna = TRUE]

ReduceReturnInitializationResult(s, ok) ==
    IF s.status = "Initializing" /\ ok
    THEN [s EXCEPT !.status = "Initialized",
                   !.token = IF dna.public = {} THEN {} ELSE PublicGrants]
    ELSE [s EXCEPT !.status = "InitializationFailed"]

ReduceReturnZomeFunctionResult(s, c) ==
    [s EXCEPT !.zome_calls = @ \cup {[call |-> c, value |-> c]}]

(* reduce_publish_inner for the agent's entry: its header must be on the   *)
(* chain (fetch_entry_with_header).                                        *)
ReducePublish(s, sent) ==
    [s EXCEPT !.responses["init"] =
        IF s.net /\ AgentEntry \in OnChain(s.chain) /\ sent THEN "ok" ELSE "err"]

ReduceCommit(s, a) ==
    [s EXCEPT !.chain = Append(@, a.entry), !.responses[a.by] = "ok"]

(* The error of commit_entry is the response, and top_chain_header stays.  *)
ReduceFailedCommit(s, a) == [s EXCEPT !.responses[a.by] = "err"]

loopUnchanged == <<dna, saved, left, pc, todo, failed, calls, history, crashes>>

(* The action at the head of the queue is reduced without a fault ...      *)
Reduce ==
    /\ loop = "idle"
    /\ queue # <<>>
    /\ LET a == Head(queue) IN
       /\ state' = CASE a.type = "InitializeChain" -> ReduceInitializeChain(state)
                     [] a.type = "Commit" -> ReduceCommit(state, a)
                     [] a.type = "ReturnInitializationResult" ->
                            ReduceReturnInitializationResult(state, a.ok)
                     [] a.type = "InitNetwork" -> [state EXCEPT !.net = TRUE]
                     [] a.type = "Publish" -> ReducePublish(state, TRUE)
                     [] a.type = "ReturnZomeFunctionResult" ->
                            ReduceReturnZomeFunctionResult(state, a.call)
                     [] OTHER -> state
       /\ cas' = IF a.type = "Commit" THEN cas \cup {a.entry} ELSE cas
    /\ queue' = Tail(queue)
    /\ loop' = "save"
    /\ UNCHANGED <<faults, loopUnchanged>>

(* ... or a commit fails (to sign, or to store the entry or the header),   *)
(* or the agent's entry or the tracking of the DNA cannot be sent to the   *)
(* network.                                                                *)
ReduceFails ==
    /\ loop = "idle"
    /\ queue # <<>>
    /\ faults < MaxFault
    /\ faults' = faults + 1
    /\ LET a == Head(queue) IN
       \/ /\ a.type = "Commit"
          /\ state' = ReduceFailedCommit(state, a)
          /\ cas' \in {cas, cas \cup {a.entry}}
       \/ /\ a.type = "Publish"
          /\ state' = ReducePublish(state, FALSE)
          /\ UNCHANGED cas
       \/ a.type = "InitNetwork" /\ UNCHANGED <<state, cas>>
    /\ queue' = Tail(queue)
    /\ loop' = "save"
    /\ UNCHANGED loopUnchanged

Snapshot(s) == [status |-> s.status, token |-> s.token]

(* Faulty: one snapshot may fail to be written and the other still is. *)
SaveAgentOrNot ==
    /\ loop = "save"
    /\ saved' \in {saved, [saved EXCEPT !.agent = {state.chain}]}
    /\ loop' = "save_nucleus"
    /\ UNCHANGED <<dna, state, cas, queue, left, pc, todo, failed, calls, history, faults, crashes>>

(* SimplePersister::save: the agent's snapshot, then the nucleus' ...      *)
SaveAgent ==
    /\ loop = "save"
    /\ saved' = [saved EXCEPT !.agent = {state.chain}]
    /\ loop' = "save_nucleus"
    /\ UNCHANGED <<dna, state, cas, queue, left, pc, todo, failed, calls, history, faults, crashes>>

SaveNucleus ==
    /\ loop = "save_nucleus"
    /\ saved' = [saved EXCEPT !.nucleus = {Snapshot(state)}]
    /\ loop' = "idle"
    /\ UNCHANGED <<dna, state, cas, queue, left, pc, todo, failed, calls, history, faults, crashes>>

(* ... or the storage's lock is taken: the save is skipped and logged.     *)
SaveSkipped ==
    /\ loop = "save"
    /\ faults < MaxFault
    /\ faults' = faults + 1
    /\ loop' = "idle"
    /\ UNCHANGED <<dna, state, cas, saved, queue, left, pc, todo, failed, calls, history, crashes>>

(* The loop of an instance that failed to load saves its last state,       *)
(* unless the other loop holds the persister's mutex.                      *)
SaveLeft ==
    /\ left # {}
    /\ IF loop = "save_nucleus" THEN UNCHANGED saved
       ELSE \E s \in left : saved' = [agent |-> {s.chain}, nucleus |-> {Snapshot(s)}]
    /\ left' = {}
    /\ UNCHANGED <<dna, state, cas, queue, loop, pc, todo, failed, calls, history, faults, crashes>>

ProcessAction == Reduce \/ ReduceFails \/ SaveAgent \/ SaveNucleus \/ SaveSkipped

(* The process stops: memory and threads are gone, the storage is not.     *)
Crash ==
    /\ pc # "down"
    /\ crashes < MaxCrash
    /\ crashes' = crashes + 1
    /\ state' = NewState
    /\ queue' = <<>>
    /\ loop' = "idle"
    /\ left' = {}
    /\ pc' = "down"
    /\ todo' = {}
    /\ failed' = FALSE
    /\ calls' = [c \in Call |-> IF calls[c].pc = "none" THEN NoCall ELSE Over]
    /\ UNCHANGED <<dna, cas, saved, history, faults>>

(* The calls a client may make: with the agent's own key or with any entry *)
(* of the storage as token.                                                *)
AnyCall ==
    \E c \in Call, fn \in dna.fns, e \in cas, by \in Agent, signed \in BOOLEAN :
        CallZomeFunction(c, fn, {e}, by, signed)

Next ==
    \/ Load \/ LoadFails \/ InitThread \/ AnyCall
    \/ \E c \in Call : CallThread(c)
    \/ ProcessAction \/ SaveLeft \/ Crash

Spec == Init /\ [][Next]_vars

(* The conductor, the threads and the loops keep running.                  *)
FairSpec ==
    /\ Spec
    /\ WF_vars(InitThread)
    /\ WF_vars(ProcessAction)
    /\ \A c \in Call : WF_vars(CallThread(c))

-----------------------------------------------------------------------------
(* Properties                                                              *)

Status == {"New", "Initializing", "Initialized", "InitializationFailed"}

(* An Option: a set of no or one element. *)
AtMostOne(S) == \A x, y \in S : x = y

(* Chain b begins with all of chain a. *)
Begins(a, b) == Len(a) <= Len(b) /\ \A i \in 1 .. Len(a) : a[i] = b[i]

(* The variables hold what their types in core/src/nucleus/state.rs and    *)
(* core/src/agent/state.rs allow.                                          *)
TypeOK ==
    /\ dna \in Dnas
    /\ state.status \in Status
    /\ AtMostOne(state.token)
    /\ OnChain(state.chain) \subseteq cas
    /\ AtMostOne(saved.agent) /\ AtMostOne(saved.nucleus)
    /\ \A n \in saved.nucleus : n.status \in Status
    /\ todo \subseteq dna.zomes
    /\ loop \in {"idle", "save", "save_nucleus"}

(* An instance that is Initialized, in memory or in its snapshot, has run  *)
(* the genesis callback of every zome, which has not failed                *)
(* (initialize_chain maps genesis over all zomes before it sends the       *)
(* result), whatever crashes lie between.                                  *)
InitializedRanGenesis ==
    \A s \in {state.status} \cup {n.status : n \in saved.nucleus} :
        s = "Initialized" => dna.zomes # {} /\ dna.zomes \subseteq genesis

(* A load of an Initialized chain that is given up, because the agent's    *)
(* entry cannot be published, makes the conductor start a new chain in the *)
(* same storage, beside the loop that may still save the loaded one.       *)
InitializedDropped == "Initialized" \in dropped

(* The nucleus' snapshot is never ahead of the agent's: the public token   *)
(* of a saved Initialization is the address of a grant on the saved chain  *)
(* (SimplePersister::save writes the agent's snapshot first), unless the    *)
(* load of an Initialized chain was given up.                              *)
SavedTokenOnChain ==
    ~InitializedDropped => \A n \in saved.nucleus, a \in saved.agent : n.token \subseteq OnChain(a)

(* On an active instance that was initialized, before and after restarts,  *)
(* the public token is found (Context::get_public_token) and lets the      *)
(* public functions of the DNA be called.  The exception is the same.      *)
PublicCallsWork ==
    pc = "active" /\ state.status = "Initialized" /\ dna.public # {} /\ ~InitializedDropped =>
        /\ PublicToken # {} /\ AtMostOne(PublicToken)
        /\ \A fn \in dna.public \cap dna.fns : ValidateCall(PublicToken, fn, Me, TRUE)

(* A call runs only for the agent itself or under a grant that is on the   *)
(* chain and was asked for, for this function and, if it was to be         *)
(* assigned, for this caller: the type of a grant, which is only told from *)
(* its stored assignees, is the one asked for (validate_call,              *)
(* CapTokenGrant).                                                         *)
CallsCovered ==
    \A c \in Call : calls[c].pc \notin {"none", "over", "done"} =>
        \/ calls[c].token = {AgentEntry} /\ calls[c].by = Me
        \/ /\ calls[c].token \subseteq OnChain(state.chain)
           /\ \E r \in granted, id \in {"hc_public", "app"} :
                /\ calls[c].token = Create(id, r)
                /\ calls[c].fn \in r.fns
                /\ r.type = "Assigned" => \E a \in r.assignees : calls[c].by \in a
                /\ \A g \in calls[c].token : CapType(g) = r.type

(* A caller gets the result of its own call, also when the same function   *)
(* was called before (ZomeFnCall::id, zome_call_result).                   *)
OwnResult == \A c \in Call : calls[c].result \subseteq {c}

(* Once the instance has been active, and without faults, no step and no   *)
(* restart takes anything from the saved chain: the fallback from          *)
(* Holochain::load to Holochain::new never replaces a chain in use.  The    *)
(* exception is an instance that gave up a load before it was active (its  *)
(* first process stopped before the agent's entry was on the saved chain): *)
(* the loop left behind may still save the state of that load.             *)
ChainKept ==
    [][was /\ faults' = 0 /\ dropped' = {} =>
         \A a \in saved.agent : \E b \in saved'.agent : Begins(a, b)]_vars

(* Loading or initializing an instance ends, with an instance or an error, *)
(* unless a message to the network could not be sent.                      *)
BootEnds == []<>(pc \in {"down", "active", "error"} \/ faults > 0)

(* A call that passed the checks returns, unless the process stops.        *)
CallsReturn == []<>Unlocked
=============================================================================
