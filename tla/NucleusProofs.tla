---------------------------- MODULE NucleusProofs ----------------------------
(***************************************************************************)
(* Proofs about the nucleus: what is Initialized ran its genesis           *)
(* callbacks, the two snapshots fit, public functions can be called, calls *)
(* are covered by grants and get their own result, and the chain in use is *)
(* never replaced, for any DNAs, requests and numbers of faults and        *)
(* crashes.  A leaf that Zenon proves at once names it; the others, with   *)
(* arithmetic, functions or sequences, are for the SMT solver.             *)
(***************************************************************************)
EXTENDS Nucleus, TLAPS

-----------------------------------------------------------------------------
(* The inductive invariant, in parts.                                      *)

(* Its operators take the variables they are about as parameters: d is the *)
(* DNA, st the content storage, gr the requests asked for, gen the zomes   *)
(* whose genesis callback has not failed.                                  *)

(* The one public grant of initialize_chain, and the public token and the  *)
(* chain that a successful initialization leaves.                          *)
PublicGrant(d) == [kind |-> "grant", id |-> "hc_public", assignees |-> {}, fns |-> d.public]
FullToken(d) == IF d.public = {} THEN {} ELSE {PublicGrant(d)}
FullChain(d) ==
    IF d.public = {} THEN <<DnaEntry, AgentEntry>> ELSE <<DnaEntry, AgentEntry, PublicGrant(d)>>

(* Entry g is a grant that was asked for. *)
Asked(g, id, gr) == \E r \in gr : {g} = Create(id, r) /\ CapType(g) = r.type

(* What may be on a chain: at most one public grant, beside the DNA, the   *)
(* agent and the grants that zome code asked for.                          *)
EntryGood(e, d, gr) ==
    \/ e = DnaEntry
    \/ e = AgentEntry
    \/ e = PublicGrant(d) /\ Asked(e, "hc_public", gr)
    \/ Asked(e, "app", gr)

ChainGood(chain, d, st, gr) ==
    /\ chain \in Seq(st)
    /\ \A i \in 1 .. Len(chain) : EntryGood(chain[i], d, gr)
    /\ \A i, j \in 1 .. Len(chain) :
          chain[i] = PublicGrant(d) /\ chain[j] = PublicGrant(d) => i = j

(* What a status and its token say, apart from the chain. *)
GenesisDone(d, gen) == d.zomes # {} /\ d.zomes \subseteq gen

StatusGood(status, token, d, gen) ==
    /\ status \in Status
    /\ status = "Initialized" => GenesisDone(d, gen)
    /\ token = IF status = "Initialized" THEN FullToken(d) ELSE {}

(* What an Initialized chain holds. *)
Match(chain, status, d) ==
    status = "Initialized" =>
        /\ DnaEntry \in OnChain(chain) /\ AgentEntry \in OnChain(chain)
        /\ d.public # {} => PublicGrant(d) \in OnChain(chain)

StateSet(d, st) ==
    [status : Status, token : SUBSET {PublicGrant(d)}, dna : BOOLEAN, chain : Seq(st), net : BOOLEAN,
     zome_calls : SUBSET [call : Call, value : Call], responses : [Thread -> {"none", "ok", "err"}]]

SnapshotSet(d) == [status : Status, token : SUBSET {PublicGrant(d)}]

(* The state in memory. *)
StateInv ==
    /\ dna \in Dnas
    /\ state \in StateSet(dna, cas)
    /\ ChainGood(state.chain, dna, cas, granted)
    /\ StatusGood(state.status, state.token, dna, genesis)
    /\ \A r \in state.zome_calls : r.value = r.call
    /\ loop \in {"idle", "save", "save_nucleus"}
    /\ todo \subseteq dna.zomes
    /\ failed \in BOOLEAN
    /\ was \in BOOLEAN
    /\ faults \in Nat

(* The calls.  Without an active instance, none runs. *)
CallInv ==
    /\ calls \in [Call -> [pc : {"none", "over", "running", "committing", "ran", "returned", "done"},
                           fn : dna.fns \cup {"none"}, token : SUBSET cas, by : Agent,
                           result : SUBSET Call]]
    /\ CallsCovered
    /\ OwnResult
    /\ pc # "active" => Unlocked

Answer == state.responses["init"]

(* The initialization waits for its commit of e after the entries before. *)
Committing(e, before) ==
    /\ state.status = "Initializing"
    /\ \/ queue = <<Commit("init", e)>> /\ Answer = "none" /\ state.chain = before
       \/ queue = <<>> /\ Answer = "ok" /\ state.chain = Append(before, e)
       \/ queue = <<>> /\ Answer = "err" /\ state.chain = before

(* The action that ends the initialization is on its way. *)
Ending(ok) ==
    /\ queue = <<Return(ok)>>
    /\ state.status = "Initializing"
    /\ ok => state.chain = FullChain(dna) /\ GenesisDone(dna, genesis)

IsSeq(s) == s \in Seq({s[k] : k \in 1 .. Len(s)})

(* What calls and their zome code send. *)
CallAction(a, gr) ==
    \/ a.type = "SignalZomeFunctionCall"
    \/ a.type = "ReturnZomeFunctionResult" /\ a.call \in Call
    \/ a.type = "Commit" /\ a.by \in Call /\ Asked(a.entry, "app", gr)

(* Where the initialization or the load is tells what is in the channel    *)
(* and on the chain, until the instance is active.                         *)
PcInv ==
    /\ pc \in {"down", "initialize", "dna", "agent", "public", "genesis", "result", "error",
               "new_network", "new_publish", "load_network", "load_publish", "active"}
    /\ pc = "down" => queue = <<>> /\ state = NewState /\ loop = "idle" /\ left = {}
    /\ pc = "initialize" =>
          /\ state.chain = <<>> /\ Answer = "none"
          /\ \/ queue = <<[type |-> "InitializeChain"]>> /\ state.status = "New"
             \/ queue = <<>> /\ state.status = "Initializing" /\ state.dna
    /\ pc = "dna" => Committing(DnaEntry, <<>>)
    /\ pc = "agent" => Committing(AgentEntry, <<DnaEntry>>)
    /\ pc = "public" =>
          /\ Committing(PublicGrant(dna), <<DnaEntry, AgentEntry>>)
          /\ dna.zomes # {} /\ dna.public # {} /\ Asked(PublicGrant(dna), "hc_public", granted)
    /\ pc = "genesis" =>
          /\ queue = <<>> /\ state.status = "Initializing" /\ state.chain = FullChain(dna)
          /\ dna.zomes # {}
          /\ ~failed => dna.zomes \subseteq genesis \cup todo
    /\ pc \in {"result", "error"} => queue = <<>> \/ Ending(TRUE) \/ Ending(FALSE)
    /\ pc \in {"new_network", "new_publish"} => state.status = "Initialized"
    /\ pc \in {"new_network", "load_network"} =>
          queue = <<>> \/ (queue = <<[type |-> "InitNetwork"]>> /\ ~state.net)
    /\ pc \in {"initialize", "dna", "agent", "public", "genesis", "result"} => ~state.net
    /\ pc \in {"new_publish", "load_publish"} =>
          /\ queue = <<>> \/ (queue = <<[type |-> "Publish"]>> /\ Answer = "none")
          /\ Answer = "ok" => AgentEntry \in OnChain(state.chain)
    /\ pc \in {"load_network", "load_publish"} =>
          /\ DnaEntry \in OnChain(state.chain)
          /\ saved = [agent |-> {state.chain}, nucleus |-> {Snapshot(state)}]
          /\ left = {}
    /\ pc = "active" => IsSeq(queue) /\ \A k \in 1 .. Len(queue) : CallAction(queue[k], granted)
    /\ pc \notin {"down", "initialize"} => state.dna

(* What is saved, or may still be saved by a loop left behind. *)
SavedInv ==
    /\ saved \in [agent : SUBSET Seq(cas), nucleus : SUBSET SnapshotSet(dna)]
    /\ \A a \in saved.agent : ChainGood(a, dna, cas, granted) /\ saved.agent = {a}
    /\ \A n \in saved.nucleus : StatusGood(n.status, n.token, dna, genesis) /\ saved.nucleus = {n} /\ saved.agent # {}
    /\ loop = "save_nucleus" => saved.agent = {state.chain}
    /\ \A s \in left : s \in StateSet(dna, cas) /\ ChainGood(s.chain, dna, cas, granted) /\ StatusGood(s.status, s.token, dna, genesis)
    /\ dropped = {} => left = {}

(* An Initialized status comes with the chain that makes it so, in the     *)
(* memory, on the disk, and between them when one of the two snapshots is  *)
(* saved before the other.                                                 *)
MatchInv ==
    ~InitializedDropped =>
        /\ Match(state.chain, state.status, dna)
        /\ \A s \in left : s.status # "Initialized"
        /\ \A n \in saved.nucleus :
              /\ \A a \in saved.agent : Match(a, n.status, dna)
              /\ pc # "down" => Match(state.chain, n.status, dna)

(* Without faults, an idle loop has saved the state, and an Initialized or *)
(* once active instance has a saved chain that loads and that the chain in *)
(* memory extends.                                                         *)
KeptInv ==
    faults = 0 /\ dropped = {} =>
        /\ pc # "down" /\ loop = "idle" /\ state.status # "New" =>
              saved.agent = {state.chain} /\ saved.nucleus # {}
        /\ was \/ (pc # "down" /\ state.status = "Initialized") =>
              /\ saved.nucleus # {}
              /\ \A a \in saved.agent :
                    /\ DnaEntry \in OnChain(a) /\ AgentEntry \in OnChain(a)
                    /\ pc # "down" => Begins(a, state.chain)

NucleusInv == StateInv /\ CallInv /\ PcInv /\ SavedInv /\ MatchInv /\ KeptInv

-----------------------------------------------------------------------------
(* Grants *)

LEMMA CreateFacts ==
    ASSUME NEW g, NEW id, NEW r, {g} = Create(id, r)
    PROVE  /\ g.kind = "grant" /\ g.id = id /\ g.fns = r.fns
           /\ r.type = "Assigned" => g.assignees = r.assignees
<1>1. PICK a \in Valid(r.type, r.assignees) :
          g = [kind |-> "grant", id |-> id, assignees |-> a, fns |-> r.fns]
  BY Zenon DEF Create
<1>2. r.type = "Assigned" => a = r.assignees
  BY Zenon DEF Valid
<1> QED
  BY Zenon, <1>1, <1>2

(* The type of a grant, told from its assignees, is the one asked for. *)
LEMMA TypeKept ==
    ASSUME NEW g, NEW id, NEW r, g \in Create(id, r), r.type \in CapabilityType
    PROVE  {g} = Create(id, r) /\ CapType(g) = r.type
<1>1. PICK a \in Valid(r.type, r.assignees) :
          g = [kind |-> "grant", id |-> id, assignees |-> a, fns |-> r.fns]
  BY Zenon DEF Create
<1>2. Valid(r.type, r.assignees) = {a}
  BY Zenon DEF Valid
<1>3. g.assignees = a
  BY Zenon, <1>1
<1>4. Create(id, r) = {g}
  BY Zenon, <1>1, <1>2 DEF Create
<1>5. CASE r.type = "Assigned"
  <2>1. a = r.assignees /\ ~(a \subseteq {{}})
    BY Zenon, <1>5 DEF Valid
  <2>2. a # {} /\ a # {{}}
    BY Zenon, <2>1
  <2> QED
    BY Zenon, <1>3, <1>4, <1>5, <2>2 DEF CapType
<1>6. CASE r.type = "Public"
  BY Zenon, <1>3, <1>4, <1>6 DEF CapType, Valid
<1>7. CASE r.type = "Transferable"
  <2>1. a = {{}}
    BY Zenon, <1>7 DEF Valid
  <2>2. a # {}
    BY Zenon, <2>1
  <2> QED
    BY Zenon, <1>3, <1>4, <1>7, <2>1, <2>2 DEF CapType
<1> QED
  BY Zenon, <1>5, <1>6, <1>7 DEF CapabilityType

LEMMA PublicFacts ==
    /\ PublicGrants = {PublicGrant(dna)}
    /\ Asked(PublicGrant(dna), "hc_public", {PublicRequest})
    /\ CapType(PublicGrant(dna)) = "Public"
<1>1. PublicGrants = {PublicGrant(dna)}
  BY Zenon DEF PublicGrants, PublicRequest, Create, Valid, PublicGrant
<1>2. PublicRequest.type = "Public"
  BY Zenon DEF PublicRequest
<1>3. CapType(PublicGrant(dna)) = "Public"
  BY Zenon DEF PublicGrant, CapType
<1> QED
  BY Zenon, <1>1, <1>2, <1>3 DEF PublicGrants, Asked

LEMMA AskedMore ==
    ASSUME NEW g, NEW id, NEW gr, NEW gr2, gr \subseteq gr2, Asked(g, id, gr)
    PROVE  Asked(g, id, gr2)
  BY Zenon DEF Asked

(* The kinds of entries differ. *)
LEMMA Kinds ==
    /\ DnaEntry.kind = "dna" /\ AgentEntry.kind = "agent"
    /\ \A d : PublicGrant(d).kind = "grant" /\ PublicGrant(d).id = "hc_public"
    /\ \A g, id, gr : Asked(g, id, gr) => g.kind = "grant" /\ g.id = id
<1>1. \A g, id, gr : Asked(g, id, gr) => g.kind = "grant" /\ g.id = id
  BY Zenon, CreateFacts DEF Asked
<1> QED
  BY Zenon, <1>1 DEF DnaEntry, AgentEntry, PublicGrant

-----------------------------------------------------------------------------
(* Sequences and chains *)

LEMMA One ==
    ASSUME NEW a
    PROVE  /\ Append(<<>>, a) = <<a>> /\ Head(<<a>>) = a /\ Tail(<<a>>) = <<>>
           /\ <<a>> # <<>>
  OBVIOUS

LEMMA OnChainAppend ==
    ASSUME NEW S, NEW ch \in Seq(S), NEW e
    PROVE  OnChain(Append(ch, e)) = OnChain(ch) \cup {e}
<1>1. /\ DOMAIN Append(ch, e) = 1 .. Len(ch) + 1 /\ DOMAIN ch = 1 .. Len(ch) /\ Len(ch) \in Nat
      /\ \A i \in 1 .. Len(ch) : Append(ch, e)[i] = ch[i]
      /\ Append(ch, e)[Len(ch) + 1] = e
  OBVIOUS
<1> QED
  BY <1>1 DEF OnChain

LEMMA OnChainIn ==
    ASSUME NEW S, NEW ch \in Seq(S)
    PROVE  OnChain(ch) \subseteq S /\ OnChain(ch) = {ch[i] : i \in 1 .. Len(ch)}
  BY DEF OnChain

LEMMA SameElements ==
    ASSUME NEW S, NEW s \in Seq(S), NEW t \in Seq(S), Len(s) = Len(t),
           \A i \in 1 .. Len(s) : s[i] = t[i]
    PROVE  s = t
<1>1. s = [i \in 1 .. Len(s) |-> s[i]] /\ t = [i \in 1 .. Len(t) |-> t[i]]
  OBVIOUS
<1> QED
  BY Zenon, <1>1

LEMMA Chains ==
    ASSUME NEW d
    PROVE  /\ OnChain(<<>>) = {}
           /\ Append(<<>>, DnaEntry) = <<DnaEntry>>
           /\ Append(<<DnaEntry>>, AgentEntry) = <<DnaEntry, AgentEntry>>
           /\ Append(<<DnaEntry, AgentEntry>>, PublicGrant(d)) = <<DnaEntry, AgentEntry, PublicGrant(d)>>
           /\ {DnaEntry, AgentEntry} \cup FullToken(d) \subseteq OnChain(FullChain(d))
           /\ PublicGrant(d) \notin OnChain(<<DnaEntry, AgentEntry>>)
<1>1. OnChain(<<DnaEntry, AgentEntry>>) = {DnaEntry, AgentEntry}
  BY DEF OnChain
<1>2. \A x : OnChain(<<DnaEntry, AgentEntry, x>>) = {DnaEntry, AgentEntry, x}
  BY DEF OnChain
<1>3. PublicGrant(d) \notin {DnaEntry, AgentEntry}
  BY Zenon, Kinds
<1>4. OnChain(<<>>) = {}
  BY DEF OnChain
<1>5. {DnaEntry, AgentEntry} \cup FullToken(d) \subseteq OnChain(FullChain(d))
  BY Zenon, <1>1, <1>2 DEF FullToken, FullChain
<1>6. \A x, y, z : /\ Append(<<>>, x) = <<x>> /\ Append(<<x>>, y) = <<x, y>>
                   /\ Append(<<x, y>>, z) = <<x, y, z>>
  <2> TAKE x, y, z
  <2>1. Append(<<>>, x) = <<x>>
    OBVIOUS
  <2>2. Append(<<x>>, y) = <<x, y>>
    <3>1. /\ Append(<<x>>, y) \in Seq({x, y}) /\ <<x, y>> \in Seq({x, y})
          /\ Len(Append(<<x>>, y)) = 2 /\ Len(<<x, y>>) = 2
          /\ \A i \in 1 .. 2 : Append(<<x>>, y)[i] = <<x, y>>[i]
      OBVIOUS
    <3> QED
      BY Zenon, <3>1, SameElements
  <2>3. Append(<<x, y>>, z) = <<x, y, z>>
    <3>1. /\ Append(<<x, y>>, z) \in Seq({x, y, z}) /\ <<x, y, z>> \in Seq({x, y, z})
          /\ Len(Append(<<x, y>>, z)) = 3 /\ Len(<<x, y, z>>) = 3
          /\ \A i \in 1 .. 3 : Append(<<x, y>>, z)[i] = <<x, y, z>>[i]
      OBVIOUS
    <3> QED
      BY Zenon, <3>1, SameElements
  <2> QED
    BY Zenon, <2>1, <2>2, <2>3
<1> QED
  BY Zenon, <1>1, <1>3, <1>4, <1>5, <1>6

LEMMA ChainMore ==
    ASSUME NEW ch, NEW d, NEW st, NEW st2, NEW gr, NEW gr2, st \subseteq st2, gr \subseteq gr2,
           ChainGood(ch, d, st, gr)
    PROVE  ChainGood(ch, d, st2, gr2)
<1>1. \A e : EntryGood(e, d, gr) => EntryGood(e, d, gr2)
  BY Zenon, AskedMore DEF EntryGood
<1> QED
  BY <1>1 DEF ChainGood

LEMMA ChainAppend ==
    ASSUME NEW ch, NEW d, NEW st, NEW gr, NEW e \in st, ChainGood(ch, d, st, gr),
           EntryGood(e, d, gr), e = PublicGrant(d) => PublicGrant(d) \notin OnChain(ch)
    PROVE  ChainGood(Append(ch, e), d, st, gr)
<1>1. ch \in Seq(st)
  BY Zenon DEF ChainGood
<1>2. /\ Append(ch, e) \in Seq(st) /\ Len(Append(ch, e)) = Len(ch) + 1 /\ Len(ch) \in Nat
      /\ \A i \in 1 .. Len(ch) : Append(ch, e)[i] = ch[i]
      /\ Append(ch, e)[Len(ch) + 1] = e
  BY <1>1
<1>3. e = PublicGrant(d) => \A i \in 1 .. Len(ch) : ch[i] # PublicGrant(d)
  BY <1>1, OnChainIn
<1>4. \A i \in 1 .. Len(ch) + 1 : i = Len(ch) + 1 \/ i \in 1 .. Len(ch)
  BY <1>2
<1> QED
  BY Zenon, <1>2, <1>3, <1>4 DEF ChainGood

LEMMA PrefixAppend ==
    ASSUME NEW S, NEW a \in Seq(S), NEW ch \in Seq(S), NEW e, Begins(a, ch)
    PROVE  Begins(a, Append(ch, e))
<1>1. Len(a) \in Nat /\ Len(ch) \in Nat /\ Len(a) <= Len(ch)
  BY DEF Begins
<1>2. Len(Append(ch, e)) = Len(ch) + 1 /\ \A i \in 1 .. Len(a) : Append(ch, e)[i] = ch[i]
  BY <1>1
<1> QED
  BY <1>1, <1>2 DEF Begins

LEMMA PrefixSelf ==
    ASSUME NEW S, NEW a \in Seq(S)
    PROVE  Begins(a, a)
  BY DEF Begins

-----------------------------------------------------------------------------
(* What steps do to the state *)

Responses == {"none", "ok", "err"}

SameButResponses(s, t) ==
    /\ s.status = t.status /\ s.token = t.token /\ s.dna = t.dna /\ s.chain = t.chain
    /\ s.net = t.net /\ s.zome_calls = t.zome_calls

LEMMA SetResponse ==
    ASSUME NEW d, NEW st, NEW s \in StateSet(d, st), NEW t \in Thread, NEW x \in Responses,
           NEW s2, s2 = [s EXCEPT !.responses[t] = x]
    PROVE  /\ s2 \in StateSet(d, st) /\ SameButResponses(s2, s)
           /\ s2.responses[t] = x /\ \A u \in Thread \ {t} : s2.responses[u] = s.responses[u]
  BY Zenon DEF StateSet, SameButResponses, Responses

LEMMA StatesMore ==
    ASSUME NEW d, NEW st, NEW st2, st \subseteq st2
    PROVE  Seq(st) \subseteq Seq(st2) /\ StateSet(d, st) \subseteq StateSet(d, st2)
<1>1. Seq(st) \subseteq Seq(st2)
  OBVIOUS
<1> QED
  BY Zenon, <1>1 DEF StateSet

LEMMA NewStateGood ==
    ASSUME NEW d, NEW st, NEW gr, NEW gen
    PROVE  /\ NewState \in StateSet(d, st) /\ ChainGood(NewState.chain, d, st, gr)
           /\ StatusGood(NewState.status, NewState.token, d, gen)
           /\ NewState.chain = <<>> /\ NewState.status = "New" /\ NewState.token = {}
           /\ NewState.responses["init"] = "none" /\ NewState.zome_calls = {}
           /\ ~NewState.net /\ ~NewState.dna
<1>1. NoResponse \in [Thread -> Responses] /\ "init" \in Thread
  BY Zenon DEF NoResponse, Thread, Responses
<1>2. <<>> \in Seq(st) /\ Len(<<>>) = 0
  OBVIOUS
<1>3. NewState \in StateSet(d, st)
  BY Zenon, <1>1, <1>2 DEF NewState, StateSet, Status, Responses
<1>4. ChainGood(<<>>, d, st, gr)
  BY <1>2 DEF ChainGood
<1> QED
  BY Zenon, <1>1, <1>3, <1>4 DEF NewState, StatusGood, Status, NoResponse

(* Every step keeps the DNA and adds to the storage and the histories. *)
Grow ==
    /\ dna' = dna /\ cas \subseteq cas' /\ granted \subseteq granted'
    /\ genesis \subseteq genesis' /\ dropped \subseteq dropped'

LEMMA Grows ==
    ASSUME Next
    PROVE  Grow
<1> USE DEF Grow
<1>1. CASE Load \/ LoadFails
  BY Zenon, <1>1 DEF Load, LoadFails, NewChain, history
<1>2. CASE InitThread
  <2>1. CASE NetworkUp \/ Start
    BY Zenon, <2>1 DEF NetworkUp, Start, history
  <2>2. CASE CommitDna \/ CommitAgent \/ CommitError \/ NoZomes \/ BeginGenesis \/ PublishError
    BY Zenon, <2>2 DEF CommitDna, CommitAgent, CommitError, NoZomes, BeginGenesis, PublishError, initUnchanged
  <2>3. CASE CommitPublicGrant \/ LoadedPublishFails
    BY Zenon, <2>3 DEF CommitPublicGrant, LoadedPublishFails, NewChain
  <2>4. CASE \E z \in todo, r \in {"Pass", "Fail", "NotImplemented"} : Genesis(z, r)
    BY Zenon, <2>4 DEF Genesis, initUnchanged
  <2>5. CASE ReturnInitializationResult \/ InitializationDone \/ InitializationError
    BY Zenon, <2>5 DEF ReturnInitializationResult, InitializationDone, InitializationError, initUnchanged
  <2> QED
    BY Zenon, <1>2, <2>1, <2>2, <2>3, <2>4, <2>5 DEF InitThread
<1>3. CASE AnyCall
  BY Zenon, <1>3 DEF AnyCall, CallZomeFunction, callUnchanged
<1>4. CASE \E c \in Call : CallThread(c)
  BY Zenon, <1>4 DEF CallThread, CommitCapabilityGrant, CommitReturns, RunDnaReturns, CallReturns, callUnchanged
<1>5. CASE ProcessAction
  BY Zenon, <1>5 DEF ProcessAction, Reduce, ReduceFails, SaveAgent, SaveNucleus, SaveSkipped, loopUnchanged, history
<1>6. CASE SaveLeft \/ Crash
  BY Zenon, <1>6 DEF SaveLeft, Crash, history
<1> QED
  BY Zenon, <1>1, <1>2, <1>3, <1>4, <1>5, <1>6 DEF Next

-----------------------------------------------------------------------------
(* What the action loop does, by the action at the head of the channel.    *)

LoopStep ==
    /\ loop = "idle" /\ loop' = "save" /\ UNCHANGED loopUnchanged
    /\ state' \in StateSet(dna, cas') /\ (state'.dna <=> state.dna \/ pc = "initialize")
    /\ pc \notin {"new_network", "load_network"} => (state'.net <=> state.net)

SameChain == state'.chain = state.chain
SameStatus == state'.status = state.status /\ state'.token = state.token
SameResults == state'.zome_calls = state.zome_calls
SameStorage == cas' = cas /\ faults' = faults

InitializeReduced ==
    /\ pc = "initialize" /\ queue' = <<>> /\ SameStorage
    /\ state'.status = "Initializing" /\ state'.token = {}
    /\ SameChain /\ SameResults /\ state'.responses = state.responses

(* Either entry is one of the initialization, which waits, or a call's.    *)
CommitReduced(by, e) ==
    /\ by \in Thread /\ queue' = Tail(queue) /\ queue # <<>>
    /\ pc \in {"dna", "agent", "public"} => by = "init" /\ queue = <<Commit("init", e)>>
    /\ pc = "active" => Asked(e, "app", granted)
    /\ pc \in {"dna", "agent", "public", "active"} /\ EntryGood(e, dna, granted)
    /\ e = PublicGrant(dna) => state.chain = <<DnaEntry, AgentEntry>>
    /\ SameStatus /\ SameResults
    /\ \/ /\ state'.chain = Append(state.chain, e) /\ cas' = cas \cup {e} /\ faults' = faults
          /\ state'.responses = [state.responses EXCEPT ![by] = "ok"]
       \/ /\ SameChain /\ cas' \in {cas, cas \cup {e}} /\ faults' = faults + 1
          /\ state'.responses = [state.responses EXCEPT ![by] = "err"]

ReturnReduced(ok) ==
    /\ pc \in {"result", "error"} /\ Ending(ok) /\ queue' = <<>> /\ SameStorage
    /\ state'.status = IF ok THEN "Initialized" ELSE "InitializationFailed"
    /\ state'.token = IF ok THEN FullToken(dna) ELSE {}
    /\ SameChain /\ SameResults /\ state'.responses = state.responses

NetworkReduced ==
    /\ pc \in {"new_network", "load_network"} /\ queue' = <<>> /\ cas' = cas /\ faults' \in {faults, faults + 1}
    /\ SameChain /\ SameStatus /\ SameResults /\ state'.responses = state.responses

PublishReduced ==
    /\ pc \in {"new_publish", "load_publish"} /\ queue' = <<>> /\ cas' = cas
    /\ faults' \in {faults, faults + 1}
    /\ Answer' = "ok" => AgentEntry \in OnChain(state.chain)
    /\ SameChain /\ SameStatus /\ SameResults

CallReduced ==
    /\ pc = "active" /\ queue' = Tail(queue) /\ queue # <<>> /\ SameStorage
    /\ SameChain /\ SameStatus /\ state'.responses = state.responses
    /\ \/ SameResults
       \/ \E c \in Call : state'.zome_calls = state.zome_calls \cup {[call |-> c, value |-> c]}

LEMMA HeadIs ==
    ASSUME PcInv, queue # <<>>
    PROVE  \/ pc = "initialize" /\ queue = <<[type |-> "InitializeChain"]>> /\ state.status = "New"
           \/ pc = "dna" /\ queue = <<Commit("init", DnaEntry)>>
           \/ pc = "agent" /\ queue = <<Commit("init", AgentEntry)>>
           \/ /\ pc = "public" /\ queue = <<Commit("init", PublicGrant(dna))>>
              /\ state.chain = <<DnaEntry, AgentEntry>> /\ Asked(PublicGrant(dna), "hc_public", granted)
           \/ pc \in {"result", "error"} /\ \E ok \in BOOLEAN : Ending(ok)
           \/ pc \in {"new_network", "load_network"} /\ queue = <<[type |-> "InitNetwork"]>>
           \/ pc \in {"new_publish", "load_publish"} /\ queue = <<[type |-> "Publish"]>>
           \/ pc = "active" /\ CallAction(Head(queue), granted)
<1>1. CASE pc = "active"
  <2>1. Head(queue) = queue[1] /\ 1 \in 1 .. Len(queue)
    BY <1>1 DEF PcInv, IsSeq
  <2> QED
    BY Zenon, <1>1, <2>1 DEF PcInv
<1>2. CASE pc # "active"
  BY Zenon, <1>2 DEF PcInv, Committing
<1> QED
  BY Zenon, <1>1, <1>2

Reduced ==
    \/ InitializeReduced \/ NetworkReduced \/ PublishReduced \/ CallReduced
    \/ \E by, e : CommitReduced(by, e)
    \/ \E ok \in BOOLEAN : ReturnReduced(ok)

IsCommit(a, by, e) == a.type = "Commit" /\ a.by = by /\ a.entry = e

(* A commit is reduced, or fails. *)
LEMMA CommitEffect ==
    ASSUME StateInv, Reduce \/ ReduceFails, NEW by \in Thread, NEW e,
           queue # <<>>, IsCommit(Head(queue), by, e)
    PROVE  /\ pc # "initialize" => LoopStep
           /\ queue' = Tail(queue) /\ SameStatus /\ SameResults
           /\ \/ /\ state'.chain = Append(state.chain, e) /\ cas' = cas \cup {e} /\ faults' = faults
                 /\ state'.responses = [state.responses EXCEPT ![by] = "ok"]
              \/ /\ SameChain /\ cas' \in {cas, cas \cup {e}} /\ faults' = faults + 1
                 /\ state'.responses = [state.responses EXCEPT ![by] = "err"]
<1> DEFINE a == Head(queue)
<1>1. a.type = "Commit" /\ a.by = by /\ a.entry = e
  BY Zenon DEF IsCommit
<1> HIDE DEF a
<1>2. state \in StateSet(dna, cas) /\ state.chain \in Seq(cas)
  BY Zenon DEF StateInv, StateSet
<1>3. CASE Reduce
  <2>1. /\ state' = ReduceCommit(state, a) /\ cas' = cas \cup {e} /\ queue' = Tail(queue)
        /\ loop = "idle" /\ loop' = "save" /\ UNCHANGED loopUnchanged /\ faults' = faults
    BY Zenon, <1>1, <1>3 DEF Reduce, a
  <2>2. state' = [state EXCEPT !.chain = Append(state.chain, e), !.responses[by] = "ok"]
    BY Zenon, <1>1, <1>2, <2>1 DEF ReduceCommit, StateSet
  <2>3. Append(state.chain, e) \in Seq(cas')
    BY <1>2, <2>1
  <2>4. state \in StateSet(dna, cas')
    BY Zenon, <1>2, <2>1, StatesMore
  <2>5. /\ state'.chain = Append(state.chain, e) /\ state'.dna = state.dna /\ state'.net = state.net
        /\ state'.responses = [state.responses EXCEPT ![by] = "ok"]
        /\ state'.status = state.status /\ state'.token = state.token
        /\ state'.zome_calls = state.zome_calls
    BY Zenon, <2>2, <2>4 DEF StateSet
  <2>6. state' \in StateSet(dna, cas')
    BY Zenon, <2>2, <2>3, <2>4 DEF StateSet
  <2> QED
    BY Zenon, <2>1, <2>5, <2>6 DEF LoopStep, SameStatus, SameResults
<1>4. CASE ReduceFails
  <2>1. /\ state' = ReduceFailedCommit(state, a) /\ cas' \in {cas, cas \cup {e}} /\ queue' = Tail(queue)
        /\ loop = "idle" /\ loop' = "save" /\ UNCHANGED loopUnchanged /\ faults' = faults + 1
    BY Zenon, <1>1, <1>4 DEF ReduceFails, a
  <2>2. state' = [state EXCEPT !.responses[by] = "err"]
    BY Zenon, <1>1, <2>1 DEF ReduceFailedCommit
  <2>3. state \in StateSet(dna, cas')
    BY Zenon, <1>2, <2>1, StatesMore
  <2>4. /\ state'.chain = state.chain /\ state'.dna = state.dna /\ state'.net = state.net
        /\ state'.responses = [state.responses EXCEPT ![by] = "err"]
        /\ state'.status = state.status /\ state'.token = state.token
        /\ state'.zome_calls = state.zome_calls
    BY Zenon, <2>2, <2>3 DEF StateSet
  <2>5. state' \in StateSet(dna, cas')
    BY Zenon, <2>2, <2>3 DEF StateSet
  <2> QED
    BY Zenon, <2>1, <2>4, <2>5 DEF LoopStep, SameStatus, SameResults, SameChain
<1> QED
  BY Zenon, <1>3, <1>4

LEMMA ReduceEffect ==
    ASSUME StateInv, PcInv, Reduce \/ ReduceFails
    PROVE  LoopStep /\ Reduced
<1> DEFINE a == Head(queue)
<1>1. /\ queue # <<>> /\ queue' = Tail(queue) /\ loop = "idle" /\ loop' = "save"
      /\ UNCHANGED loopUnchanged
  BY Zenon DEF Reduce, ReduceFails
<1>2. state \in StateSet(dna, cas) /\ Thread = Call \cup {"init"}
  BY Zenon DEF StateInv, Thread
<1>3. CASE pc = "initialize"
  <2>1. a = [type |-> "InitializeChain"] /\ queue' = <<>> /\ state.status = "New"
    BY Zenon, <1>1, <1>3, HeadIs, One
  <2>2. /\ state' = [state EXCEPT !.status = "Initializing", !.dna = TRUE]
        /\ cas' = cas /\ faults' = faults
    <3>1. a.type = "InitializeChain"
      BY <2>1
    <3> HIDE DEF a
    <3>2. state' = ReduceInitializeChain(state) /\ cas' = cas /\ faults' = faults
      BY Zenon, <3>1 DEF Reduce, ReduceFails, a
    <3> QED
      BY Zenon, <2>1, <3>2 DEF ReduceInitializeChain
  <2>3. state.token = {}
    BY Zenon, <2>1 DEF StateInv, StatusGood
  <2> QED
    BY Zenon, <1>1, <1>2, <1>3, <2>1, <2>2, <2>3 DEF StateSet, Status, LoopStep, Reduced,
       InitializeReduced, SameStorage, SameChain, SameResults
<1>4. ASSUME NEW by, NEW e, IsCommit(a, by, e), pc \in {"dna", "agent", "public", "active"},
             by \in Thread, EntryGood(e, dna, granted),
             pc \in {"dna", "agent", "public"} => by = "init" /\ queue = <<Commit("init", e)>>,
             pc = "active" => Asked(e, "app", granted),
             e = PublicGrant(dna) => state.chain = <<DnaEntry, AgentEntry>>
      PROVE  LoopStep /\ Reduced
  <2> HIDE DEF a
  <2>1. IsCommit(Head(queue), by, e)
    BY Zenon, <1>4 DEF a
  <2>2. CommitReduced(by, e) /\ LoopStep
    BY Zenon, <1>1, <1>4, <2>1, CommitEffect DEF CommitReduced
  <2> QED
    BY Zenon, <2>2 DEF Reduced
<1>5. CASE pc \in {"dna", "agent", "public"}
  <2>1. PICK e : /\ queue = <<Commit("init", e)>> /\ EntryGood(e, dna, granted)
                 /\ e = PublicGrant(dna) => state.chain = <<DnaEntry, AgentEntry>>
    BY Zenon, <1>1, <1>5, HeadIs, Kinds DEF EntryGood
  <2>2. IsCommit(a, "init", e)
    BY <2>1, One DEF Commit, IsCommit
  <2> QED
    BY Zenon, <1>2, <1>4, <1>5, <2>1, <2>2
<1>6. CASE pc \in {"result", "error"}
  <2>1. PICK ok \in BOOLEAN : Ending(ok)
    BY Zenon, <1>1, <1>6, HeadIs
  <2>2. a = Return(ok) /\ queue' = <<>> /\ state.status = "Initializing"
    BY Zenon, <1>1, <2>1, One DEF Ending
  <2>3. a.type = "ReturnInitializationResult" /\ a.ok = ok
    BY <2>2 DEF Return
  <2>4. state' = ReduceReturnInitializationResult(state, ok) /\ cas' = cas /\ faults' = faults
    BY Zenon, <2>3 DEF Reduce, ReduceFails
  <2>5. state.token = {}
    BY Zenon, <2>2 DEF StateInv, StatusGood
  <2>6. (IF dna.public = {} THEN {} ELSE PublicGrants) = FullToken(dna)
    BY Zenon, PublicFacts DEF FullToken
  <2>7. FullToken(dna) \in SUBSET {PublicGrant(dna)}
    BY Zenon DEF FullToken
  <2>8. state' = IF ok THEN [state EXCEPT !.status = "Initialized", !.token = FullToken(dna)]
                 ELSE [state EXCEPT !.status = "InitializationFailed"]
    BY Zenon, <2>2, <2>4, <2>6 DEF ReduceReturnInitializationResult
  <2>9. /\ state' \in StateSet(dna, cas') /\ state'.dna = state.dna /\ state'.net = state.net
        /\ state'.status = IF ok THEN "Initialized" ELSE "InitializationFailed"
        /\ state'.token = IF ok THEN FullToken(dna) ELSE {}
        /\ state'.chain = state.chain /\ state'.zome_calls = state.zome_calls
        /\ state'.responses = state.responses
    <3>1. CASE ok
      <4> DEFINE tk == FullToken(dna)
      <4>1. state' = [state EXCEPT !.status = "Initialized", !.token = tk]
        BY Zenon, <2>8, <3>1
      <4>2. tk \in SUBSET {PublicGrant(dna)}
        BY Zenon, <2>7
      <4> HIDE DEF tk
      <4>3. /\ state' \in StateSet(dna, cas) /\ state'.status = "Initialized" /\ state'.token = tk
            /\ state'.dna = state.dna /\ state'.net = state.net
            /\ state'.chain = state.chain /\ state'.zome_calls = state.zome_calls
            /\ state'.responses = state.responses
        BY Zenon, <1>2, <4>1, <4>2 DEF StateSet, Status
      <4> QED
        BY Zenon, <2>4, <3>1, <4>3 DEF tk
    <3>2. CASE ~ok
      BY <3>2, <1>2, <2>4, <2>5, <2>8 DEF StateSet, Status
    <3> QED
      BY Zenon, <3>1, <3>2
  <2>10. LoopStep /\ ReturnReduced(ok)
    BY Zenon, <1>1, <1>6, <2>1, <2>2, <2>4, <2>9 DEF LoopStep, ReturnReduced, SameStorage, SameChain, SameResults
  <2> QED
    BY Zenon, <2>10 DEF Reduced
<1>7. CASE pc \in {"new_network", "load_network"}
  <2>1. a.type = "InitNetwork" /\ queue' = <<>>
    BY <1>1, <1>7, HeadIs, One
  <2>2. state' \in {state, [state EXCEPT !.net = TRUE]} /\ cas' = cas /\ faults' \in {faults, faults + 1}
    BY Zenon, <2>1 DEF Reduce, ReduceFails
  <2>3. /\ state' \in StateSet(dna, cas') /\ state'.dna = state.dna
        /\ SameChain /\ SameStatus /\ SameResults /\ state'.responses = state.responses
    BY Zenon, <1>2, <2>2 DEF StateSet, SameChain, SameStatus, SameResults
  <2> QED
    BY Zenon, <1>1, <1>7, <2>1, <2>2, <2>3 DEF LoopStep, Reduced, NetworkReduced
<1>8. CASE pc \in {"new_publish", "load_publish"}
  <2>1. a.type = "Publish" /\ queue' = <<>>
    BY <1>1, <1>8, HeadIs, One
  <2>2. PICK x \in Responses : /\ state' = [state EXCEPT !.responses["init"] = x]
                               /\ x = "ok" => AgentEntry \in OnChain(state.chain)
    BY Zenon, <2>1 DEF Reduce, ReduceFails, ReducePublish, Responses
  <2>3. cas' = cas /\ faults' \in {faults, faults + 1}
    BY Zenon, <2>1 DEF Reduce, ReduceFails
  <2>4. state' \in StateSet(dna, cas') /\ SameButResponses(state', state) /\ state'.responses["init"] = x
    BY Zenon, <1>2, <2>2, <2>3 DEF StateSet, SameButResponses, Responses
  <2> QED
    BY Zenon, <1>1, <1>8, <2>1, <2>2, <2>3, <2>4 DEF LoopStep, Reduced, PublishReduced, SameButResponses,
       SameChain, SameStatus, SameResults, Answer
<1>9. CASE pc = "active"
  <2>1. CallAction(a, granted)
    BY Zenon, <1>1, <1>9, HeadIs
  <2>2. CASE a.type = "Commit"
    <3> DEFINE e == a.entry
    <3>1. a.by \in Thread /\ Asked(e, "app", granted) /\ IsCommit(a, a.by, e)
      BY Zenon, <1>2, <2>1, <2>2 DEF CallAction, IsCommit
    <3>2. e # PublicGrant(dna) /\ EntryGood(e, dna, granted)
      BY Zenon, <3>1, Kinds DEF EntryGood
    <3> HIDE DEF a, e
    <3> QED
      BY Zenon, <1>4, <1>9, <3>1, <3>2
  <2>3. CASE a.type = "ReturnZomeFunctionResult"
    <3>1. a.call \in Call
      BY Zenon, <2>1, <2>3 DEF CallAction
    <3>2. /\ state' = [state EXCEPT !.zome_calls = @ \cup {[call |-> a.call, value |-> a.call]}]
          /\ cas' = cas /\ faults' = faults
      BY Zenon, <2>3 DEF Reduce, ReduceFails, ReduceReturnZomeFunctionResult
    <3>3. /\ state' \in StateSet(dna, cas') /\ state'.dna = state.dna /\ state'.net = state.net
          /\ SameChain /\ SameStatus /\ state'.responses = state.responses
          /\ state'.zome_calls = state.zome_calls \cup {[call |-> a.call, value |-> a.call]}
      BY <1>2, <3>1, <3>2 DEF StateSet, SameChain, SameStatus
    <3> QED
      BY Zenon, <1>1, <1>9, <3>1, <3>2, <3>3 DEF LoopStep, Reduced, CallReduced, SameStorage
  <2>4. CASE a.type = "SignalZomeFunctionCall"
    <3>1. state' = state /\ cas' = cas /\ faults' = faults
      BY Zenon, <2>4 DEF Reduce, ReduceFails
    <3> QED
      BY Zenon, <1>1, <1>2, <1>9, <3>1 DEF LoopStep, Reduced, CallReduced, SameStorage, SameChain,
         SameStatus, SameResults
  <2> QED
    BY Zenon, <2>1, <2>2, <2>3, <2>4 DEF CallAction
<1>10. pc \notin {"down", "genesis"}
  BY Zenon, <1>1, HeadIs
<1> QED
  BY Zenon, <1>3, <1>5, <1>6, <1>7, <1>8, <1>9, <1>10 DEF PcInv

-----------------------------------------------------------------------------
(* Steps keep the invariant on the state *)

Rest ==
    /\ loop' \in {"idle", "save", "save_nucleus"} /\ todo' \subseteq dna.zomes
    /\ failed' \in BOOLEAN /\ was' \in BOOLEAN /\ faults' \in Nat

LEMMA StatusMore ==
    ASSUME NEW status, NEW token, NEW d, NEW gen, NEW gen2, gen \subseteq gen2,
           StatusGood(status, token, d, gen)
    PROVE  StatusGood(status, token, d, gen2)
  BY Zenon DEF StatusGood, GenesisDone

LEMMA StateKept ==
    ASSUME StateInv, Grow, Rest, state' \in StateSet(dna, cas'), SameChain, SameStatus,
           \A r \in state'.zome_calls : r.value = r.call
    PROVE  StateInv'
<1>1. /\ ChainGood(state.chain, dna, cas, granted) /\ cas \subseteq cas' /\ granted \subseteq granted'
      /\ genesis \subseteq genesis' /\ StatusGood(state.status, state.token, dna, genesis)
      /\ dna' = dna /\ dna \in Dnas
  BY Zenon DEF StateInv, Grow
<1>2. ChainGood(state.chain, dna, cas', granted')
  BY Zenon, <1>1, ChainMore
<1>3. StatusGood(state.status, state.token, dna, genesis')
  BY Zenon, <1>1, StatusMore
<1> QED
  BY Zenon, <1>1, <1>2, <1>3 DEF StateInv, Rest, SameChain, SameStatus

LEMMA StateSame ==
    ASSUME StateInv, Grow, Rest, state' = state
    PROVE  StateInv'
<1>1. state' \in StateSet(dna, cas')
  BY Zenon, StatesMore DEF StateInv, Grow
<1> QED
  BY Zenon, <1>1, StateKept DEF StateInv, SameChain, SameStatus

LEMMA StateAnswer ==
    ASSUME StateInv, Grow, Rest, cas' = cas, state' = [state EXCEPT !.responses["init"] = "none"]
    PROVE  StateInv'
<1>1. /\ state' \in StateSet(dna, cas) /\ state'.chain = state.chain /\ state'.status = state.status
      /\ state'.token = state.token /\ state'.zome_calls = state.zome_calls
  BY Zenon DEF StateInv, StateSet, Thread
<1> QED
  BY Zenon, <1>1, StateKept DEF StateInv, SameChain, SameStatus

LEMMA StateNew ==
    ASSUME StateInv, Grow, Rest, state' = NewState
    PROVE  StateInv'
<1>1. dna' = dna
  BY Zenon DEF Grow
<1>2. /\ NewState \in StateSet(dna', cas') /\ ChainGood(NewState.chain, dna', cas', granted')
      /\ StatusGood(NewState.status, NewState.token, dna', genesis') /\ NewState.zome_calls = {}
  BY Zenon, NewStateGood
<1> QED
  BY Zenon, <1>1, <1>2 DEF StateInv, Rest

LEMMA ReducedFacts ==
    ASSUME Reduced
    PROVE  /\ faults' \in {faults, faults + 1}
           /\ \/ SameResults
              \/ \E c \in Call : state'.zome_calls = state.zome_calls \cup {[call |-> c, value |-> c]}
<1>1. CASE InitializeReduced \/ NetworkReduced
  BY Zenon, <1>1 DEF InitializeReduced, NetworkReduced, SameStorage
<1>2. CASE PublishReduced \/ CallReduced
  BY Zenon, <1>2 DEF PublishReduced, CallReduced, SameStorage
<1>3. ASSUME NEW by, NEW e, CommitReduced(by, e)
      PROVE  faults' \in {faults, faults + 1} /\ SameResults
  BY Zenon, <1>3 DEF CommitReduced
<1>4. ASSUME NEW ok \in BOOLEAN, ReturnReduced(ok)
      PROVE  faults' \in {faults, faults + 1} /\ SameResults
  BY Zenon, <1>4 DEF ReturnReduced, SameStorage
<1> QED
  BY Zenon, <1>1, <1>2, <1>3, <1>4 DEF Reduced

LEMMA StateStep ==
    ASSUME NucleusInv, Next
    PROVE  StateInv'
<1> USE DEF NucleusInv
<1>0. Grow
  BY Zenon, Grows
<1>1. /\ loop \in {"idle", "save", "save_nucleus"} /\ todo \subseteq dna.zomes
      /\ failed \in BOOLEAN /\ was \in BOOLEAN /\ faults \in Nat
  BY Zenon DEF StateInv
<1>2. CASE Load
  <2>1. Rest
    BY Zenon, <1>1, <1>2 DEF Load, Rest, history
  <2>2. PICK a \in saved.agent, n \in saved.nucleus : state' = LoadedState(a, n)
    BY Zenon, <1>2 DEF Load
  <2>3. /\ ChainGood(a, dna, cas, granted) /\ StatusGood(n.status, n.token, dna, genesis)
        /\ n \in SnapshotSet(dna) /\ a \in Seq(cas)
    BY Zenon DEF SavedInv
  <2>4. NewState \in StateSet(dna, cas) /\ NewState.zome_calls = {}
    BY Zenon, NewStateGood
  <2>5. (DnaEntry \in OnChain(a)) \in BOOLEAN
    OBVIOUS
  <2>6. /\ state' \in StateSet(dna, cas) /\ state'.chain = a /\ state'.status = n.status
        /\ state'.token = n.token /\ state'.zome_calls = {}
    BY Zenon, <2>2, <2>3, <2>4, <2>5 DEF LoadedState, StateSet, SnapshotSet
  <2>7. UNCHANGED <<dna, cas, granted, genesis>>
    BY Zenon, <1>2 DEF Load, history
  <2> QED
    BY Zenon, <2>1, <2>3, <2>6, <2>7 DEF StateInv, Rest
<1>3. CASE LoadFails \/ LoadedPublishFails
  <2>1. Rest /\ state' = NewState
    BY Zenon, <1>1, <1>3 DEF LoadFails, LoadedPublishFails, NewChain, Rest
  <2> QED
    BY Zenon, <1>0, <2>1, StateNew
<1>4. CASE NetworkUp \/ CommitAgent \/ CommitPublicGrant
  <2>1. Rest /\ cas' = cas /\ state' = [state EXCEPT !.responses["init"] = "none"]
    BY Zenon, <1>1, <1>4 DEF NetworkUp, CommitAgent, CommitPublicGrant, Rest, history, initUnchanged
  <2> QED
    BY Zenon, <1>0, <2>1, StateAnswer
<1>5. CASE Start \/ CommitDna \/ CommitError \/ NoZomes \/ BeginGenesis \/ PublishError
  <2>1. Rest /\ state' = state
    BY Zenon, <1>1, <1>5 DEF Start, CommitDna, CommitError, NoZomes, BeginGenesis, PublishError, Rest, initUnchanged
  <2> QED
    BY Zenon, <1>0, <2>1, StateSame
<1>6. CASE \E z \in todo, r \in {"Pass", "Fail", "NotImplemented"} : Genesis(z, r)
  <2>1. Rest /\ state' = state
    BY Zenon, <1>1, <1>6 DEF Genesis, Rest, initUnchanged
  <2> QED
    BY Zenon, <1>0, <2>1, StateSame
<1>7. CASE ReturnInitializationResult \/ InitializationDone \/ InitializationError
  <2>1. Rest /\ state' = state
    BY Zenon, <1>1, <1>7 DEF ReturnInitializationResult, InitializationDone, InitializationError, Rest, initUnchanged
  <2> QED
    BY Zenon, <1>0, <2>1, StateSame
<1>8. CASE AnyCall \/ \E c \in Call : CallThread(c)
  <2>1. Rest /\ state' = state
    <3>1. CASE AnyCall
      BY Zenon, <1>1, <3>1 DEF AnyCall, CallZomeFunction, Rest, callUnchanged
    <3>2. CASE \E c \in Call : CallThread(c)
      BY Zenon, <1>1, <3>2 DEF CallThread, CommitCapabilityGrant, CommitReturns, RunDnaReturns, CallReturns,
         Rest, callUnchanged
    <3> QED
      BY Zenon, <1>8, <3>1, <3>2
  <2> QED
    BY Zenon, <1>0, <2>1, StateSame
<1>9. CASE SaveAgent \/ SaveNucleus \/ SaveSkipped \/ SaveLeft
  <2>1. Rest /\ state' = state
    BY <1>1, <1>9 DEF SaveAgent, SaveNucleus, SaveSkipped, SaveLeft, Rest, history
  <2> QED
    BY Zenon, <1>0, <2>1, StateSame
<1>10. CASE Crash
  <2>1. Rest /\ state' = NewState
    BY Zenon, <1>1, <1>10 DEF Crash, Rest, history
  <2> QED
    BY Zenon, <1>0, <2>1, StateNew
<1>11. CASE Reduce \/ ReduceFails
  <2>1. LoopStep /\ Reduced
    BY Zenon, <1>11, ReduceEffect
  <2>2. Rest
    <3>1. faults' \in Nat
      BY <1>1, <2>1, ReducedFacts
    <3> QED
      BY Zenon, <1>1, <2>1, <3>1 DEF LoopStep, loopUnchanged, history, Rest
  <2>3. \A r \in state'.zome_calls : r.value = r.call
    BY <2>1, ReducedFacts DEF StateInv, SameResults
  <2>4. /\ state' \in StateSet(dna, cas') /\ dna' = dna /\ cas \subseteq cas' /\ granted' = granted
        /\ genesis' = genesis /\ ChainGood(state.chain, dna, cas, granted) /\ dna \in Dnas
        /\ StatusGood(state.status, state.token, dna, genesis)
    BY Zenon, <1>0, <2>1 DEF LoopStep, StateInv, loopUnchanged, history, Grow
  <2>5. ChainGood(state.chain, dna, cas', granted)
    BY Zenon, <2>4, ChainMore
  <2>6. CASE NetworkReduced \/ PublishReduced \/ CallReduced
    BY Zenon, <1>0, <2>2, <2>3, <2>4, <2>6, StateKept DEF NetworkReduced, PublishReduced, CallReduced
  <2>7. CASE InitializeReduced
    <3>1. StatusGood(state'.status, state'.token, dna, genesis)
      BY Zenon, <2>7 DEF InitializeReduced, StatusGood, Status
    <3> QED
      BY Zenon, <2>2, <2>3, <2>4, <2>5, <2>7, <3>1 DEF InitializeReduced, SameChain, StateInv, Rest
  <2>8. ASSUME NEW ok \in BOOLEAN, ReturnReduced(ok)
        PROVE  StateInv'
    <3>1. StatusGood(state'.status, state'.token, dna, genesis)
      BY Zenon, <2>8 DEF ReturnReduced, Ending, StatusGood, Status
    <3> QED
      BY Zenon, <2>2, <2>3, <2>4, <2>5, <2>8, <3>1 DEF ReturnReduced, SameChain, StateInv, Rest
  <2>9. ASSUME NEW by, NEW e, CommitReduced(by, e)
        PROVE  StateInv'
    <3>1. CASE SameChain
      BY Zenon, <1>0, <2>2, <2>3, <2>4, <2>9, <3>1, StateKept DEF CommitReduced
    <3>2. CASE ~SameChain
      <4>1. /\ state'.chain = Append(state.chain, e) /\ e \in cas' /\ SameStatus
            /\ EntryGood(e, dna, granted)
        BY Zenon, <2>9, <3>2 DEF CommitReduced
      <4>2. e = PublicGrant(dna) => PublicGrant(dna) \notin OnChain(state.chain)
        BY Zenon, <2>9, Chains DEF CommitReduced
      <4>3. ChainGood(Append(state.chain, e), dna, cas', granted)
        BY Zenon, <2>5, <4>1, <4>2, ChainAppend
      <4> QED
        BY Zenon, <2>2, <2>3, <2>4, <4>1, <4>3 DEF SameStatus, StateInv, Rest
    <3> QED
      BY Zenon, <3>1, <3>2
  <2> QED
    BY Zenon, <2>1, <2>6, <2>7, <2>8, <2>9 DEF Reduced
<1> QED
  BY Zenon, <1>2, <1>3, <1>4, <1>5, <1>6, <1>7, <1>8, <1>9, <1>10, <1>11 DEF Next, InitThread, ProcessAction

-----------------------------------------------------------------------------
(* Steps keep the invariant on the calls *)

(* What CallsCovered says of one call. *)
Covered(token, fn, by, chain, gr) ==
    \/ token = {AgentEntry} /\ by = Me
    \/ /\ token \subseteq OnChain(chain)
       /\ \E r \in gr, id \in {"hc_public", "app"} :
            /\ token = Create(id, r)
            /\ fn \in r.fns
            /\ r.type = "Assigned" => \E a \in r.assignees : by \in a
            /\ \A g \in token : CapType(g) = r.type

LEMMA CoveredCalls ==
    CallsCovered <=>
        \A c \in Call : calls[c].pc \notin {"none", "over", "done"} =>
            Covered(calls[c].token, calls[c].fn, calls[c].by, state.chain, granted)
  BY Zenon DEF CallsCovered, Covered

LEMMA ValidCovered ==
    ASSUME StateInv, NEW e, NEW fn, NEW by, NEW signed, ValidateCall({e}, fn, by, signed)
    PROVE  Covered({e}, fn, by, state.chain, granted)
<1>1. CASE {e} = {AgentEntry} /\ by = Me
  BY Zenon, <1>1 DEF Covered
<1>2. CASE CheckCapability({e}, fn, by, signed)
  <2>1. /\ e \in OnChain(state.chain) /\ e.kind = "grant" /\ fn \in e.fns
        /\ CapType(e) = "Assigned" => \E a \in e.assignees : by \in a
    BY Zenon, <1>2 DEF CheckCapability, GetGrant, VerifyGrant
  <2>2. EntryGood(e, dna, granted)
    BY <2>1, OnChainIn DEF StateInv, ChainGood
  <2>3. PICK id \in {"hc_public", "app"} : Asked(e, id, granted)
    BY Zenon, <2>1, <2>2, Kinds DEF EntryGood
  <2>4. PICK r \in granted : {e} = Create(id, r) /\ CapType(e) = r.type
    BY Zenon, <2>3 DEF Asked
  <2>5. e.fns = r.fns /\ (r.type = "Assigned" => e.assignees = r.assignees)
    BY <2>4, CreateFacts
  <2> QED
    BY Zenon, <2>1, <2>4, <2>5 DEF Covered
<1> QED
  BY Zenon, <1>1, <1>2 DEF ValidateCall

CallSet(d, st) ==
    [pc : {"none", "over", "running", "committing", "ran", "returned", "done"},
     fn : d.fns \cup {"none"}, token : SUBSET st, by : Agent, result : SUBSET Call]

LEMMA CallsSame ==
    ASSUME CallInv, Grow, calls' = calls, pc' # "active" => pc # "active",
           Unlocked \/ OnChain(state.chain) \subseteq OnChain(state'.chain)
    PROVE  CallInv'
<1>1. /\ calls \in [Call -> CallSet(dna, cas)] /\ dna' = dna /\ cas \subseteq cas'
      /\ granted \subseteq granted'
  BY Zenon DEF CallInv, CallSet, Grow
<1>2. CallSet(dna, cas) \subseteq CallSet(dna, cas')
  BY Zenon, <1>1 DEF CallSet
<1>3. calls \in [Call -> CallSet(dna, cas')]
  BY Zenon, <1>1, <1>2
<1>4. calls' \in [Call -> CallSet(dna', cas')]
  BY Zenon, <1>1, <1>3
<1>5. CallsCovered'
  BY <1>1 DEF CallInv, CallsCovered, Unlocked
<1> QED
  BY Zenon, <1>4, <1>5 DEF CallInv, CallSet, OwnResult, Unlocked

(* One call c goes on, under the same grant. *)
LEMMA CallMoves ==
    ASSUME CallInv, Grow, NEW c \in Call, NEW p \in {"running", "committing", "ran", "returned"},
           calls' = [calls EXCEPT ![c].pc = p], calls[c].pc \notin {"none", "over", "done"},
           state' = state, pc' = pc
    PROVE  CallInv'
<1>1. /\ calls \in [Call -> CallSet(dna, cas)] /\ dna' = dna /\ cas \subseteq cas'
      /\ granted \subseteq granted' /\ pc = "active"
  BY Zenon DEF CallInv, CallSet, Grow, Unlocked
<1>2. /\ calls' \in [Call -> CallSet(dna, cas)]
      /\ \A d \in Call : /\ calls'[d].token = calls[d].token /\ calls'[d].fn = calls[d].fn
                         /\ calls'[d].by = calls[d].by /\ calls'[d].result = calls[d].result
                         /\ calls'[d].pc = IF d = c THEN p ELSE calls[d].pc
  BY Zenon, <1>1 DEF CallSet
<1>3. CallSet(dna, cas) \subseteq CallSet(dna, cas')
  BY Zenon, <1>1 DEF CallSet
<1>4. calls' \in [Call -> CallSet(dna', cas')]
  BY Zenon, <1>1, <1>2, <1>3
<1>5. CallsCovered'
  BY <1>1, <1>2 DEF CallInv, CallsCovered
<1>6. OwnResult'
  BY Zenon, <1>2 DEF CallInv, OwnResult
<1> QED
  BY Zenon, <1>1, <1>4, <1>5, <1>6 DEF CallInv, CallSet

LEMMA CallStep ==
    ASSUME NucleusInv, Next
    PROVE  CallInv'
<1> USE DEF NucleusInv
<1>0. Grow /\ (pc # "active" => Unlocked) /\ calls \in [Call -> CallSet(dna, cas)]
  BY Zenon, Grows DEF CallInv, CallSet
<1>1. CASE Load \/ LoadFails
  <2>1. calls' = calls /\ pc # "active"
    BY Zenon, <1>1 DEF Load, LoadFails, NewChain
  <2> QED
    BY Zenon, <1>0, <2>1, CallsSame
<1>2. CASE InitThread
  <2>1. calls' = calls /\ pc # "active"
    <3>1. CASE NetworkUp \/ Start \/ LoadedPublishFails \/ CommitPublicGrant
      BY Zenon, <3>1 DEF NetworkUp, Start, LoadedPublishFails, NewChain, CommitPublicGrant
    <3>2. CASE CommitDna \/ CommitAgent \/ CommitError \/ NoZomes \/ BeginGenesis \/ PublishError
      BY Zenon, <3>2 DEF CommitDna, CommitAgent, CommitError, NoZomes, BeginGenesis, PublishError, initUnchanged
    <3>3. CASE \E z \in todo, r \in {"Pass", "Fail", "NotImplemented"} : Genesis(z, r)
      BY Zenon, <3>3 DEF Genesis, initUnchanged
    <3>4. CASE ReturnInitializationResult \/ InitializationDone \/ InitializationError
      BY Zenon, <3>4 DEF ReturnInitializationResult, InitializationDone, InitializationError, initUnchanged
    <3> QED
      BY Zenon, <1>2, <3>1, <3>2, <3>3, <3>4 DEF InitThread
  <2> QED
    BY Zenon, <1>0, <2>1, CallsSame
<1>3. CASE AnyCall
  <2>1. PICK c \in Call, fn \in dna.fns, e \in cas, by \in Agent, signed \in BOOLEAN :
            CallZomeFunction(c, fn, {e}, by, signed)
    BY Zenon, <1>3 DEF AnyCall
  <2>2. UNCHANGED <<dna, cas, granted, state, pc>> /\ pc = "active" /\ calls[c].pc = "none"
    BY Zenon, <2>1 DEF CallZomeFunction, callUnchanged
  <2>3. CASE ValidateCall({e}, fn, by, signed)
    <3> DEFINE new == [pc |-> "running", fn |-> fn, token |-> {e}, by |-> by, result |-> {}]
    <3>1. calls' = [calls EXCEPT ![c] = new]
      BY Zenon, <2>1, <2>3 DEF CallZomeFunction
    <3>2. /\ new \in CallSet(dna, cas) /\ new.token = {e} /\ new.fn = fn /\ new.by = by /\ new.result = {}
      BY Zenon DEF CallSet
    <3> HIDE DEF new
    <3>3. Covered(new.token, new.fn, new.by, state.chain, granted)
      BY Zenon, <2>3, <3>2, ValidCovered
    <3>4. /\ calls' \in [Call -> CallSet(dna, cas)]
          /\ \A d \in Call : calls'[d] = IF d = c THEN new ELSE calls[d]
      BY Zenon, <1>0, <3>1, <3>2
    <3>5. \A d \in Call : calls'[d].pc \notin {"none", "over", "done"} =>
            Covered(calls'[d].token, calls'[d].fn, calls'[d].by, state.chain, granted)
      BY Zenon, <3>3, <3>4, CoveredCalls DEF CallInv
    <3>6. CallsCovered'
      BY Zenon, <2>2, <3>5 DEF CallsCovered, Covered
    <3>7. OwnResult'
      BY Zenon, <3>2, <3>4 DEF OwnResult, CallInv
    <3> QED
      BY Zenon, <2>2, <3>4, <3>6, <3>7 DEF CallInv, CallSet
  <2>4. CASE ~ValidateCall({e}, fn, by, signed)
    <3>1. calls' = [calls EXCEPT ![c] = Over]
      BY Zenon, <2>1, <2>4 DEF CallZomeFunction
    <3>2. Over \in CallSet(dna, cas) /\ Over.pc = "over" /\ Over.result = {}
      BY Zenon, MeAssumption DEF Over, NoCall, CallSet
    <3>3. /\ calls' \in [Call -> CallSet(dna, cas)]
          /\ \A d \in Call : calls'[d] = IF d = c THEN Over ELSE calls[d]
      BY Zenon, <1>0, <3>1, <3>2
    <3>4. CallsCovered'
      BY <2>2, <3>2, <3>3 DEF CallsCovered, CallInv
    <3>5. OwnResult'
      BY Zenon, <3>2, <3>3 DEF OwnResult, CallInv
    <3> QED
      BY Zenon, <2>2, <3>3, <3>4, <3>5 DEF CallInv, CallSet
  <2> QED
    BY Zenon, <2>3, <2>4
<1>4. CASE \E c \in Call : CallThread(c)
  <2>1. PICK c \in Call : CallThread(c)
    BY Zenon, <1>4
  <2>2. UNCHANGED <<state, pc>>
    BY Zenon, <2>1 DEF CallThread, CommitCapabilityGrant, CommitReturns, RunDnaReturns, CallReturns, callUnchanged
  <2>3. CASE \E r \in Request : CommitCapabilityGrant(c, r)
    <3>1. PICK p \in {"ran", "committing"} : calls' = [calls EXCEPT ![c].pc = p]
      BY Zenon, <2>3 DEF CommitCapabilityGrant
    <3>2. calls[c].pc = "running"
      BY Zenon, <2>3 DEF CommitCapabilityGrant
    <3> QED
      BY Zenon, <1>0, <2>2, <3>1, <3>2, CallMoves
  <2>4. CASE CommitReturns(c) \/ RunDnaReturns(c)
    <3>1. PICK p \in {"ran", "returned"} : calls' = [calls EXCEPT ![c].pc = p]
      BY Zenon, <2>4 DEF CommitReturns, RunDnaReturns
    <3>2. calls[c].pc \notin {"none", "over", "done"}
      BY Zenon, <2>4 DEF CommitReturns, RunDnaReturns
    <3> QED
      BY Zenon, <1>0, <2>2, <3>1, <3>2, CallMoves
  <2>5. CASE CallReturns(c)
    <3>1. PICK v \in ZomeCallResult(c) :
             calls' = [calls EXCEPT ![c] = [pc |-> "done", fn |-> @.fn, token |-> {}, by |-> Me,
                                            result |-> {v}]]
      BY Zenon, <2>5 DEF CallReturns
    <3>2. v = c
      BY Zenon DEF ZomeCallResult, StateInv
    <3>3. UNCHANGED <<dna, cas, granted>> /\ calls[c].pc \notin {"none", "over", "done"}
      BY Zenon, <2>5 DEF CallReturns, callUnchanged
    <3>4. /\ calls' \in [Call -> CallSet(dna, cas)]
          /\ calls'[c].pc = "done" /\ calls'[c].result = {c}
          /\ \A d \in Call \ {c} : calls'[d] = calls[d]
      <4> DEFINE new == [pc |-> "done", fn |-> calls[c].fn, token |-> {}, by |-> Me, result |-> {c}]
      <4>1. calls[c] \in CallSet(dna, cas)
        BY Zenon, <1>0
      <4>2. calls' = [calls EXCEPT ![c] = new]
        BY Zenon, <1>0, <3>1, <3>2
      <4>3. new \in CallSet(dna, cas) /\ new.pc = "done" /\ new.result = {c}
        BY Zenon, <4>1, MeAssumption DEF CallSet
      <4> HIDE DEF new
      <4> QED
        BY Zenon, <1>0, <4>2, <4>3
    <3>5. CallsCovered'
      BY <2>2, <3>3, <3>4 DEF CallsCovered, CallInv
    <3>6. OwnResult'
      BY Zenon, <3>4 DEF OwnResult, CallInv
    <3>7. pc = "active"
      BY Zenon, <1>0, <3>3 DEF Unlocked
    <3> QED
      BY Zenon, <2>2, <3>3, <3>4, <3>5, <3>6, <3>7 DEF CallInv, CallSet
  <2> QED
    BY Zenon, <2>1, <2>3, <2>4, <2>5 DEF CallThread
<1>5. CASE Reduce \/ ReduceFails
  <2>1. LoopStep /\ Reduced
    BY Zenon, <1>5, ReduceEffect
  <2>2. calls' = calls /\ pc' = pc
    BY Zenon, <2>1 DEF LoopStep, loopUnchanged
  <2>3. OnChain(state.chain) \subseteq OnChain(state'.chain)
    <3>1. CASE SameChain
      BY Zenon, <3>1 DEF SameChain
    <3>2. ASSUME NEW by, NEW e, CommitReduced(by, e)
          PROVE  OnChain(state.chain) \subseteq OnChain(state'.chain)
      <4>1. state.chain \in Seq(cas)
        BY Zenon DEF StateInv, ChainGood
      <4>2. SameChain \/ state'.chain = Append(state.chain, e)
        BY Zenon, <3>2 DEF CommitReduced
      <4>3. OnChain(Append(state.chain, e)) = OnChain(state.chain) \cup {e}
        BY Zenon, <4>1, OnChainAppend
      <4> QED
        BY Zenon, <3>1, <4>2, <4>3
    <3> QED
      BY Zenon, <2>1, <3>1, <3>2 DEF Reduced, InitializeReduced, NetworkReduced, PublishReduced, CallReduced,
         ReturnReduced
  <2> QED
    BY Zenon, <1>0, <2>2, <2>3, CallsSame
<1>6. CASE SaveAgent \/ SaveNucleus \/ SaveSkipped \/ SaveLeft
  <2>1. UNCHANGED <<calls, pc, state>>
    BY Zenon, <1>6 DEF SaveAgent, SaveNucleus, SaveSkipped, SaveLeft
  <2> QED
    BY Zenon, <1>0, <2>1, CallsSame
<1>7. CASE Crash
  <2>1. /\ UNCHANGED <<dna, cas>>
        /\ calls' = [c \in Call |-> IF calls[c].pc = "none" THEN NoCall ELSE Over]
    BY Zenon, <1>7 DEF Crash
  <2>2. /\ NoCall \in CallSet(dna, cas) /\ Over \in CallSet(dna, cas)
        /\ NoCall.pc = "none" /\ Over.pc = "over" /\ NoCall.result = {} /\ Over.result = {}
    BY Zenon, MeAssumption DEF Over, NoCall, CallSet
  <2>3. /\ calls' \in [Call -> CallSet(dna', cas')]
        /\ \A c \in Call : calls'[c].pc \in {"none", "over"} /\ calls'[c].result = {}
    BY Zenon, <2>1, <2>2
  <2> QED
    BY Zenon, <2>3 DEF CallInv, CallSet, CallsCovered, OwnResult, Unlocked
<1> QED
  BY Zenon, <1>1, <1>2, <1>3, <1>4, <1>5, <1>6, <1>7 DEF Next, ProcessAction

-----------------------------------------------------------------------------
(* Steps keep the invariant on the initialization and the channel *)

LEMMA ActionsMore ==
    ASSUME NEW q, NEW gr, NEW gr2, gr \subseteq gr2, \A k \in 1 .. Len(q) : CallAction(q[k], gr)
    PROVE  \A k \in 1 .. Len(q) : CallAction(q[k], gr2)
  BY Zenon, AskedMore DEF CallAction

LEMMA SeqAppend ==
    ASSUME NEW q, IsSeq(q), NEW a
    PROVE  /\ IsSeq(Append(q, a)) /\ Len(Append(q, a)) = Len(q) + 1 /\ Len(q) \in Nat
           /\ \A k \in 1 .. Len(q) : Append(q, a)[k] = q[k]
           /\ Append(q, a)[Len(q) + 1] = a
<1> DEFINE S == {q[k] : k \in 1 .. Len(q)}
           p == Append(q, a)
<1>1. q \in Seq(S)
  BY Zenon DEF IsSeq
<1>2. Len(p) = Len(q) + 1 /\ Len(q) \in Nat
      /\ (\A k \in 1 .. Len(q) : p[k] = q[k]) /\ p[Len(q) + 1] = a /\ p \in Seq(S \cup {a})
  BY <1>1
<1> HIDE DEF S, p
<1>3. p \in Seq({p[k] : k \in 1 .. Len(p)})
  BY <1>2
<1> QED
  BY Zenon, <1>2, <1>3 DEF IsSeq, p

LEMMA SeqTail ==
    ASSUME NEW q, IsSeq(q), q # <<>>
    PROVE  /\ IsSeq(Tail(q)) /\ Len(Tail(q)) = Len(q) - 1 /\ Len(q) \in Nat
           /\ \A k \in 1 .. Len(Tail(q)) : Tail(q)[k] = q[k + 1] /\ k + 1 \in 1 .. Len(q)
<1> DEFINE S == {q[k] : k \in 1 .. Len(q)}
           p == Tail(q)
<1>1. q \in Seq(S)
  BY Zenon DEF IsSeq
<1>2. /\ Len(p) = Len(q) - 1 /\ Len(q) \in Nat /\ Len(q) > 0
      /\ (\A k \in 1 .. Len(p) : p[k] = q[k + 1]) /\ p \in Seq(S)
  BY <1>1
<1> HIDE DEF S, p
<1>3. p \in Seq({p[k] : k \in 1 .. Len(p)})
  BY <1>2
<1>4. \A k \in 1 .. Len(p) : k + 1 \in 1 .. Len(q)
  BY <1>2
<1> QED
  BY Zenon, <1>2, <1>3, <1>4 DEF IsSeq, p

(* An action is sent. *)
LEMMA SentGood ==
    ASSUME NEW q, IsSeq(q), NEW gr, \A k \in 1 .. Len(q) : CallAction(q[k], gr), NEW q2,
           q2 = q \/ \E a : q2 = Append(q, a) /\ CallAction(a, gr)
    PROVE  IsSeq(q2) /\ \A k \in 1 .. Len(q2) : CallAction(q2[k], gr)
<1>1. CASE q2 = q
  BY Zenon, <1>1
<1>2. ASSUME NEW a, q2 = Append(q, a), CallAction(a, gr)
      PROVE  IsSeq(q2) /\ \A k \in 1 .. Len(q2) : CallAction(q2[k], gr)
  <2>1. /\ IsSeq(q2) /\ Len(q2) = Len(q) + 1 /\ Len(q) \in Nat
        /\ \A k \in 1 .. Len(q) : q2[k] = q[k]
        /\ q2[Len(q) + 1] = a
    BY <1>2, SeqAppend
  <2>2. \A k \in 1 .. Len(q2) : k \in 1 .. Len(q) \/ k = Len(q) + 1
    BY <2>1
  <2> QED
    BY Zenon, <1>2, <2>1, <2>2
<1> QED
  BY Zenon, <1>1, <1>2

LEMMA PcSame ==
    ASSUME PcInv, Grow, UNCHANGED <<queue, pc, state, failed, todo>>,
           pc = "down" => loop' = loop /\ left' = left,
           pc \in {"load_network", "load_publish"} => saved' = saved /\ left' = left
    PROVE  PcInv'
<1>1. /\ dna' = dna /\ granted \subseteq granted' /\ genesis \subseteq genesis'
  BY Zenon DEF Grow
<1>2. CASE pc = "active"
  BY Zenon, <1>2, <1>1, ActionsMore DEF PcInv
<1>3. CASE pc = "public"
  BY Zenon, <1>1, <1>3, AskedMore DEF PcInv, Committing, Answer
<1>4. CASE pc \notin {"active", "public"}
  <2>1. \A e, before : Committing(e, before) => Committing(e, before)'
    BY Zenon DEF Committing, Answer
  <2>2. Ending(TRUE) => Ending(TRUE)'
    BY Zenon, <1>1 DEF Ending, GenesisDone
  <2>3. Ending(FALSE) => Ending(FALSE)'
    BY Zenon, <1>1 DEF Ending, GenesisDone
  <2>4. Answer' = Answer /\ Snapshot(state)' = Snapshot(state)
    BY Zenon DEF Answer, Snapshot
  <2>5. CASE pc \in {"load_network", "load_publish"}
    BY Zenon, <1>1, <2>4, <2>5 DEF PcInv
  <2>6. CASE pc \in {"new_network", "new_publish"}
    BY Zenon, <1>1, <2>4, <2>6 DEF PcInv
  <2>7. CASE pc \in {"result", "error"}
    BY Zenon, <1>1, <2>2, <2>3, <2>7 DEF PcInv
  <2>8. CASE pc \in {"dna", "agent"}
    BY Zenon, <1>1, <2>1, <2>8 DEF PcInv
  <2>9. CASE pc \in {"down", "initialize", "genesis"}
    BY Zenon, <1>1, <2>4, <2>9 DEF PcInv
  <2>10. pc \in {"down", "initialize", "dna", "agent", "genesis", "result", "error",
                 "new_network", "new_publish", "load_network", "load_publish"}
    BY Zenon, <1>4 DEF PcInv
  <2> QED
    BY Zenon, <2>5, <2>6, <2>7, <2>8, <2>9, <2>10
<1> QED
  BY Zenon, <1>2, <1>3, <1>4

(* The initialization goes on. *)
LEMMA PcInit ==
    ASSUME NucleusInv, InitThread
    PROVE  PcInv'
<1> USE DEF NucleusInv
<1>0. state \in StateSet(dna, cas) /\ "init" \in Thread
  BY Zenon DEF StateInv, Thread
<1>1. CASE LoadedPublishFails
  <2>1. /\ state' = NewState /\ pc' = "initialize" /\ queue' = <<[type |-> "InitializeChain"]>>
    BY Zenon, <1>1 DEF LoadedPublishFails, NewChain
  <2>2. NewState.chain = <<>> /\ NewState.responses["init"] = "none" /\ NewState.status = "New"
        /\ ~NewState.net
    BY Zenon, NewStateGood
  <2> QED
    BY Zenon, <2>1, <2>2 DEF PcInv, Answer
<1>2. CASE NetworkUp
  <2>1. /\ pc' = IF pc = "load_network" THEN "load_publish" ELSE "new_publish"
        /\ pc \in {"load_network", "new_network"} /\ queue' = Append(queue, [type |-> "Publish"])
        /\ UNCHANGED <<dna, saved, left>> /\ state.net
        /\ state' = [state EXCEPT !.responses["init"] = "none"]
    BY Zenon, <1>2 DEF NetworkUp
  <2>2. SameButResponses(state', state) /\ state'.responses["init"] = "none"
    BY Zenon, <1>0, <2>1 DEF StateSet, SameButResponses
  <2>3. queue = <<>>
    BY Zenon, <2>1 DEF PcInv
  <2>4. queue' = <<[type |-> "Publish"]>>
    BY Zenon, <2>1, <2>3, One
  <2>5. Snapshot(state)' = Snapshot(state)
    BY Zenon, <2>2 DEF Snapshot, SameButResponses
  <2> QED
    BY Zenon, <2>1, <2>2, <2>4, <2>5 DEF PcInv, Answer, SameButResponses
<1>3. CASE Start
  <2>1. queue' = <<>> /\ pc' = "active" /\ state' = state
    BY Zenon, <1>3 DEF Start, PcInv, Answer
  <2>2. IsSeq(<<>>) /\ Len(<<>>) = 0
    BY DEF IsSeq
  <2> QED
    BY <1>3, <2>1, <2>2 DEF PcInv, Start
<1>4. CASE CommitDna
  <2>1. queue = <<>> /\ state.status = "Initializing" /\ state.dna /\ state.chain = <<>> /\ Answer = "none"
        /\ ~state.net
    BY Zenon, <1>4 DEF CommitDna, PcInv
  <2>2. queue' = <<Commit("init", DnaEntry)>>
    BY Zenon, <1>4, <2>1, One DEF CommitDna, Dispatch
  <2>3. pc' = "dna" /\ state' = state
    BY Zenon, <1>4 DEF CommitDna
  <2> QED
    BY Zenon, <2>1, <2>2, <2>3 DEF PcInv, Committing, Answer
<1>5. CASE CommitAgent
  <2>1. queue = <<>> /\ state.status = "Initializing" /\ state.dna /\ state.chain = <<DnaEntry>>
        /\ ~state.net
    BY Zenon, <1>5, Chains DEF CommitAgent, PcInv, Committing, Answer
  <2>2. queue' = <<Commit("init", AgentEntry)>>
    BY Zenon, <1>5, <2>1, One DEF CommitAgent, Dispatch
  <2>3. pc' = "agent" /\ SameButResponses(state', state) /\ state'.responses["init"] = "none"
    BY Zenon, <1>0, <1>5 DEF CommitAgent, StateSet, SameButResponses
  <2> QED
    BY Zenon, <2>1, <2>2, <2>3 DEF PcInv, Committing, Answer, SameButResponses
<1>6. CASE CommitPublicGrant
  <2>1. /\ queue = <<>> /\ state.status = "Initializing" /\ state.dna
        /\ state.chain = <<DnaEntry, AgentEntry>> /\ dna.zomes # {} /\ dna.public # {}
        /\ ~state.net
    BY Zenon, <1>6, Chains DEF CommitPublicGrant, PcInv, Committing, Answer
  <2>2. queue' = <<Commit("init", PublicGrant(dna))>>
    BY Zenon, <1>6, <2>1, One, PublicFacts DEF CommitPublicGrant, Dispatch
  <2>3. pc' = "public" /\ SameButResponses(state', state) /\ state'.responses["init"] = "none"
    BY Zenon, <1>0, <1>6 DEF CommitPublicGrant, StateSet, SameButResponses
  <2>4. granted' = granted \cup {PublicRequest} /\ dna' = dna
    BY Zenon, <1>6 DEF CommitPublicGrant
  <2>5. Asked(PublicGrant(dna), "hc_public", granted')
    BY Zenon, <2>4, PublicFacts, AskedMore
  <2> QED
    BY Zenon, <2>1, <2>2, <2>3, <2>4, <2>5 DEF PcInv, Committing, Answer, SameButResponses
<1>7. CASE CommitError
  <2>1. queue = <<>> /\ state.status = "Initializing" /\ state.dna
    BY Zenon, <1>7 DEF CommitError, PcInv, Committing, Answer
  <2>2. queue' = <<Return(FALSE)>> /\ pc' = "error" /\ state' = state
    BY Zenon, <1>7, <2>1, One DEF CommitError, Dispatch
  <2> QED
    BY Zenon, <2>1, <2>2 DEF PcInv, Ending
<1>8. CASE NoZomes
  <2>1. queue' = <<>> /\ state.dna /\ pc' = "error" /\ state' = state
    BY Zenon, <1>8 DEF NoZomes, PcInv, Committing, Answer
  <2> QED
    BY Zenon, <2>1 DEF PcInv
<1>9. CASE PublishError
  <2>1. queue' = <<>> /\ state.dna /\ pc' = "error" /\ state' = state
    BY Zenon, <1>9 DEF PublishError, PcInv, Answer
  <2> QED
    BY Zenon, <2>1 DEF PcInv
<1>10. CASE BeginGenesis
  <2>1. /\ queue' = <<>> /\ state.dna /\ pc' = "genesis" /\ state' = state /\ dna' = dna
        /\ todo' = dna.zomes /\ state.status = "Initializing" /\ dna.zomes # {}
        /\ ~state.net
    BY Zenon, <1>10 DEF BeginGenesis, PcInv, Committing, Answer, initUnchanged
  <2>2. state.chain = FullChain(dna)
    BY Zenon, <1>10, Chains DEF BeginGenesis, PcInv, Committing, Answer, FullChain
  <2> QED
    BY Zenon, <2>1, <2>2 DEF PcInv
<1>11. CASE \E z \in todo, r \in {"Pass", "Fail", "NotImplemented"} : Genesis(z, r)
  <2>1. PICK z \in todo, r \in {"Pass", "Fail", "NotImplemented"} : Genesis(z, r)
    BY Zenon, <1>11
  <2>2. /\ UNCHANGED <<dna, queue, pc, state>> /\ pc = "genesis" /\ todo' = todo \ {z}
        /\ failed' = (failed \/ r = "Fail")
        /\ genesis' = IF r = "Fail" THEN genesis ELSE genesis \cup {z}
    BY Zenon, <2>1 DEF Genesis, initUnchanged
  <2>3. ~failed' => dna.zomes \subseteq genesis' \cup todo'
    BY Zenon, <2>2 DEF PcInv
  <2> QED
    BY Zenon, <2>2, <2>3 DEF PcInv
<1>12. CASE ReturnInitializationResult
  <2>1. /\ queue = <<>> /\ pc = "genesis" /\ pc' = "result" /\ todo = {} /\ queue' = <<Return(~failed)>>
        /\ UNCHANGED <<dna, state, genesis>>
    BY Zenon, <1>12, One DEF ReturnInitializationResult, Dispatch, PcInv, initUnchanged
  <2>2. failed \in BOOLEAN
    BY Zenon DEF StateInv
  <2>3. CASE failed
    <3>1. queue' = <<Return(FALSE)>>
      BY Zenon, <2>1, <2>3
    <3> QED
      BY Zenon, <2>1, <3>1 DEF PcInv, Ending
  <2>4. CASE ~failed
    <3>1. queue' = <<Return(TRUE)>>
      BY Zenon, <2>1, <2>4
    <3> QED
      BY Zenon, <2>1, <2>4, <3>1 DEF PcInv, Ending, GenesisDone
  <2> QED
    BY Zenon, <2>2, <2>3, <2>4
<1>13. CASE InitializationDone
  <2>1. queue = <<>>
    BY Zenon, <1>13 DEF InitializationDone, PcInv, Ending
  <2>2. queue' = <<[type |-> "InitNetwork"]>> /\ pc' = "new_network" /\ state' = state /\ state.status = "Initialized"
    BY Zenon, <1>13, <2>1, One DEF InitializationDone, Dispatch
  <2> QED
    BY Zenon, <1>13, <2>2 DEF PcInv, InitializationDone
<1>14. CASE InitializationError
  <2>1. UNCHANGED <<dna, queue, state, genesis>> /\ pc = "result" /\ pc' = "error"
    BY Zenon, <1>14 DEF InitializationError, initUnchanged
  <2> QED
    BY Zenon, <2>1 DEF PcInv, Ending
<1> QED
  BY Zenon, <1>1, <1>2, <1>3, <1>4, <1>5, <1>6, <1>7, <1>8, <1>9, <1>10, <1>11, <1>12, <1>13, <1>14 DEF InitThread

(* An action is reduced. *)
LEMMA PcReduce ==
    ASSUME NucleusInv, Reduce \/ ReduceFails
    PROVE  PcInv'
<1> USE DEF NucleusInv
<1>1. LoopStep /\ Reduced
  BY Zenon, ReduceEffect
<1>2. /\ UNCHANGED <<dna, saved, left, pc, todo, failed, granted, genesis>>
      /\ (state'.dna <=> state.dna \/ pc = "initialize")
      /\ pc \notin {"new_network", "load_network"} => (state'.net <=> state.net)
      /\ state.responses \in [Thread -> Responses] /\ "init" \in Thread
  BY Zenon, <1>1 DEF LoopStep, loopUnchanged, history, StateInv, StateSet, Responses, Thread
<1>3. queue # <<>> /\ pc # "down"
  BY Zenon DEF Reduce, ReduceFails, PcInv
<1>4. CASE InitializeReduced
  BY Zenon, <1>2, <1>4 DEF InitializeReduced, SameChain, PcInv, Answer
<1>5. CASE NetworkReduced
  <2>1. Snapshot(state)' = Snapshot(state)
    BY Zenon, <1>5 DEF NetworkReduced, SameStatus, Snapshot
  <2> QED
    BY Zenon, <1>2, <1>5, <2>1 DEF NetworkReduced, SameChain, SameStatus, PcInv
<1>6. CASE PublishReduced
  <2>1. Snapshot(state)' = Snapshot(state)
    BY Zenon, <1>6 DEF PublishReduced, SameStatus, Snapshot
  <2> QED
    BY Zenon, <1>2, <1>6, <2>1 DEF PublishReduced, SameChain, SameStatus, PcInv
<1>7. CASE pc = "active" /\ queue' = Tail(queue)
  <2>1. IsSeq(queue) /\ \A k \in 1 .. Len(queue) : CallAction(queue[k], granted)
    BY Zenon, <1>7 DEF PcInv
  <2>2. IsSeq(queue') /\ \A k \in 1 .. Len(queue') : CallAction(queue'[k], granted)
    BY Zenon, <1>3, <1>7, <2>1, SeqTail
  <2> QED
    BY Zenon, <1>2, <1>7, <2>2 DEF PcInv
<1>8. ASSUME NEW by, NEW e, CommitReduced(by, e), pc # "active"
      PROVE  PcInv'
  <2>1. /\ by = "init" /\ queue = <<Commit("init", e)>> /\ pc \in {"dna", "agent", "public"}
    BY Zenon, <1>8 DEF CommitReduced
  <2>2. queue' = <<>>
    BY Zenon, <1>8, <2>1, One DEF CommitReduced
  <2>3. /\ \/ Answer' = "ok" /\ state'.chain = Append(state.chain, e)
           \/ Answer' = "err" /\ state'.chain = state.chain
        /\ state'.status = state.status
    BY <1>2, <1>8, <2>1 DEF CommitReduced, Answer, SameChain, SameStatus, Responses
  <2>4. \A x, y : <<Commit("init", x)>> = <<Commit("init", y)>> => x = y
    <3>1. \A x : Commit("init", x).entry = x
      BY Zenon DEF Commit
    <3> QED
      BY <3>1, One
  <2>5. CASE pc = "dna"
    <3>1. e = DnaEntry /\ state.chain = <<>> /\ state.status = "Initializing"
      BY Zenon, <1>3, <2>1, <2>4, <2>5 DEF PcInv, Committing
    <3> QED
      BY Zenon, <1>2, <2>2, <2>3, <2>5, <3>1 DEF PcInv, Committing
  <2>6. CASE pc = "agent"
    <3>1. e = AgentEntry /\ state.chain = <<DnaEntry>> /\ state.status = "Initializing"
      BY Zenon, <1>3, <2>1, <2>4, <2>6 DEF PcInv, Committing
    <3> QED
      BY Zenon, <1>2, <2>2, <2>3, <2>6, <3>1 DEF PcInv, Committing
  <2>7. CASE pc = "public"
    <3>1. e = PublicGrant(dna) /\ state.chain = <<DnaEntry, AgentEntry>> /\ state.status = "Initializing"
      BY Zenon, <1>3, <2>1, <2>4, <2>7 DEF PcInv, Committing
    <3> QED
      BY Zenon, <1>2, <2>2, <2>3, <2>7, <3>1 DEF PcInv, Committing
  <2> QED
    BY Zenon, <2>1, <2>5, <2>6, <2>7
<1>9. ASSUME NEW ok \in BOOLEAN, ReturnReduced(ok)
      PROVE  PcInv'
  BY Zenon, <1>2, <1>9 DEF ReturnReduced, PcInv
<1> QED
  BY Zenon, <1>1, <1>4, <1>5, <1>6, <1>7, <1>8, <1>9 DEF Reduced, CommitReduced, CallReduced

LEMMA PcStep ==
    ASSUME NucleusInv, Next
    PROVE  PcInv'
<1> USE DEF NucleusInv
<1>0. Grow
  BY Zenon, Grows
<1>1. CASE Load
  <2>1. PICK a \in saved.agent, n \in saved.nucleus :
          HasDnaAndAgent(LoadedState(a, n)) /\ state' = LoadedState(a, n)
    BY Zenon, <1>1 DEF Load
  <2>2. /\ pc' = "load_network" /\ queue' = <<[type |-> "InitNetwork"]>>
        /\ UNCHANGED <<saved, left>> /\ left = {}
    BY Zenon, <1>1 DEF Load, PcInv
  <2>3. NewState \in StateSet(dna, cas) /\ ~NewState.net
    BY Zenon, NewStateGood
  <2>4. /\ state'.chain = a /\ state'.status = n.status /\ state'.token = n.token /\ ~state'.net
        /\ state'.dna = (DnaEntry \in OnChain(a))
    BY Zenon, <2>1, <2>3 DEF LoadedState, StateSet
  <2>5. state'.dna
    BY Zenon, <2>1 DEF HasDnaAndAgent
  <2>6. /\ saved.agent = {a} /\ saved.nucleus = {n} /\ n \in SnapshotSet(dna)
        /\ saved \in [agent : SUBSET Seq(cas), nucleus : SUBSET SnapshotSet(dna)]
    BY Zenon DEF SavedInv
  <2>7. n = [status |-> n.status, token |-> n.token]
    BY Zenon, <2>6 DEF SnapshotSet
  <2>8. saved = [agent |-> {a}, nucleus |-> {n}]
    BY Zenon, <2>6
  <2>9. saved' = [agent |-> {state.chain}, nucleus |-> {Snapshot(state)}]'
    BY Zenon, <2>2, <2>4, <2>7, <2>8 DEF Snapshot
  <2> QED
    BY Zenon, <2>2, <2>4, <2>5, <2>9 DEF PcInv
<1>2. CASE LoadFails
  <2>1. /\ state' = NewState /\ pc' = "initialize" /\ queue' = <<[type |-> "InitializeChain"]>>
    BY Zenon, <1>2 DEF LoadFails, NewChain
  <2>2. NewState.chain = <<>> /\ NewState.responses["init"] = "none" /\ NewState.status = "New"
        /\ ~NewState.net
    BY Zenon, NewStateGood
  <2> QED
    BY Zenon, <2>1, <2>2 DEF PcInv, Answer
<1>3. CASE AnyCall
  <2>1. PICK c \in Call, fn \in dna.fns, e \in cas, by \in Agent, signed \in BOOLEAN :
            CallZomeFunction(c, fn, {e}, by, signed)
    BY Zenon, <1>3 DEF AnyCall
  <2>2. UNCHANGED <<state, pc, granted>> /\ pc = "active"
    BY Zenon, <2>1 DEF CallZomeFunction, callUnchanged
  <2>3. queue' = queue \/ queue' = Append(queue, [type |-> "SignalZomeFunctionCall"])
    BY Zenon, <2>1 DEF CallZomeFunction, Dispatch
  <2>4. CallAction([type |-> "SignalZomeFunctionCall"], granted)
    BY Zenon DEF CallAction
  <2>5. IsSeq(queue') /\ \A k \in 1 .. Len(queue') : CallAction(queue'[k], granted)
    BY Zenon, <2>2, <2>3, <2>4, SentGood DEF PcInv
  <2> QED
    BY Zenon, <2>2, <2>5 DEF PcInv
<1>4. CASE \E c \in Call : CallThread(c)
  <2>1. PICK c \in Call : CallThread(c)
    BY Zenon, <1>4
  <2>2. UNCHANGED <<state, pc>> /\ pc = "active" /\ granted \subseteq granted'
    <3>1. UNCHANGED <<state, pc>> /\ calls[c].pc \notin {"none", "over", "done"}
      BY Zenon, <2>1 DEF CallThread, CommitCapabilityGrant, CommitReturns, RunDnaReturns, CallReturns, callUnchanged
    <3> QED
      BY Zenon, <1>0, <3>1 DEF CallInv, Unlocked, Grow
  <2>3. queue' = queue \/ \E a : queue' = Append(queue, a) /\ CallAction(a, granted')
    <3>1. CASE CommitReturns(c) \/ CallReturns(c)
      BY Zenon, <3>1 DEF CommitReturns, CallReturns
    <3>2. CASE RunDnaReturns(c)
      <4>1. CallAction([type |-> "ReturnZomeFunctionResult", call |-> c], granted')
        BY Zenon DEF CallAction
      <4> QED
        BY Zenon, <3>2, <4>1 DEF RunDnaReturns, Dispatch
    <3>3. ASSUME NEW r \in Request, CommitCapabilityGrant(c, r)
          PROVE  queue' = queue \/ \E a : queue' = Append(queue, a) /\ CallAction(a, granted')
      <4>1. CASE Create("app", r) = {}
        BY Zenon, <3>3, <4>1 DEF CommitCapabilityGrant
      <4>2. CASE Create("app", r) # {}
        <5>1. PICK g \in Create("app", r) : queue' = Append(queue, Commit(c, g))
          BY Zenon, <3>3, <4>2 DEF CommitCapabilityGrant, Dispatch
        <5>2. granted' = granted \cup {r}
          BY Zenon, <3>3, <4>2 DEF CommitCapabilityGrant
        <5>3. {g} = Create("app", r) /\ CapType(g) = r.type
          BY Zenon, <5>1, TypeKept, RequestAssumption
        <5>4. Asked(g, "app", granted')
          BY Zenon, <5>2, <5>3 DEF Asked
        <5>5. CallAction(Commit(c, g), granted')
          BY Zenon, <5>4 DEF CallAction, Commit
        <5> QED
          BY Zenon, <5>1, <5>5
      <4> QED
        BY Zenon, <4>1, <4>2
    <3> QED
      BY Zenon, <2>1, <3>1, <3>2, <3>3 DEF CallThread
  <2>4. IsSeq(queue) /\ \A k \in 1 .. Len(queue) : CallAction(queue[k], granted')
    BY Zenon, <2>2, ActionsMore DEF PcInv
  <2>5. IsSeq(queue') /\ \A k \in 1 .. Len(queue') : CallAction(queue'[k], granted')
    BY Zenon, <2>3, <2>4, SentGood
  <2> QED
    BY Zenon, <2>2, <2>5 DEF PcInv
<1>5. CASE SaveAgent \/ SaveNucleus \/ SaveSkipped \/ SaveLeft
  <2>1. /\ UNCHANGED <<queue, pc, state, failed, todo>> /\ pc # "down"
        /\ pc \in {"load_network", "load_publish"} => left' = left
    BY Zenon, <1>5 DEF SaveAgent, SaveNucleus, SaveSkipped, SaveLeft, PcInv
  <2>2. pc \in {"load_network", "load_publish"} => saved' = saved
    <3> SUFFICES ASSUME pc \in {"load_network", "load_publish"}
                 PROVE  saved' = saved
      BY Zenon
    <3>1. saved = [agent |-> {state.chain}, nucleus |-> {Snapshot(state)}] /\ left = {}
      BY Zenon DEF PcInv
    <3>2. CASE SaveAgent
      BY <3>1, <3>2 DEF SaveAgent
    <3>3. CASE SaveNucleus
      BY <3>1, <3>3 DEF SaveNucleus
    <3>4. CASE SaveSkipped \/ SaveLeft
      BY Zenon, <3>1, <3>4 DEF SaveSkipped, SaveLeft
    <3> QED
      BY Zenon, <1>5, <3>2, <3>3, <3>4
  <2> QED
    BY Zenon, <1>0, <2>1, <2>2, PcSame
<1>6. CASE Crash
  BY Zenon, <1>6 DEF Crash, PcInv
<1> QED
  BY Zenon, <1>1, <1>2, <1>3, <1>4, <1>5, <1>6, PcInit, PcReduce DEF Next, ProcessAction

-----------------------------------------------------------------------------
(* Steps keep the invariant on what is saved *)

(* What SavedInv says of the snapshots, and of the states left behind. *)
SavedGood(sv, d, st, gr, gen) ==
    /\ sv \in [agent : SUBSET Seq(st), nucleus : SUBSET SnapshotSet(d)]
    /\ \A a \in sv.agent : ChainGood(a, d, st, gr) /\ sv.agent = {a}
    /\ \A n \in sv.nucleus : StatusGood(n.status, n.token, d, gen) /\ sv.nucleus = {n} /\ sv.agent # {}

LeftGood(lf, d, st, gr, gen) ==
    \A s \in lf : /\ s \in StateSet(d, st) /\ ChainGood(s.chain, d, st, gr)
                  /\ StatusGood(s.status, s.token, d, gen)

LEMMA SavedParts ==
    SavedInv <=>
        /\ SavedGood(saved, dna, cas, granted, genesis)
        /\ loop = "save_nucleus" => saved.agent = {state.chain}
        /\ LeftGood(left, dna, cas, granted, genesis)
        /\ dropped = {} => left = {}
  BY Zenon DEF SavedInv, SavedGood, LeftGood

LEMMA SavedMore ==
    ASSUME SavedInv, Grow
    PROVE  SavedGood(saved, dna, cas', granted', genesis') /\ LeftGood(left, dna, cas', granted', genesis')
<1>1. cas \subseteq cas' /\ granted \subseteq granted' /\ genesis \subseteq genesis'
  BY Zenon DEF Grow
<1>2. Seq(cas) \subseteq Seq(cas') /\ StateSet(dna, cas) \subseteq StateSet(dna, cas')
  BY Zenon, <1>1, StatesMore
<1>3. \A ch : ChainGood(ch, dna, cas, granted) => ChainGood(ch, dna, cas', granted')
  BY Zenon, <1>1, ChainMore
<1>4. \A s, t : StatusGood(s, t, dna, genesis) => StatusGood(s, t, dna, genesis')
  BY Zenon, <1>1, StatusMore
<1>5. SavedGood(saved, dna, cas', granted', genesis')
  BY Zenon, <1>2, <1>3, <1>4 DEF SavedInv, SavedGood
<1>6. LeftGood(left, dna, cas', granted', genesis')
  BY Zenon, <1>2, <1>3, <1>4 DEF SavedInv, LeftGood
<1> QED
  BY Zenon, <1>5, <1>6

LEMMA SavedNow ==
    ASSUME SavedGood(saved, dna, cas, granted, genesis)', LeftGood(left, dna, cas, granted, genesis)',
           (loop = "save_nucleus" => saved.agent = {state.chain})', (dropped = {} => left = {})'
    PROVE  SavedInv'
  BY Zenon DEF SavedInv, SavedGood, LeftGood

LEMMA SavedSame ==
    ASSUME SavedInv, Grow, saved' = saved, left' = left,
           loop' = "save_nucleus" => loop = "save_nucleus" /\ state'.chain = state.chain
    PROVE  SavedInv'
<1>1. SavedGood(saved, dna, cas', granted', genesis') /\ LeftGood(left, dna, cas', granted', genesis')
  BY Zenon, SavedMore
<1>2. dna' = dna /\ (dropped' = {} => left' = {})
  BY Zenon DEF SavedInv, Grow
<1>3. loop' = "save_nucleus" => saved'.agent = {state'.chain}
  BY Zenon DEF SavedInv
<1> QED
  BY Zenon, <1>1, <1>2, <1>3, SavedNow

(* The initialization leaves the chain to the loop. *)
LEMMA InitFacts ==
    ASSUME NucleusInv, InitThread, ~LoadedPublishFails
    PROVE  /\ UNCHANGED <<dna, cas, saved, left, loop, dropped, faults>> /\ SameChain /\ SameStatus
           /\ pc # "down" /\ pc' # "down"
<1>0. state \in StateSet(dna, cas)
  BY Zenon DEF NucleusInv, StateInv
<1>1. CASE NetworkUp
  BY Zenon, <1>0, <1>1 DEF NetworkUp, StateSet, SameChain, SameStatus, history
<1>2. CASE CommitAgent
  BY Zenon, <1>0, <1>2 DEF CommitAgent, StateSet, SameChain, SameStatus, initUnchanged
<1>3. CASE CommitPublicGrant
  BY Zenon, <1>0, <1>3 DEF CommitPublicGrant, StateSet, SameChain, SameStatus
<1>4. CASE Start
  BY Zenon, <1>4 DEF Start, SameChain, SameStatus
<1>5. CASE CommitDna \/ CommitError \/ NoZomes \/ BeginGenesis \/ PublishError
  BY Zenon, <1>5 DEF CommitDna, CommitError, NoZomes, BeginGenesis, PublishError, SameChain, SameStatus, initUnchanged
<1>6. CASE \E z \in todo, r \in {"Pass", "Fail", "NotImplemented"} : Genesis(z, r)
  BY Zenon, <1>6 DEF Genesis, SameChain, SameStatus, initUnchanged
<1>7. CASE ReturnInitializationResult \/ InitializationDone \/ InitializationError
  BY Zenon, <1>7 DEF ReturnInitializationResult, InitializationDone, InitializationError, SameChain, SameStatus, initUnchanged
<1> QED
  BY Zenon, <1>1, <1>2, <1>3, <1>4, <1>5, <1>6, <1>7 DEF InitThread

LEMMA CallFacts ==
    ASSUME NucleusInv, AnyCall \/ \E c \in Call : CallThread(c)
    PROVE  UNCHANGED <<dna, cas, saved, left, loop, dropped, faults, was, state, pc>>
<1>1. CASE AnyCall
  BY Zenon, <1>1 DEF AnyCall, CallZomeFunction, callUnchanged
<1>2. CASE \E c \in Call : CallThread(c)
  BY Zenon, <1>2 DEF CallThread, CommitCapabilityGrant, CommitReturns, RunDnaReturns, CallReturns, callUnchanged
<1> QED
  BY Zenon, <1>1, <1>2

LEMMA SavedStep ==
    ASSUME NucleusInv, Next
    PROVE  SavedInv'
<1> USE DEF NucleusInv
<1>0. /\ Grow /\ dna' = dna
      /\ SavedGood(saved, dna, cas', granted', genesis') /\ LeftGood(left, dna, cas', granted', genesis')
      /\ dropped = {} => left = {}
  BY Zenon, Grows, SavedMore DEF Grow, SavedInv
<1>1. CASE Load
  <2>1. saved' = saved /\ left' = left /\ loop' = "idle"
    BY Zenon, <1>1 DEF Load, PcInv
  <2> QED
    BY Zenon, <1>0, <2>1, SavedSame
<1>2. CASE LoadFails
  <2>1. saved' = saved /\ left' = left /\ loop' = "idle"
    BY Zenon, <1>2 DEF LoadFails, NewChain, PcInv
  <2> QED
    BY Zenon, <1>0, <2>1, SavedSame
<1>3. CASE LoadedPublishFails
  <2>1. /\ saved' = saved /\ left' \in {{}, {state}} /\ loop' = "idle" /\ dropped' # {}
        /\ UNCHANGED <<cas, granted, genesis>>
    BY Zenon, <1>3 DEF LoadedPublishFails, NewChain
  <2>2. LeftGood(left', dna, cas, granted, genesis)
    BY Zenon, <2>1 DEF LeftGood, StateInv
  <2> QED
    BY Zenon, <1>0, <2>1, <2>2, SavedNow
<1>4. CASE InitThread /\ ~LoadedPublishFails
  BY Zenon, <1>0, <1>4, InitFacts, SavedSame DEF SameChain
<1>5. CASE AnyCall \/ \E c \in Call : CallThread(c)
  BY Zenon, <1>0, <1>5, CallFacts, SavedSame
<1>6. CASE Reduce \/ ReduceFails
  <2>1. saved' = saved /\ left' = left /\ loop' = "save"
    BY Zenon, <1>6 DEF Reduce, ReduceFails, loopUnchanged
  <2> QED
    BY Zenon, <1>0, <2>1, SavedSame
<1>7. CASE SaveSkipped
  <2>1. saved' = saved /\ left' = left /\ loop' = "idle"
    BY Zenon, <1>7 DEF SaveSkipped
  <2> QED
    BY Zenon, <1>0, <2>1, SavedSame
<1>8. CASE SaveAgent
  <2>1. /\ saved' = [saved EXCEPT !.agent = {state.chain}]
        /\ UNCHANGED <<state, cas, left, granted, genesis, dropped>>
    BY Zenon, <1>8 DEF SaveAgent, history
  <2>2. ChainGood(state.chain, dna, cas, granted) /\ state.chain \in Seq(cas)
    BY Zenon DEF StateInv, ChainGood
  <2>3. /\ saved'.agent = {state.chain} /\ saved'.nucleus = saved.nucleus
        /\ saved' \in [agent : SUBSET Seq(cas), nucleus : SUBSET SnapshotSet(dna)]
    BY Zenon, <1>0, <2>1, <2>2 DEF SavedGood
  <2>4. SavedGood(saved', dna, cas, granted, genesis)
    BY Zenon, <1>0, <2>1, <2>2, <2>3 DEF SavedGood
  <2> QED
    BY Zenon, <1>0, <2>1, <2>3, <2>4, SavedNow
<1>9. CASE SaveNucleus
  <2>1. /\ saved' = [saved EXCEPT !.nucleus = {Snapshot(state)}] /\ loop' = "idle"
        /\ loop = "save_nucleus" /\ UNCHANGED <<state, cas, left, granted, genesis, dropped>>
    BY Zenon, <1>9 DEF SaveNucleus, history
  <2> DEFINE n == Snapshot(state)
  <2>2. n \in SnapshotSet(dna) /\ n.status = state.status /\ n.token = state.token
    BY Zenon DEF Snapshot, SnapshotSet, StateInv, StateSet
  <2> HIDE DEF n
  <2>3. StatusGood(n.status, n.token, dna, genesis)
    BY Zenon, <2>2 DEF StateInv
  <2>4. saved.agent = {state.chain}
    BY Zenon, <2>1 DEF SavedInv
  <2>5. /\ saved'.nucleus = {n} /\ saved'.agent = saved.agent
        /\ saved' \in [agent : SUBSET Seq(cas), nucleus : SUBSET SnapshotSet(dna)]
    BY Zenon, <1>0, <2>1, <2>2 DEF SavedGood, n
  <2>6. SavedGood(saved', dna, cas, granted, genesis)
    BY Zenon, <1>0, <2>1, <2>3, <2>4, <2>5 DEF SavedGood
  <2> QED
    BY Zenon, <1>0, <2>1, <2>6, SavedNow
<1>10. CASE SaveLeft
  <2>1. /\ left' = {} /\ UNCHANGED <<state, cas, loop, granted, genesis, dropped>>
    BY Zenon, <1>10 DEF SaveLeft, history
  <2>2. LeftGood({}, dna, cas, granted, genesis)
    BY Zenon DEF LeftGood
  <2>3. CASE loop = "save_nucleus"
    <3>1. saved' = saved /\ saved.agent = {state.chain}
      BY Zenon, <1>10, <2>3 DEF SaveLeft, SavedInv
    <3> QED
      BY Zenon, <1>0, <2>1, <2>2, <3>1, SavedNow
  <2>4. CASE loop # "save_nucleus"
    <3>1. PICK s \in left : saved' = [agent |-> {s.chain}, nucleus |-> {Snapshot(s)}]
      BY Zenon, <1>10, <2>4 DEF SaveLeft
    <3>2. /\ s \in StateSet(dna, cas) /\ ChainGood(s.chain, dna, cas, granted)
          /\ StatusGood(s.status, s.token, dna, genesis)
      BY Zenon DEF SavedInv
    <3> DEFINE n == Snapshot(s)
    <3>3. n \in SnapshotSet(dna) /\ n.status = s.status /\ n.token = s.token /\ s.chain \in Seq(cas)
      BY Zenon, <3>2 DEF Snapshot, SnapshotSet, StateSet
    <3> HIDE DEF n
    <3>4. saved'.agent = {s.chain} /\ saved'.nucleus = {n} /\ saved' = [agent |-> {s.chain}, nucleus |-> {n}]
      BY Zenon, <3>1 DEF n
    <3>5. SavedGood(saved', dna, cas, granted, genesis)
      BY Zenon, <3>2, <3>3, <3>4 DEF SavedGood
    <3> QED
      BY Zenon, <1>0, <2>1, <2>2, <2>4, <3>5, SavedNow
  <2> QED
    BY Zenon, <2>3, <2>4
<1>11. CASE Crash
  <2>1. /\ left' = {} /\ loop' = "idle" /\ saved' = saved /\ UNCHANGED <<cas, granted, genesis, dropped>>
    BY Zenon, <1>11 DEF Crash, history
  <2>2. LeftGood({}, dna, cas, granted, genesis)
    BY Zenon DEF LeftGood
  <2> QED
    BY Zenon, <1>0, <2>1, <2>2, SavedNow
<1> QED
  BY Zenon, <1>1, <1>2, <1>3, <1>4, <1>5, <1>6, <1>7, <1>8, <1>9, <1>10, <1>11 DEF Next, ProcessAction, InitThread

-----------------------------------------------------------------------------
(* Steps keep status and chain together *)

LEMMA ReduceGrows ==
    ASSUME NucleusInv, Reduce \/ ReduceFails
    PROVE  /\ OnChain(state.chain) \subseteq OnChain(state'.chain)
           /\ \/ SameStatus
              \/ state'.status \notin {"New", "Initialized"}
              \/ state'.status = "Initialized" /\ SameChain /\ state.chain = FullChain(dna)
                 /\ state.status = "Initializing" /\ faults' = faults
           /\ SameChain \/ \E e : state'.chain = Append(state.chain, e)
<1>1. LoopStep /\ Reduced /\ state.chain \in Seq(cas)
  BY Zenon, ReduceEffect DEF NucleusInv, StateInv, ChainGood
<1>2. CASE InitializeReduced
  BY Zenon, <1>2 DEF InitializeReduced, SameChain
<1>3. CASE NetworkReduced \/ PublishReduced \/ CallReduced
  BY Zenon, <1>3 DEF NetworkReduced, PublishReduced, CallReduced, SameChain
<1>4. ASSUME NEW ok \in BOOLEAN, ReturnReduced(ok)
      PROVE  /\ SameChain /\ faults' = faults /\ state.status = "Initializing"
             /\ \/ state'.status \notin {"New", "Initialized"}
                \/ state'.status = "Initialized" /\ state.chain = FullChain(dna)
  BY Zenon, <1>4 DEF ReturnReduced, Ending, SameStorage
<1>5. ASSUME NEW by, NEW e, CommitReduced(by, e)
      PROVE  SameStatus /\ (SameChain \/ state'.chain = Append(state.chain, e))
  BY Zenon, <1>5 DEF CommitReduced
<1>6. \A e : OnChain(state.chain) \subseteq OnChain(Append(state.chain, e))
  BY Zenon, <1>1, OnChainAppend
<1> QED
  BY Zenon, <1>1, <1>2, <1>3, <1>4, <1>5, <1>6 DEF Reduced, SameChain

LEMMA MatchStep ==
    ASSUME NucleusInv, Next
    PROVE  MatchInv'
<1> USE DEF NucleusInv
<1> SUFFICES ASSUME ~InitializedDropped'
             PROVE  /\ Match(state'.chain, state'.status, dna')
                    /\ \A s \in left' : s.status # "Initialized"
                    /\ \A n \in saved'.nucleus :
                          /\ \A a \in saved'.agent : Match(a, n.status, dna')
                          /\ pc' # "down" => Match(state'.chain, n.status, dna')
  BY Zenon DEF MatchInv
<1>0. dna' = dna /\ ~InitializedDropped
  BY Zenon, Grows DEF Grow, InitializedDropped
<1>1. /\ Match(state.chain, state.status, dna)
      /\ \A s \in left : s.status # "Initialized"
      /\ \A n \in saved.nucleus :
            /\ \A a \in saved.agent : Match(a, n.status, dna)
            /\ pc # "down" => Match(state.chain, n.status, dna)
  BY Zenon, <1>0 DEF MatchInv
<1>2. CASE Load
  <2>1. PICK a \in saved.agent, n \in saved.nucleus : state' = LoadedState(a, n)
    BY Zenon, <1>2 DEF Load
  <2>2. NewState \in StateSet(dna, cas)
    BY Zenon, NewStateGood
  <2>3. state'.chain = a /\ state'.status = n.status
    BY Zenon, <2>1, <2>2 DEF LoadedState, StateSet
  <2>4. saved' = saved /\ left' = left
    BY Zenon, <1>2 DEF Load
  <2>5. saved.nucleus = {n}
    BY Zenon DEF SavedInv
  <2> QED
    BY Zenon, <1>0, <1>1, <2>3, <2>4, <2>5
<1>3. CASE LoadFails
  <2>1. saved' = saved /\ left' = {} /\ state' = NewState
    BY Zenon, <1>3 DEF LoadFails, NewChain, PcInv
  <2>2. NewState.status = "New" /\ NewState \in StateSet(dna, cas)
    BY Zenon, NewStateGood
  <2>3. \A n \in saved.nucleus : n.status # "Initialized"
    <3> SUFFICES ASSUME NEW n \in saved.nucleus, n.status = "Initialized"
                 PROVE  FALSE
      BY Zenon
    <3>1. PICK a \in saved.agent : a \in Seq(cas)
      BY Zenon DEF SavedInv
    <3>2. DnaEntry \in OnChain(a) /\ AgentEntry \in OnChain(a)
      BY Zenon, <1>1 DEF Match
    <3>3. AgentEntry \in cas
      BY Zenon, <3>1, <3>2, OnChainIn
    <3>4. LoadedState(a, n).dna
      BY Zenon, <2>2, <3>2 DEF LoadedState, StateSet
    <3> QED
      BY Zenon, <1>3, <3>3, <3>4 DEF LoadFails, HasDnaAndAgent
  <2> QED
    BY Zenon, <2>1, <2>2, <2>3 DEF Match
<1>4. CASE LoadedPublishFails
  <2>1. /\ saved' = saved /\ left' \subseteq {state} /\ state' = NewState
        /\ dropped' = dropped \cup {state.status} /\ pc = "load_publish"
    BY Zenon, <1>4 DEF LoadedPublishFails, NewChain
  <2>2. NewState.status = "New"
    BY Zenon, NewStateGood
  <2>3. state.status # "Initialized"
    BY Zenon, <2>1 DEF InitializedDropped
  <2>4. saved.nucleus = {Snapshot(state)}
    BY <2>1 DEF PcInv
  <2>5. \A n \in saved.nucleus : n.status # "Initialized"
    BY <2>3, <2>4 DEF Snapshot
  <2> QED
    BY Zenon, <2>1, <2>2, <2>3, <2>5 DEF Match
<1>5. CASE InitThread /\ ~LoadedPublishFails
  <2>1. saved' = saved /\ left' = left /\ SameChain /\ SameStatus /\ pc # "down"
    BY Zenon, <1>5, InitFacts
  <2> QED
    BY Zenon, <1>0, <1>1, <2>1 DEF SameChain, SameStatus
<1>6. CASE AnyCall \/ \E c \in Call : CallThread(c)
  <2>1. UNCHANGED <<saved, left, state, pc>>
    BY Zenon, <1>6, CallFacts
  <2> QED
    BY Zenon, <1>0, <1>1, <2>1
<1>7. CASE Reduce \/ ReduceFails
  <2>1. saved' = saved /\ left' = left /\ pc' = pc
    BY Zenon, <1>7 DEF Reduce, ReduceFails, loopUnchanged
  <2>2. OnChain(state.chain) \subseteq OnChain(state'.chain)
    BY Zenon, <1>7, ReduceGrows
  <2>3. Match(state'.chain, state'.status, dna)
    <3>1. CASE SameStatus
      BY Zenon, <1>1, <2>2, <3>1 DEF Match, SameStatus
    <3>2. CASE state'.status = "Initialized" /\ SameChain /\ state.chain = FullChain(dna)
      <4>1. {DnaEntry, AgentEntry} \cup FullToken(dna) \subseteq OnChain(state'.chain)
        BY Zenon, <3>2, Chains DEF SameChain
      <4> QED
        BY Zenon, <4>1 DEF Match, FullToken
    <3> QED
      BY Zenon, <1>7, <3>1, <3>2, ReduceGrows DEF Match
  <2>4. pc # "down"
    BY Zenon, <1>7 DEF Reduce, ReduceFails, PcInv
  <2> QED
    BY Zenon, <1>0, <1>1, <2>1, <2>2, <2>3, <2>4 DEF Match
<1>8. CASE SaveAgent
  <2>1. /\ saved' = [saved EXCEPT !.agent = {state.chain}] /\ UNCHANGED <<left, state, pc>> /\ pc # "down"
    BY Zenon, <1>8 DEF SaveAgent, PcInv
  <2>2. saved'.agent = {state.chain} /\ saved'.nucleus = saved.nucleus
    BY Zenon, <2>1 DEF SavedInv
  <2> QED
    BY Zenon, <1>0, <1>1, <2>1, <2>2
<1>9. CASE SaveNucleus
  <2>1. /\ saved' = [saved EXCEPT !.nucleus = {Snapshot(state)}] /\ UNCHANGED <<left, state, pc>>
        /\ loop = "save_nucleus"
    BY Zenon, <1>9 DEF SaveNucleus
  <2>2. saved'.agent = {state.chain} /\ saved'.nucleus = {Snapshot(state)}
    BY Zenon, <2>1 DEF SavedInv
  <2>3. Snapshot(state).status = state.status
    BY Zenon DEF Snapshot
  <2> QED
    BY Zenon, <1>0, <1>1, <2>1, <2>2, <2>3
<1>10. CASE SaveSkipped
  BY Zenon, <1>0, <1>1, <1>10 DEF SaveSkipped
<1>11. CASE SaveLeft
  <2>1. UNCHANGED <<state, pc>> /\ left' = {}
    BY Zenon, <1>11 DEF SaveLeft
  <2>2. CASE saved' = saved
    BY Zenon, <1>0, <1>1, <2>1, <2>2
  <2>3. ASSUME NEW s \in left, saved' = [agent |-> {s.chain}, nucleus |-> {Snapshot(s)}]
        PROVE  \A n \in saved'.nucleus : n.status # "Initialized"
    BY <1>1, <2>3 DEF Snapshot
  <2> QED
    BY Zenon, <1>0, <1>1, <1>11, <2>1, <2>2, <2>3 DEF SaveLeft, Match
<1>12. CASE Crash
  <2>1. saved' = saved /\ left' = {} /\ state' = NewState /\ pc' = "down"
    BY Zenon, <1>12 DEF Crash
  <2>2. NewState.status = "New"
    BY Zenon, NewStateGood
  <2> QED
    BY Zenon, <1>0, <1>1, <2>1, <2>2 DEF Match
<1> QED
  BY Zenon, <1>2, <1>3, <1>4, <1>5, <1>6, <1>7, <1>8, <1>9, <1>10, <1>11, <1>12 DEF Next, ProcessAction, InitThread

-----------------------------------------------------------------------------
(* Steps keep what is saved of a chain in use *)

LEMMA PrefixOnChain ==
    ASSUME NEW S, NEW a \in Seq(S), NEW ch \in Seq(S), Begins(a, ch)
    PROVE  OnChain(a) \subseteq OnChain(ch)
<1>1. /\ Len(a) \in Nat /\ Len(ch) \in Nat /\ Len(a) <= Len(ch)
      /\ \A i \in 1 .. Len(a) : a[i] = ch[i]
  BY DEF Begins
<1> QED
  BY <1>1, OnChainIn

(* No fault yet, and no load given up. *)
Clean(f, dr) == f = 0 /\ dr = {}

(* Faults and given up loads are never forgotten. *)
LEMMA CleanBefore ==
    ASSUME NucleusInv, Next, Clean(faults', dropped')
    PROVE  Clean(faults, dropped) /\ ~InitializedDropped
<1>1. faults \in Nat /\ dropped \subseteq dropped'
  BY Zenon, Grows DEF NucleusInv, StateInv, Grow
<1>2. faults' \in {faults, faults + 1}
  <2>1. CASE Load \/ LoadFails \/ LoadedPublishFails \/ SaveLeft \/ Crash
    BY Zenon, <2>1 DEF Load, LoadFails, LoadedPublishFails, NewChain, SaveLeft, Crash
  <2>2. CASE InitThread /\ ~LoadedPublishFails
    BY Zenon, <2>2, InitFacts
  <2>3. CASE AnyCall \/ \E c \in Call : CallThread(c)
    BY Zenon, <2>3, CallFacts
  <2>4. CASE Reduce \/ ReduceFails
    BY Zenon, <2>4 DEF Reduce, ReduceFails
  <2>5. CASE SaveAgent \/ SaveNucleus \/ SaveSkipped
    BY Zenon, <2>5 DEF SaveAgent, SaveNucleus, SaveSkipped
  <2> QED
    BY Zenon, <2>1, <2>2, <2>3, <2>4, <2>5 DEF Next, ProcessAction
<1> QED
  BY <1>1, <1>2 DEF InitializedDropped, Clean

LEMMA KeptStep ==
    ASSUME NucleusInv, Next
    PROVE  KeptInv'
<1> USE DEF NucleusInv
<1> SUFFICES ASSUME Clean(faults', dropped')
             PROVE  /\ pc' # "down" /\ loop' = "idle" /\ state'.status # "New" =>
                          saved'.agent = {state'.chain} /\ saved'.nucleus # {}
                    /\ was' \/ (pc' # "down" /\ state'.status = "Initialized") =>
                          /\ saved'.nucleus # {}
                          /\ \A a \in saved'.agent :
                                /\ DnaEntry \in OnChain(a) /\ AgentEntry \in OnChain(a)
                                /\ pc' # "down" => Begins(a, state'.chain)
  BY Zenon DEF KeptInv, Clean
<1>0. Clean(faults, dropped) /\ ~InitializedDropped /\ left = {}
  BY Zenon, CleanBefore DEF SavedInv, Clean
<1>1. /\ pc # "down" /\ loop = "idle" /\ state.status # "New" =>
            saved.agent = {state.chain} /\ saved.nucleus # {}
      /\ was \/ (pc # "down" /\ state.status = "Initialized") =>
            /\ saved.nucleus # {}
            /\ \A a \in saved.agent :
                  /\ DnaEntry \in OnChain(a) /\ AgentEntry \in OnChain(a)
                  /\ pc # "down" => Begins(a, state.chain)
  BY Zenon, <1>0 DEF KeptInv, Clean
<1>2. /\ state.chain \in Seq(cas) /\ \A a \in saved.agent : a \in Seq(cas) /\ saved.agent = {a}
      /\ saved.nucleus # {} => saved.agent # {}
  BY Zenon DEF StateInv, ChainGood, SavedInv
<1>3. CASE Load
  <2>1. PICK a \in saved.agent, n \in saved.nucleus : state' = LoadedState(a, n)
    BY Zenon, <1>3 DEF Load
  <2>2. NewState \in StateSet(dna, cas)
    BY Zenon, NewStateGood
  <2>3. state'.chain = a /\ state'.status = n.status
    BY Zenon, <2>1, <2>2 DEF LoadedState, StateSet
  <2>4. saved' = saved /\ was' = was /\ saved.agent = {a} /\ a \in Seq(cas)
    BY Zenon, <1>2, <1>3 DEF Load, history
  <2>5. Begins(a, a)
    BY Zenon, <2>4, PrefixSelf
  <2>6. n.status = "Initialized" => DnaEntry \in OnChain(a) /\ AgentEntry \in OnChain(a)
    BY Zenon, <1>0 DEF MatchInv, Match
  <2> QED
    BY Zenon, <1>1, <2>3, <2>4, <2>5, <2>6
<1>4. CASE LoadFails
  <2>1. saved' = saved /\ was' = was /\ state' = NewState
    BY Zenon, <1>4 DEF LoadFails, NewChain
  <2>2. NewState.status = "New" /\ NewState \in StateSet(dna, cas)
    BY Zenon, NewStateGood
  <2>3. ~was
    <3> SUFFICES ASSUME was
                 PROVE  FALSE
      BY Zenon
    <3>1. PICK a \in saved.agent, n \in saved.nucleus :
              a \in Seq(cas) /\ DnaEntry \in OnChain(a) /\ AgentEntry \in OnChain(a)
      BY Zenon, <1>1, <1>2
    <3>2. AgentEntry \in cas
      BY Zenon, <3>1, OnChainIn
    <3>3. LoadedState(a, n).dna
      BY Zenon, <2>2, <3>1 DEF LoadedState, StateSet
    <3> QED
      BY Zenon, <1>4, <3>2, <3>3 DEF LoadFails, HasDnaAndAgent
  <2> QED
    BY Zenon, <2>1, <2>2, <2>3
<1>5. CASE LoadedPublishFails
  BY Zenon, <1>5 DEF LoadedPublishFails, Clean
<1>6. CASE Start
  <2>1. UNCHANGED <<saved, state, loop>> /\ pc \in {"load_publish", "new_publish"} /\ Answer = "ok"
    BY Zenon, <1>6 DEF Start, Answer
  <2>2. CASE state.status = "Initialized"
    BY Zenon, <1>1, <2>1, <2>2
  <2>3. CASE state.status # "Initialized"
    <3>1. pc = "load_publish"
      BY Zenon, <2>1, <2>3 DEF PcInv
    <3>2. /\ saved.agent = {state.chain} /\ saved.nucleus # {}
          /\ DnaEntry \in OnChain(state.chain) /\ AgentEntry \in OnChain(state.chain)
      BY <2>1, <3>1 DEF PcInv
    <3>3. Begins(state.chain, state.chain)
      BY Zenon, <1>2, PrefixSelf
    <3> QED
      BY Zenon, <2>1, <3>2, <3>3
  <2> QED
    BY Zenon, <2>2, <2>3
<1>7. CASE InitThread /\ ~LoadedPublishFails /\ ~Start
  <2>1. saved' = saved /\ loop' = loop /\ SameChain /\ SameStatus /\ pc # "down"
    BY Zenon, <1>7, InitFacts
  <2>2. was' = was
    <3>1. CASE NetworkUp \/ CommitPublicGrant
      BY Zenon, <3>1 DEF NetworkUp, CommitPublicGrant, history
    <3>2. CASE CommitDna \/ CommitAgent \/ CommitError \/ NoZomes \/ BeginGenesis \/ PublishError
      BY Zenon, <3>2 DEF CommitDna, CommitAgent, CommitError, NoZomes, BeginGenesis, PublishError, initUnchanged
    <3>3. CASE \E z \in todo, r \in {"Pass", "Fail", "NotImplemented"} : Genesis(z, r)
      BY Zenon, <3>3 DEF Genesis, initUnchanged
    <3>4. CASE ReturnInitializationResult \/ InitializationDone \/ InitializationError
      BY Zenon, <3>4 DEF ReturnInitializationResult, InitializationDone, InitializationError, initUnchanged
    <3> QED
      BY Zenon, <1>7, <3>1, <3>2, <3>3, <3>4 DEF InitThread
  <2> QED
    BY Zenon, <1>1, <2>1, <2>2 DEF SameChain, SameStatus
<1>8. CASE AnyCall \/ \E c \in Call : CallThread(c)
  <2>1. UNCHANGED <<saved, loop, was, state, pc>>
    BY Zenon, <1>8, CallFacts
  <2> QED
    BY Zenon, <1>1, <2>1
<1>9. CASE Reduce \/ ReduceFails
  <2>1. saved' = saved /\ loop' = "save" /\ loop = "idle" /\ pc' = pc /\ was' = was
    BY Zenon, <1>9 DEF Reduce, ReduceFails, loopUnchanged, history
  <2>2. pc # "down"
    BY Zenon, <1>9 DEF Reduce, ReduceFails, PcInv
  <2>3. \A a \in saved.agent : Begins(a, state.chain) => Begins(a, state'.chain)
    <3>1. state'.chain = state.chain \/ \E e : state'.chain = Append(state.chain, e)
      BY Zenon, <1>9, ReduceGrows DEF SameChain
    <3>2. \A a \in saved.agent : \A e :
               Begins(a, state.chain) => Begins(a, Append(state.chain, e))
      BY Zenon, <1>2, PrefixAppend
    <3> QED
      BY Zenon, <3>1, <3>2
  <2>4. CASE was \/ state.status = "Initialized"
    BY Zenon, <1>1, <2>1, <2>2, <2>3, <2>4
  <2>5. CASE ~was /\ state.status # "Initialized"
    <3>1. CASE state'.status # "Initialized"
      BY Zenon, <2>1, <2>5, <3>1
    <3>2. CASE state'.status = "Initialized"
      <4>1. SameChain /\ state.chain = FullChain(dna) /\ state.status = "Initializing"
        BY Zenon, <1>9, <2>5, <3>2, ReduceGrows DEF SameStatus
      <4>2. saved.agent = {state.chain} /\ saved.nucleus # {}
        BY Zenon, <1>1, <2>1, <2>2, <4>1
      <4>3. DnaEntry \in OnChain(state.chain) /\ AgentEntry \in OnChain(state.chain)
        BY Zenon, <4>1, Chains
      <4>4. Begins(state.chain, state.chain)
        BY Zenon, <1>2, PrefixSelf
      <4> QED
        BY Zenon, <2>1, <2>3, <4>2, <4>3, <4>4
    <3> QED
      BY Zenon, <3>1, <3>2
  <2> QED
    BY Zenon, <2>4, <2>5
<1>10. CASE SaveAgent
  <2>1. /\ saved' = [saved EXCEPT !.agent = {state.chain}] /\ UNCHANGED <<state, pc, was>> /\ pc # "down"
        /\ loop' = "save_nucleus"
    BY Zenon, <1>10 DEF SaveAgent, PcInv, history
  <2>2. saved'.agent = {state.chain} /\ saved'.nucleus = saved.nucleus
    BY Zenon, <2>1 DEF SavedInv
  <2>3. was \/ state.status = "Initialized" =>
            DnaEntry \in OnChain(state.chain) /\ AgentEntry \in OnChain(state.chain)
    BY Zenon, <1>1, <1>2, <2>1, PrefixOnChain
  <2>4. Begins(state.chain, state.chain)
    BY Zenon, <1>2, PrefixSelf
  <2> QED
    BY Zenon, <1>1, <2>1, <2>2, <2>3, <2>4
<1>11. CASE SaveNucleus
  <2>1. /\ saved' = [saved EXCEPT !.nucleus = {Snapshot(state)}] /\ UNCHANGED <<state, pc, was>>
        /\ loop = "save_nucleus"
    BY Zenon, <1>11 DEF SaveNucleus, history
  <2>2. saved'.agent = saved.agent /\ saved.agent = {state.chain} /\ saved'.nucleus # {}
    BY Zenon, <2>1 DEF SavedInv
  <2> QED
    BY Zenon, <1>1, <2>1, <2>2
<1>12. CASE SaveSkipped
  BY <1>0, <1>12 DEF SaveSkipped, Clean
<1>13. CASE SaveLeft
  BY Zenon, <1>0, <1>13 DEF SaveLeft
<1>14. CASE Crash
  <2>1. saved' = saved /\ was' = was /\ pc' = "down"
    BY Zenon, <1>14 DEF Crash, history
  <2> QED
    BY Zenon, <1>1, <2>1
<1> QED
  BY Zenon, <1>3, <1>4, <1>5, <1>6, <1>7, <1>8, <1>9, <1>10, <1>11, <1>12, <1>13, <1>14
  DEF Next, ProcessAction


-----------------------------------------------------------------------------
(* The invariant *)

LEMMA InvInit == Init => NucleusInv
<1> SUFFICES ASSUME Init
             PROVE  NucleusInv
  BY Zenon
<1>1. /\ NewState \in StateSet(dna, cas) /\ ChainGood(NewState.chain, dna, cas, granted)
      /\ StatusGood(NewState.status, NewState.token, dna, genesis)
      /\ NewState.status = "New" /\ NewState.zome_calls = {}
  BY Zenon, NewStateGood
<1>2. StateInv
  BY Zenon, <1>1 DEF Init, StateInv
<1>3. CallInv
  <2>1. NoCall \in CallSet(dna, cas) /\ NoCall.pc = "none" /\ NoCall.result = {}
    BY Zenon, MeAssumption DEF NoCall, CallSet
  <2>2. calls = [c \in Call |-> NoCall]
    BY Zenon DEF Init
  <2>3. \A c \in Call : calls[c] = NoCall
    BY Zenon, <2>2
  <2>4. calls \in [Call -> CallSet(dna, cas)]
    BY Zenon, <2>1, <2>2
  <2>5. CallsCovered /\ OwnResult /\ Unlocked
    BY Zenon, <2>1, <2>3 DEF CallsCovered, OwnResult, Unlocked
  <2> QED
    BY Zenon, <2>4, <2>5 DEF CallInv, CallSet
<1>4. PcInv
  BY Zenon DEF Init, PcInv
<1>5. SavedInv
  BY Zenon DEF Init, SavedInv
<1>6. MatchInv
  BY Zenon, <1>1 DEF Init, MatchInv, Match
<1>7. KeptInv
  BY Zenon DEF Init, KeptInv
<1> QED
  BY Zenon, <1>2, <1>3, <1>4, <1>5, <1>6, <1>7 DEF NucleusInv

LEMMA InvStep == NucleusInv /\ [Next]_vars => NucleusInv'
<1>1. ASSUME NucleusInv, Next
      PROVE  NucleusInv'
  BY Zenon, <1>1, StateStep, CallStep, PcStep, SavedStep, MatchStep, KeptStep DEF NucleusInv
<1>2. ASSUME NucleusInv, UNCHANGED vars
      PROVE  NucleusInv'
  <2>1. /\ dna' = dna /\ state' = state /\ cas' = cas /\ saved' = saved /\ queue' = queue
        /\ loop' = loop /\ left' = left /\ pc' = pc /\ todo' = todo /\ failed' = failed
        /\ calls' = calls /\ granted' = granted /\ genesis' = genesis /\ was' = was
        /\ dropped' = dropped /\ faults' = faults
    BY Zenon, <1>2 DEF vars, history
  <2>2. StateInv'
    BY Zenon, <1>2, <2>1 DEF NucleusInv, StateInv
  <2>3. CallInv'
    BY <1>2, <2>1 DEF NucleusInv, CallInv, CallsCovered, OwnResult, Unlocked
  <2>4. PcInv'
    <3>1. PcInv /\ Grow
      BY Zenon, <1>2, <2>1 DEF NucleusInv, Grow
    <3> QED
      BY Zenon, <2>1, <3>1, PcSame
  <2>5. SavedInv'
    BY Zenon, <1>2, <2>1 DEF NucleusInv, SavedInv
  <2>6. MatchInv'
    BY Zenon, <1>2, <2>1 DEF NucleusInv, MatchInv, InitializedDropped
  <2>7. KeptInv'
    BY Zenon, <1>2, <2>1 DEF NucleusInv, KeptInv
  <2> QED
    BY Zenon, <2>2, <2>3, <2>4, <2>5, <2>6, <2>7 DEF NucleusInv
<1> QED
  BY Zenon, <1>1, <1>2

LEMMA Invariant == Spec => []NucleusInv
  BY InvInit, InvStep, PTL DEF Spec

-----------------------------------------------------------------------------
(* Theorems *)

(* The state of an instance (NucleusState, AgentState) and its snapshots   *)
(* have their types: there is at most one public token and one snapshot of *)
(* each kind, and what is on the chain is in the content storage.          *)
THEOREM TypeCorrect == Spec => []TypeOK
<1>1. ASSUME NucleusInv
      PROVE  TypeOK
  <2>1. AtMostOne(state.token)
    BY Zenon, <1>1 DEF NucleusInv, StateInv, StatusGood, FullToken, AtMostOne
  <2>2. AtMostOne(saved.agent) /\ AtMostOne(saved.nucleus)
    BY Zenon, <1>1 DEF NucleusInv, SavedInv, AtMostOne
  <2>3. OnChain(state.chain) \subseteq cas
    BY Zenon, <1>1, OnChainIn DEF NucleusInv, StateInv, ChainGood
  <2>4. /\ dna \in Dnas /\ state.status \in Status /\ todo \subseteq dna.zomes
        /\ loop \in {"idle", "save", "save_nucleus"}
    BY Zenon, <1>1 DEF NucleusInv, StateInv, StatusGood
  <2>5. \A n \in saved.nucleus : n.status \in Status
    BY Zenon, <1>1 DEF NucleusInv, SavedInv, StatusGood
  <2> QED
    BY Zenon, <2>1, <2>2, <2>3, <2>4, <2>5 DEF TypeOK
<1> QED
  BY <1>1, Invariant, PTL

(* What is Initialized, in memory or saved, ran the genesis callback of    *)
(* every zome without failure (initialize_chain, and                        *)
(* reduce_return_initialization_result), through any crashes and loads.    *)
THEOREM GenesisAlwaysRan == Spec => []InitializedRanGenesis
<1>1. ASSUME NucleusInv
      PROVE  InitializedRanGenesis
  <2>1. state.status = "Initialized" => GenesisDone(dna, genesis)
    BY Zenon, <1>1 DEF NucleusInv, StateInv, StatusGood
  <2>2. \A n \in saved.nucleus : n.status = "Initialized" => GenesisDone(dna, genesis)
    BY Zenon, <1>1 DEF NucleusInv, SavedInv, StatusGood
  <2> QED
    BY Zenon, <2>1, <2>2 DEF InitializedRanGenesis, GenesisDone
<1> QED
  BY <1>1, Invariant, PTL

(* The public token of the saved nucleus is a grant on the saved chain,    *)
(* whichever of the two snapshots SimplePersister::save has written when   *)
(* the process stops, unless the load of an Initialized chain was given up.*)
THEOREM SnapshotsFit == Spec => []SavedTokenOnChain
<1>1. ASSUME NucleusInv
      PROVE  SavedTokenOnChain
  <2> SUFFICES ASSUME ~InitializedDropped, NEW n \in saved.nucleus, NEW a \in saved.agent
               PROVE  n.token \subseteq OnChain(a)
    BY Zenon DEF SavedTokenOnChain
  <2>1. n.token = IF n.status = "Initialized" THEN FullToken(dna) ELSE {}
    BY Zenon, <1>1 DEF NucleusInv, SavedInv, StatusGood
  <2>2. Match(a, n.status, dna)
    BY Zenon, <1>1 DEF NucleusInv, MatchInv
  <2> QED
    BY Zenon, <2>1, <2>2 DEF Match, FullToken
<1> QED
  BY <1>1, Invariant, PTL

(* On an active Initialized instance Context::get_public_token finds one   *)
(* token, and with it validate_call lets every public function of the DNA  *)
(* be called, before and after restarts and whatever else zome code has    *)
(* granted, with the same exception.                                       *)
THEOREM PublicFunctionsWork == Spec => []PublicCallsWork
<1>1. ASSUME NucleusInv
      PROVE  PublicCallsWork
  <2> DEFINE G == PublicGrant(dna)
  <2> SUFFICES ASSUME pc = "active", state.status = "Initialized", dna.public # {}, ~InitializedDropped
               PROVE  /\ PublicToken # {} /\ AtMostOne(PublicToken)
                      /\ \A fn \in dna.public \cap dna.fns : ValidateCall(PublicToken, fn, Me, TRUE)
    BY Zenon DEF PublicCallsWork
  <2>1. /\ state.chain \in Seq(cas)
        /\ \A i \in 1 .. Len(state.chain) : EntryGood(state.chain[i], dna, granted)
        /\ \A i, j \in 1 .. Len(state.chain) : state.chain[i] = G /\ state.chain[j] = G => i = j
        /\ OnChain(state.chain) = {state.chain[i] : i \in 1 .. Len(state.chain)}
    BY <1>1, OnChainIn DEF NucleusInv, StateInv, ChainGood
  <2>2. G.kind = "grant" /\ G.id = "hc_public" /\ CapType(G) = "Public" /\ G.fns = dna.public
    BY Zenon, PublicFacts DEF PublicGrant
  <2>3. G \in OnChain(state.chain)
    BY Zenon, <1>1 DEF NucleusInv, MatchInv, Match
  <2> HIDE DEF G
  <2>4. \A e : EntryGood(e, dna, granted) /\ e.kind = "grant" /\ e.id = "hc_public" => e = G
    BY Kinds DEF EntryGood, G
  <2>5. PublicToken \subseteq {G}
    BY <2>1, <2>4 DEF PublicToken
  <2>6. G \in PublicToken
    <3>1. PICK i \in 1 .. Len(state.chain) : state.chain[i] = G
      BY Zenon, <2>1, <2>3
    <3>2. \A j \in i + 1 .. Len(state.chain) :
              state.chain[j].kind = "grant" => state.chain[j].id # "hc_public"
      BY <2>1, <2>4, <3>1
    <3>3. DOMAIN state.chain = 1 .. Len(state.chain)
      BY <2>1
    <3> QED
      BY Zenon, <2>2, <2>3, <3>1, <3>2, <3>3 DEF PublicToken
  <2>7. PublicToken = {G}
    BY Zenon, <2>5, <2>6
  <2>8. PublicToken # {} /\ AtMostOne(PublicToken)
    BY Zenon, <2>7 DEF AtMostOne
  <2>9. state.dna
    BY Zenon, <1>1 DEF NucleusInv, PcInv
  <2>10. G \in GetGrant({G})
    BY Zenon, <2>2, <2>3 DEF GetGrant
  <2>11. \A fn \in dna.public : VerifyGrant(G, fn, Me, TRUE)
    BY Zenon, <2>2 DEF VerifyGrant
  <2> QED
    BY Zenon, <2>7, <2>8, <2>9, <2>10, <2>11 DEF ValidateCall, CheckCapability
<1> QED
  BY <1>1, Invariant, PTL

(* validate_call lets a call run only for the agent itself or under a      *)
(* grant that is on the chain and was asked for, for this function and     *)
(* this caller; a grant's type, told only from its assignees, is the one   *)
(* asked for (CapTokenGrant::create, cap_type).                            *)
THEOREM CallsAlwaysCovered == Spec => []CallsCovered
<1>1. NucleusInv => CallsCovered
  BY Zenon DEF NucleusInv, CallInv
<1> QED
  BY <1>1, Invariant, PTL

(* call_zome_function returns the result of its own call.                  *)
THEOREM ResultsAreOwn == Spec => []OwnResult
<1>1. NucleusInv => OwnResult
  BY Zenon DEF NucleusInv, CallInv
<1> QED
  BY <1>1, Invariant, PTL

(* Without faults and given up loads, neither a step nor a restart of an   *)
(* instance that was active takes entries from its saved chain: the        *)
(* conductor's fallback from Holochain::load to Holochain::new does not    *)
(* replace a chain in use.                                                 *)
THEOREM ChainInUseKept == Spec => ChainKept
<1> DEFINE A == was /\ faults' = 0 /\ dropped' = {} =>
                  \A a \in saved.agent : \E b \in saved'.agent : Begins(a, b)
<1>1. NucleusInv /\ [Next]_vars => [A]_vars
  <2> SUFFICES ASSUME NucleusInv, Next, was, Clean(faults', dropped'), NEW a \in saved.agent
               PROVE  \E b \in saved'.agent : Begins(a, b)
    BY Zenon DEF Clean
  <2> USE DEF NucleusInv
  <2>1. Clean(faults, dropped) /\ left = {}
    BY Zenon, CleanBefore DEF SavedInv, Clean
  <2>2. pc # "down" => Begins(a, state.chain)
    BY Zenon, <2>1 DEF KeptInv, Clean
  <2>3. Begins(a, a)
    BY Zenon, PrefixSelf DEF SavedInv
  <2>4. CASE SaveAgent
    <3>1. saved'.agent = {state.chain} /\ pc # "down"
      BY Zenon, <2>4 DEF SaveAgent, PcInv, SavedInv
    <3> QED
      BY Zenon, <2>2, <3>1
  <2>5. CASE SaveNucleus
    <3>1. saved'.agent = saved.agent
      BY Zenon, <2>5 DEF SaveNucleus, SavedInv
    <3> QED
      BY Zenon, <2>3, <3>1
  <2>6. CASE SaveLeft
    BY Zenon, <2>1, <2>6 DEF SaveLeft
  <2>7. CASE saved' = saved
    BY Zenon, <2>3, <2>7
  <2>8. CASE Load \/ LoadFails \/ LoadedPublishFails \/ Crash
    BY Zenon, <2>7, <2>8 DEF Load, LoadFails, LoadedPublishFails, NewChain, Crash
  <2>9. CASE InitThread /\ ~LoadedPublishFails
    BY Zenon, <2>7, <2>9, InitFacts
  <2>10. CASE AnyCall \/ \E c \in Call : CallThread(c)
    BY Zenon, <2>7, <2>10, CallFacts
  <2>11. CASE Reduce \/ ReduceFails \/ SaveSkipped
    BY Zenon, <2>7, <2>11 DEF Reduce, ReduceFails, SaveSkipped, loopUnchanged
  <2> QED
    BY Zenon, <2>4, <2>5, <2>6, <2>8, <2>9, <2>10, <2>11 DEF Next, ProcessAction
<1>2. ChainKept <=> [][A]_vars
  BY Zenon DEF ChainKept
<1> QED
  BY <1>1, <1>2, Invariant, PTL DEF Spec


=============================================================================
