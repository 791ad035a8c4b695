----------------------------- MODULE Authoring -----------------------------
(***************************************************************************)
(* Zome calls of one instance that author and read entries, each in a      *)
(* thread of its own: invoke_commit_app_entry, invoke_update_entry,        *)
(* invoke_remove_entry, invoke_link_entries, invoke_remove_link,           *)
(* invoke_get_entry, invoke_get_links and the capability functions, with   *)
(* the workflows author_entry, get_entry_result_workflow and               *)
(* get_link_result_workflow behind them, down to the actions Commit and    *)
(* Publish that the instance reduces one at a time.                        *)
(*                                                                         *)
(* What is published comes back from the network to the author's own node  *)
(* as messages that are held in any order (HoldWorkflow models how a node  *)
(* holds; here a message that is valid is reduced in one step).  The other *)
(* nodes hold nothing this node does not: the network's answer to a get is *)
(* "nothing", or a timeout.                                                *)
(***************************************************************************)
EXTENDS Naturals, Sequences, FiniteSets

CONSTANTS
    App,       \* contents of a public entry type of the DNA
    Private,   \* contents of a private one
    Unknown,   \* contents of a type the DNA does not define
    Before,    \* contents committed and held before the calls, in order
    Rejected,  \* entries the zome's validation callback rejects
    LinkDef,   \* pairs <<base, target>> the DNA has a link definition for
    Pair,      \* pairs that zomes try to link
    Caller,    \* zome calls that can be under way together
    MaxCalls,  \* bound: zome calls in all
    MaxFail    \* bound: failures of the network

VARIABLES
    chain,     \* headers of the source chain, oldest first
    status,    \* crud-status of what the local shard holds
    crud,      \* entries that the crud-links of a content name
    links,     \* pairs whose link is live in the local shard
    wire,      \* published messages that this node has not held yet
    calls,     \* the zome calls
    count,     \* bound: calls begun
    fails      \* bound: failures so far

vars == <<chain, status, crud, links, wire, calls, count, fails>>
shard == <<status, crud, links>>

Content == App \cup Private \cup Unknown

(* Entries: contents of app entry types, and the system entries that speak *)
(* of them.  An entry stands for its address.                              *)
Of(type, of) == [type |-> type, of |-> of]
AppEntry(c) == Of("app", <<c>>)
Deletion(c) == Of("deletion", <<c>>)
LinkAdd(p) == Of("link_add", p)
LinkRemove(p) == Of("link_remove", p)
Grant == Of("cap", <<>>)
AnyEntry ==
    {AppEntry(c) : c \in Content} \cup {Deletion(c) : c \in Content}
        \cup {LinkAdd(p) : p \in Pair} \cup {LinkRemove(p) : p \in Pair} \cup {Grant}

Entries == {chain[i].entry : i \in DOMAIN chain}

(* can_publish *)
can_publish(e) == e.type # "cap" /\ (e.type = "app" => e.of[1] \in App)

(* find_chain_header: from the top, so the newest header of the entry. *)
find_chain_header(e) ==
    LET I == {i \in DOMAIN chain : chain[i].entry = e}
    IN  {i \in I : \A j \in I : j <= i}

-----------------------------------------------------------------------------
(* A call: the function, where it is, the look-ups it has yet to do and    *)
(* what the ones it did found, the entry it authors with the address it    *)
(* updates or deletes, and its answer.                                     *)
Idle == [fn |-> "none", stage |-> "idle", todo |-> <<>>, got |-> <<>>, entry |-> Grant,
         link |-> {}, answer |-> "none", gone |-> {}]

Deleted == {c \in Content : status[AppEntry(c)] = "deleted"}

Init ==
    /\ chain = [i \in DOMAIN Before |-> [entry |-> AppEntry(Before[i]), link |-> {}]]
    /\ status = [e \in AnyEntry |-> IF e \in Entries THEN "live" ELSE "none"]
    /\ crud = [c \in Content |-> {}]
    /\ links = {} /\ wire = {}
    /\ calls = [t \in Caller |-> Idle]
    /\ count = 0 /\ fails = 0

(* The zome calls an API function: load_json_string_from_args and the      *)
(* entry the function builds from the arguments.                           *)
Begin(t, call) ==
    /\ calls[t].stage \in {"idle", "done"}
    /\ count < MaxCalls
    /\ count' = count + 1
    /\ calls' = [calls EXCEPT ![t] = [call EXCEPT !.gone = Deleted]]
    /\ UNCHANGED <<chain, shard, wire, fails>>

invoke_commit_app_entry(t, c) ==
    Begin(t, [Idle EXCEPT !.fn = "commit", !.stage = "package", !.entry = AppEntry(c)])

invoke_update_entry(t, c, new) ==
    Begin(t, [Idle EXCEPT !.fn = "update", !.stage = "latest", !.todo = <<c>>, !.entry = AppEntry(new)])

invoke_remove_entry(t, c) ==
    Begin(t, [Idle EXCEPT !.fn = "remove", !.stage = "latest", !.todo = <<c>>])

invoke_link_entries(t, p) ==
    Begin(t, [Idle EXCEPT !.fn = "link", !.stage = "package", !.entry = LinkAdd(p)])

invoke_remove_link(t, p) ==
    Begin(t, [Idle EXCEPT !.fn = "unlink", !.stage = "package", !.entry = LinkRemove(p)])

invoke_get_entry(t, c) ==
    Begin(t, [Idle EXCEPT !.fn = "get", !.stage = "found", !.todo = <<c>>])

invoke_commit_capability_grant(t) ==
    Begin(t, [Idle EXCEPT !.fn = "grant", !.stage = "commit", !.entry = Grant])

-----------------------------------------------------------------------------
(* get_entry_result_workflow with the default options, StatusRequestKind:: *)
(* Latest, one turn of its loop a step.                                    *)

Becomes(t, call) == calls' = [calls EXCEPT ![t] = call]

Answered(t, call, answer) ==
    Becomes(t, [Idle EXCEPT !.fn = call.fn, !.stage = "done", !.answer = answer])

(* The content that the one crud-link of c names. *)
Linked(c) == (CHOOSE e \in crud[c] : TRUE).of[1]

(* The look-up ends, with the entry found if there is one. *)
LookedUp(t, found) ==
    Becomes(t, [calls[t] EXCEPT !.todo = Tail(@), !.got = Append(@, found)])

(* Found locally: the assertion on the crud-links panics, a deleted entry  *)
(* clears the result, a crud-link is followed, and else this is the latest.*)
Walk(t) ==
    LET call == calls[t] c == Head(call.todo) e == AppEntry(c) IN
    /\ call.todo # <<>>
    /\ status[e] # "none"
    /\ IF Cardinality(crud[c]) > 1 THEN Answered(t, call, "panic")
       ELSE IF status[e] = "deleted" THEN LookedUp(t, {})
       ELSE IF crud[c] # {}
          THEN Becomes(t, [call EXCEPT !.todo = <<Linked(c)>> \o Tail(@)])
       ELSE LookedUp(t, {c})
    /\ UNCHANGED <<chain, shard, wire, count, fails>>

(* Not found locally: the network has nothing either. *)
WalkNetwork(t) ==
    /\ calls[t].todo # <<>>
    /\ status[AppEntry(Head(calls[t].todo))] = "none"
    /\ LookedUp(t, {})
    /\ UNCHANGED <<chain, shard, wire, count, fails>>

(* Or it does not answer in time. *)
WalkTimeout(t) ==
    /\ calls[t].todo # <<>>
    /\ status[AppEntry(Head(calls[t].todo))] = "none"
    /\ fails < MaxFail /\ fails' = fails + 1
    /\ Answered(t, calls[t], IF calls[t].fn \in {"update", "remove"} THEN "WorkflowFailed" ELSE "Err")
    /\ UNCHANGED <<chain, shard, wire, count>>

-----------------------------------------------------------------------------
(* What the functions do with the look-ups.                                *)

AtStage(t, stage) == calls[t].stage = stage /\ calls[t].todo = <<>>

(* invoke_get_entry stores the result. *)
Found(t) ==
    /\ AtStage(t, "found")
    /\ Answered(t, calls[t], "Ok")
    /\ UNCHANGED <<chain, shard, wire, count, fails>>

(* invoke_update_entry and invoke_remove_entry author over the latest: the *)
(* new entry, or one that says what is deleted.                            *)
Latest(t, fn, Authored(_)) ==
    LET call == calls[t] IN
    /\ AtStage(t, "latest") /\ call.fn = fn
    /\ IF call.got[1] = {} THEN Answered(t, call, "EntryNotFound")
       ELSE \E c \in call.got[1] :
                Becomes(t, [call EXCEPT !.stage = "package", !.link = {c}, !.got = <<>>,
                                        !.entry = Authored(c)])
    /\ UNCHANGED <<chain, shard, wire, count, fails>>

UpdateLatest(t) == Latest(t, "update", LAMBDA c : calls[t].entry)
RemoveLatest(t) == Latest(t, "remove", Deletion)

-----------------------------------------------------------------------------
(* author_entry.                                                           *)

IsLink(e) == e.type \in {"link_add", "link_remove"}

(* get_link_entries and find_link_definition_in_dna *)
LinkKnown(call) == call.got[1] # {} /\ call.got[2] # {} /\ call.entry.of \in LinkDef

(* build_validation_package, before the thread: the type must be known.    *)
(* The header, the chain's or one made for the current top, and the chain  *)
(* that go into the package are not told apart.                            *)
PackageRequested(t) ==
    LET call == calls[t] IN
    /\ call.stage = "package"
    /\ IF call.entry.type = "app" /\ call.entry.of[1] \in Unknown
          THEN Answered(t, call, "ValidationFailed")
          ELSE Becomes(t, [call EXCEPT !.stage = "definition",
                                       !.todo = IF IsLink(call.entry) THEN call.entry.of ELSE <<>>])
    /\ UNCHANGED <<chain, shard, wire, count, fails>>

(* The thread: get_validation_package_definition, which for a link looks   *)
(* up base and target.                                                     *)
PackageBuilt(t) ==
    LET call == calls[t] IN
    /\ AtStage(t, "definition")
    /\ IF IsLink(call.entry) /\ ~LinkKnown(call) THEN Answered(t, call, "Err")
       ELSE Becomes(t, [call EXCEPT !.stage = "validate", !.got = <<>>,
                                    !.todo = IF IsLink(call.entry) THEN call.entry.of ELSE <<>>])
    /\ UNCHANGED <<chain, shard, wire, count, fails>>

(* The assertion on the crud-links of what is looked up. *)
Panics(C) == \E c \in C : Cardinality(crud[c]) > 1

(* What the zome's callback, run in a thread of its own, decides. *)
run_validation_callback(e) == e \notin Rejected

(* A read of the entry that is updated is no error when it finds nothing.  *)
validate_app_entry(call) == run_validation_callback(call.entry)

(* The entry that is deleted must be there. *)
validate_remove_entry(call) ==
    /\ \A c \in call.link : status[AppEntry(c)] # "none"
    /\ run_validation_callback(call.entry)

(* Base and target are looked up once more. *)
validate_link_entry(call) == LinkKnown(call) /\ run_validation_callback(call.entry)

(* validate_entry, by the type of the entry. *)
Valid(call) ==
    CASE call.entry.type = "app" -> validate_app_entry(call)
      [] call.entry.type = "deletion" -> validate_remove_entry(call)
      [] IsLink(call.entry) -> validate_link_entry(call)

validate_entry(t) ==
    /\ AtStage(t, "validate")
    /\ IF Panics(calls[t].link) THEN Answered(t, calls[t], "panic")
       ELSE IF Valid(calls[t]) THEN Becomes(t, [calls[t] EXCEPT !.stage = "commit", !.got = <<>>])
       ELSE Answered(t, calls[t], "ValidationFailed")
    /\ UNCHANGED <<chain, shard, wire, count, fails>>

Live(e) == IF status[e] = "none" THEN "live" ELSE status[e]

(* The action Commit: the agent's reducer pushes the header, the shard's   *)
(* stores the entry as live.  A private entry is done with that.           *)
commit_entry(t) ==
    LET call == calls[t] IN
    /\ call.stage = "commit"
    /\ chain' = Append(chain, [entry |-> call.entry, link |-> call.link])
    /\ status' = [status EXCEPT ![call.entry] = Live(call.entry)]
    /\ IF can_publish(call.entry) THEN Becomes(t, [call EXCEPT !.stage = "publish"])
                                  ELSE Answered(t, call, "Ok")
    /\ UNCHANGED <<crud, links, wire, count, fails>>

(* The header cannot be signed or stored. *)
CommitFails(t) ==
    /\ calls[t].stage = "commit"
    /\ fails < MaxFail /\ fails' = fails + 1
    /\ Answered(t, calls[t], "Err")
    /\ UNCHANGED <<chain, shard, wire, count>>

(* Faulty: the header that is published is the oldest of the entry. *)
MessagesOldest(e) ==
    LET i == CHOOSE k \in DOMAIN chain : chain[k].entry = e /\ \A j \in 1 .. k - 1 : chain[j].entry # e
        Message(attribute) == [attribute |-> attribute, entry |-> e, link |-> chain[i].link]
    IN  <<Message("entry")>> \o
        CASE e.type = "app" -> IF chain[i].link = {} THEN <<>> ELSE <<Message("modified")>>
          [] e.type = "deletion" -> <<Message("deleted")>>
          [] OTHER -> <<Message(e.type)>>

(* reduce_publish_inner: fetch_entry_with_header, then the messages for    *)
(* the type of the entry.                                                  *)
Messages(e) ==
    LET i == CHOOSE k \in find_chain_header(e) : TRUE
        Message(attribute) == [attribute |-> attribute, entry |-> e, link |-> chain[i].link]
    IN  <<Message("entry")>> \o
        CASE e.type = "app" -> IF chain[i].link = {} THEN <<>> ELSE <<Message("modified")>>
          [] e.type = "deletion" -> <<Message("deleted")>>
          [] OTHER -> <<Message(e.type)>>

Range(s) == {s[i] : i \in DOMAIN s}

(* The action Publish, and PublishFuture. *)
publish(t) ==
    /\ calls[t].stage = "publish"
    /\ wire' = wire \cup Range(Messages(calls[t].entry))
    /\ Answered(t, calls[t], "Ok")
    /\ UNCHANGED <<chain, shard, count, fails>>

(* A send fails: what was sent is sent, what is committed stays committed, *)
(* and the zome is told of the error.                                      *)
PublishFails(t) ==
    /\ calls[t].stage = "publish"
    /\ fails < MaxFail /\ fails' = fails + 1
    /\ \E n \in 0 .. Len(Messages(calls[t].entry)) - 1 :
           wire' = wire \cup Range(SubSeq(Messages(calls[t].entry), 1, n))
    /\ Answered(t, calls[t], "Err")
    /\ UNCHANGED <<chain, shard, count>>

-----------------------------------------------------------------------------
(* What is published is held by the author's node, in any order.           *)

(* get_entry_result_workflow of c ends with an entry. *)
Resolves[n \in 0 .. Cardinality(Content), c \in Content] ==
    /\ status[AppEntry(c)] \notin {"none", "deleted"}
    /\ ~Panics({c})
    /\ crud[c] # {} => n > 0 /\ Resolves[n - 1, Linked(c)]

Resolvable(p) == \A i \in DOMAIN p : Resolves[Cardinality(Content), p[i]]

HoldEntry(m) ==
    /\ m.attribute = "entry"
    /\ status' = [status EXCEPT ![m.entry] = Live(m.entry)]
    /\ UNCHANGED <<crud, links>>

(* The actions of the shard, each dispatched by its action creator, whose  *)
(* future has the reducer's answer.                                        *)

(* UpdateEntry marks the old entries and links them to the new one. *)
update_entry(C, new) ==
    /\ status' = [e \in AnyEntry |-> IF (\E c \in C : e = AppEntry(c)) /\ status[e] # "deleted"
                                    THEN "modified" ELSE status[e]]
    /\ crud' = [c \in Content |-> IF c \in C THEN crud[c] \cup {new} ELSE crud[c]]
    /\ UNCHANGED links

(* RemoveEntry wants a live entry. *)
remove_entry(c, deletion) ==
    IF status[AppEntry(c)] # "live" THEN UNCHANGED shard
    ELSE /\ status' = [status EXCEPT ![AppEntry(c)] = "deleted"]
         /\ crud' = [crud EXCEPT ![c] = @ \cup {deletion}]
         /\ UNCHANGED links

add_link(p) == links' = links \cup {p} /\ UNCHANGED <<status, crud>>

remove_link(p) == links' = links \ {p} /\ UNCHANGED <<status, crud>>

(* hold_update_workflow; a look-up that panics ends the thread. *)
HoldUpdate(m) ==
    /\ m.attribute = "modified"
    /\ IF Panics(m.link) THEN UNCHANGED shard ELSE update_entry(m.link, m.entry)

(* hold_remove_workflow *)
HoldRemove(m) ==
    LET c == m.entry.of[1] IN
    /\ m.attribute = "deleted"
    /\ IF Panics({c}) THEN UNCHANGED shard ELSE remove_entry(c, m.entry)

(* hold_link_workflow waits for base and target, remove_link_workflow      *)
(* fails without them.                                                     *)
HoldLink(m) ==
    \/ m.attribute = "link_add" /\ Resolvable(m.entry.of) /\ add_link(m.entry.of)
    \/ m.attribute = "link_remove"
         /\ IF Resolvable(m.entry.of) THEN remove_link(m.entry.of) ELSE UNCHANGED shard

(* handle_store_entry, and handle_store_meta by the attribute. *)
Hold(m) ==
    /\ HoldEntry(m) \/ HoldUpdate(m) \/ HoldRemove(m) \/ HoldLink(m)
    /\ wire' = wire \ {m}
    /\ UNCHANGED <<chain, calls, count, fails>>

(* get_link_result_workflow: the links of the base are asked for, then the *)
(* entry of each is looked up, and one that is not there fails the call.   *)
invoke_get_links(t, b) ==
    /\ calls[t].stage \in {"idle", "done"}
    /\ count < MaxCalls
    /\ count' = count + 1
    /\ calls' = [calls EXCEPT ![t] =
           [Idle EXCEPT !.fn = "get_links", !.stage = "done",
                        !.answer = IF \A p \in links : p[1] = b => status[LinkAdd(p)] # "none"
                                   THEN "Ok" ELSE "Err"]]
    /\ UNCHANGED <<chain, shard, wire, fails>>

(* The network does not answer the query for links in time. *)
GetLinksTimeout(t) ==
    /\ calls[t].stage \in {"idle", "done"}
    /\ count < MaxCalls /\ count' = count + 1
    /\ fails < MaxFail /\ fails' = fails + 1
    /\ calls' = [calls EXCEPT ![t] = [Idle EXCEPT !.fn = "get_links", !.stage = "done", !.answer = "Timeout"]]
    /\ UNCHANGED <<chain, shard, wire>>

Step(t) ==
    \/ Walk(t) \/ WalkNetwork(t) \/ WalkTimeout(t) \/ Found(t) \/ UpdateLatest(t) \/ RemoveLatest(t)
    \/ PackageRequested(t) \/ PackageBuilt(t) \/ validate_entry(t)
    \/ commit_entry(t) \/ CommitFails(t) \/ publish(t) \/ PublishFails(t)

Work == (\E t \in Caller : Step(t)) \/ (\E m \in wire : Hold(m))

Next ==
    \/ \E t \in Caller :
           \/ \E c \in Content : invoke_commit_app_entry(t, c)
           \/ \E c \in Content, n \in App \cup Private : invoke_update_entry(t, c, n)
           \/ \E c \in Content : invoke_remove_entry(t, c)
           \/ \E p \in Pair : invoke_link_entries(t, p) \/ invoke_remove_link(t, p)
           \/ \E c \in Content : invoke_get_entry(t, c)
           \/ \E c \in App : invoke_get_links(t, c)
           \/ GetLinksTimeout(t)
           \/ invoke_commit_capability_grant(t)
    \/ Work

Spec == Init /\ [][Next]_vars

(* Every thread and the action loop get their turn. *)
FairSpec == Spec /\ WF_vars(Work)
-----------------------------------------------------------------------------
(* Properties.                                                             *)

(* Nothing gets onto the source chain that the zome's validation rejects   *)
(* or the DNA does not define, whatever else the instance does between     *)
(* author_entry's validation and its commit.                               *)
OnlyValidCommitted ==
    \A i \in DOMAIN chain : chain[i].entry \notin Rejected
        /\ (chain[i].entry.type = "app" => chain[i].entry.of[1] \notin Unknown)

(* get_links never fails for a link whose entry it cannot find: on the     *)
(* author's node the LinkAdd entry is stored by Commit, before the meta    *)
(* data of the link can come back, in whatever order the messages do.      *)
GetLinksAnswers ==
    \A t \in Caller : calls[t].fn = "get_links" => calls[t].answer # "Err"

(* An entry whose deletion was held before a call began is neither         *)
(* returned to the call nor updated or deleted by it, along whatever       *)
(* crud-links its look-up came to the entry.                               *)
RemovedNotFound ==
    \A t \in Caller :
        /\ AtStage(t, "found") => calls[t].got[1] \cap calls[t].gone = {}
        /\ calls[t].link \cap calls[t].gone = {}

Quiet == wire = {} /\ fails = 0 /\ \A t \in Caller : calls[t].stage \in {"idle", "done"}

(* Once all calls are done and all messages held, a public entry whose     *)
(* newest header says that it updates another is named by a crud-link of   *)
(* that entry, unless concurrent updates have made its look-up panic:      *)
(* reduce_publish_inner must not pick up an older header of the entry.     *)
UpdatesShown ==
    Quiet =>
        \A c \in App : \A i \in find_chain_header(AppEntry(c)) : \A old \in chain[i].link :
            AppEntry(c) \in crud[old] \/ Panics({old})

(* Following crud-links from c comes to an end. *)
Ends[n \in 0 .. Cardinality(Content), c \in Content] ==
    Cardinality(crud[c]) # 1 \/ status[AppEntry(c)] = "deleted" \/ (n > 0 /\ Ends[n - 1, Linked(c)])

(* Every call is answered, unless an entry was updated back to an earlier  *)
(* content: get_entry_result_workflow then goes round for ever, and so     *)
(* does every call that looks such an entry up.                            *)
CallsEnd ==
    []<>(\/ \A t \in Caller : calls[t].stage \in {"idle", "done"}
         \/ \E c \in Content : ~Ends[Cardinality(Content), c])

=============================================================================
