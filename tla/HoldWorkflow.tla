---------------------------- MODULE HoldWorkflow ----------------------------
(***************************************************************************)
(* How a node comes to hold what others publish (core/src/workflows/       *)
(* hold_entry.rs and hold_link.rs).  Every message of the network that     *)
(* asks to store an entry or a link starts a thread: it gets a validation  *)
(* package from the source, validates and stores.  What cannot be          *)
(* validated yet becomes a pending validation, which a scheduled job       *)
(* retries in a thread of its own, whether or not an earlier retry is      *)
(* still running.  Pending validations are kept in the nucleus state and   *)
(* survive a restart; threads and queued actions do not.                   *)
(***************************************************************************)
EXTENDS Naturals, Sequences, FiniteSets

CONSTANTS
    Entry, Link,    \* what may be published
    Deps,           \* Deps[l]: the base and the target of link l
    Base,           \* Base[l]: the base of link l
    Buf,            \* capacity of the action channel
    MaxThreads,     \* bound on the threads at work on one item
    MaxStores,      \* bound on the messages that ask to store one item
    MaxCrashes      \* bound on the restarts of the instance

Item == Entry \cup Link
Slot == 1 .. MaxThreads

ASSUME DepsAssumption ==
    /\ Deps \in [Link -> SUBSET Entry] /\ Base \in [Link -> Entry]
    /\ \A l \in Link : Base[l] \in Deps[l]
ASSUME ItemAssumption == Entry \cap Link = {}
ASSUME BoundsAssumption ==
    /\ Buf \in Nat \ {0} /\ MaxThreads \in Nat \ {0}
    /\ MaxStores \in Nat /\ MaxCrashes \in Nat

VARIABLES
    invalid,    \* what the validation functions refuse; does not change
    chan,       \* the action channel
    pending,    \* NucleusState::pending_validations
    held,       \* entries in the content storage, links in the meta storage
    thread,     \* thread[i][n]: the thread in slot n at work on item i
    stores,     \* how often the network asked to store an item
    crashes,    \* number of restarts
    refused,    \* links that the DHT did not add, their base not being held
    lost        \* items whose thread or action a restart ended

vars == <<invalid, chan, pending, held, thread, stores, crashes, refused,
          lost>>

(* "package": waits for the validation package; "validate": has it;        *)
(* "store": waits for the reducer; "ok" and "err": the reducer's answer to *)
(* AddLink.                                                                *)
Stage == {"idle", "package", "validate", "store", "ok", "err"}
Idle == [at |-> "idle", retry |-> FALSE]

Action ==
    {"Hold", "AddLink", "AddPending", "RemovePending"}
        \X Item \X (0 .. MaxThreads)

Init ==
    /\ invalid \in SUBSET Item
    /\ chan = <<>>
    /\ pending = {} /\ held = {} /\ refused = {} /\ lost = {}
    /\ thread = [i \in Item |-> [n \in Slot |-> Idle]]
    /\ stores = [i \in Item |-> 0]
    /\ crashes = 0

IdleSlots(i) == {n \in Slot : thread[i][n] = Idle}
FirstIdle(i) == CHOOSE n \in IdleSlots(i) : \A k \in IdleSlots(i) : n <= k
Spawn(is, retry) ==
    [i \in Item |->
        IF i \in is
          THEN [thread[i] EXCEPT ![FirstIdle(i)] =
                   [at |-> "package", retry |-> retry]]
          ELSE thread[i]]

(* dispatch_action blocks while the channel is full. *)
Dispatch(op, i, n) ==
    /\ Len(chan) < Buf
    /\ chan' = Append(chan, <<op, i, n>>)

At(i, n, stage) == thread[i][n].at = stage
Goto(i, n, stage) == thread' = [thread EXCEPT ![i][n].at = stage]

(* handle_store_entry, handle_store_meta *)
HandleStore(i) ==
    /\ stores[i] < MaxStores /\ IdleSlots(i) # {}
    /\ stores' = [stores EXCEPT ![i] = @ + 1]
    /\ thread' = Spawn({i}, FALSE)
    /\ UNCHANGED <<invalid, chan, pending, held, crashes, refused, lost>>

(* The scheduled job: one thread for every pending validation. *)
RunPendingValidations ==
    /\ pending # {} /\ \A i \in pending : IdleSlots(i) # {}
    /\ thread' = Spawn(pending, TRUE)
    /\ UNCHANGED <<invalid, chan, pending, held, stores, crashes, refused,
                   lost>>

(* Faulty: a retry removes the pending validation whatever came out. *)
FinishAlwaysRemoves(i, n, pend, add) ==
    /\ thread' = [thread EXCEPT ![i][n] = Idle]
    /\ IF thread[i][n].retry THEN Dispatch("RemovePending", i, 0)
       ELSE IF add THEN Dispatch("AddPending", i, 0)
       ELSE UNCHANGED chan

(* Faulty: nothing is removed. *)
FinishKeepsPending(i, n, pend, add) ==
    /\ thread' = [thread EXCEPT ![i][n] = Idle]
    /\ IF add THEN Dispatch("AddPending", i, 0) ELSE UNCHANGED chan

(* The workflow ends: with ValidationPending if pend, and then after a     *)
(* call of add_pending_validation if add.  A retry that ends otherwise     *)
(* removes the pending validation.                                         *)
Finish(i, n, pend, add) ==
    /\ thread' = [thread EXCEPT ![i][n] = Idle]
    /\ IF add THEN Dispatch("AddPending", i, 0)
       ELSE IF ~pend /\ thread[i][n].retry THEN Dispatch("RemovePending", i, 0)
       ELSE UNCHANGED chan

PackageArrives(i, n) ==
    /\ At(i, n, "package")
    /\ Goto(i, n, "validate")
    /\ UNCHANGED <<invalid, chan, pending, held, stores, crashes, refused,
                   lost>>

(* Faulty: an empty response ends the workflow. *)
PackageFailsForgotten(i, n) ==
    /\ At(i, n, "package")
    /\ \E add \in BOOLEAN : Finish(i, n, TRUE, add)
    /\ UNCHANGED <<invalid, pending, held, stores, crashes, refused, lost>>

(* There is an error, or the source has no package. *)
PackageFails(i, n) ==
    /\ At(i, n, "package")
    /\ Finish(i, n, TRUE, TRUE)
    /\ UNCHANGED <<invalid, pending, held, stores, crashes, refused, lost>>

(* validate_link_entry looks the base and the target up locally, and on    *)
(* the network what is not there, which may or may not find it.            *)
Unresolved(i, n) ==
    /\ At(i, n, "validate") /\ i \in Link /\ ~(Deps[i] \subseteq held)
    /\ Finish(i, n, TRUE, TRUE)
    /\ UNCHANGED <<invalid, pending, held, stores, crashes, refused, lost>>

(* What is found to be invalid also ends with ValidationPending, with no   *)
(* call of add_pending_validation.                                         *)
FindInvalid(i, n) ==
    /\ At(i, n, "validate") /\ i \in invalid
    /\ Finish(i, n, TRUE, FALSE)
    /\ UNCHANGED <<invalid, pending, held, stores, crashes, refused, lost>>

(* Faulty: the result of the validation is not looked at. *)
FindValidAlways(i, n) ==
    /\ At(i, n, "validate")
    /\ Dispatch(IF i \in Entry THEN "Hold" ELSE "AddLink", i, n)
    /\ Goto(i, n, "store")
    /\ UNCHANGED <<invalid, pending, held, stores, crashes, refused, lost>>

FindValid(i, n) ==
    /\ At(i, n, "validate") /\ i \notin invalid
    /\ Dispatch(IF i \in Entry THEN "Hold" ELSE "AddLink", i, n)
    /\ Goto(i, n, "store")
    /\ UNCHANGED <<invalid, pending, held, stores, crashes, refused, lost>>

(* The future of Hold resolves when the content storage has the entry, the *)
(* one of AddLink with the reducer's answer.                               *)
Return(i, n) ==
    /\ \/ i \in Entry /\ At(i, n, "store") /\ i \in held
       \/ i \in Link /\ (At(i, n, "ok") \/ At(i, n, "err"))
    /\ Finish(i, n, FALSE, FALSE)
    /\ UNCHANGED <<invalid, pending, held, stores, crashes, refused, lost>>

-----------------------------------------------------------------------------
(* The action loop *)

(* reduce_hold_entry, reduce_add_link, reduce_add_pending_validation and   *)
(* reduce_remove_pending_validation; the new state is saved.  The answer   *)
(* to AddLink is for the thread that asked.                                *)
Reduce ==
    /\ chan # <<>>
    /\ chan' = Tail(chan)
    /\ LET op == Head(chan)[1]
           i == Head(chan)[2]
           n == Head(chan)[3]
           added == op = "Hold" \/ (op = "AddLink" /\ Base[i] \in held)
       IN /\ held' = IF added THEN held \cup {i} ELSE held
          /\ pending' = CASE op = "AddPending" -> pending \cup {i}
                          [] op = "RemovePending" -> pending \ {i}
                          [] OTHER -> pending
          /\ refused' = IF op = "AddLink" /\ ~added THEN refused \cup {i}
                        ELSE refused
          /\ thread' = IF op = "AddLink"
                         THEN [thread EXCEPT ![i][n].at =
                                  IF added THEN "ok" ELSE "err"]
                         ELSE thread
    /\ UNCHANGED <<invalid, stores, crashes, lost>>

Queued(i) == {chan[k] : k \in DOMAIN chan} \cap {a \in Action : a[2] = i}
Busy(i) == IdleSlots(i) # Slot

(* The conductor stops at any moment, and loads the instance again. *)
Restart ==
    /\ crashes < MaxCrashes
    /\ crashes' = crashes + 1
    /\ lost' = lost \cup {i \in Item : Busy(i) \/ Queued(i) # {}}
    /\ chan' = <<>>
    /\ thread' = [i \in Item |-> [n \in Slot |-> Idle]]
    /\ UNCHANGED <<invalid, pending, held, stores, refused>>

Next ==
    \/ Reduce
    \/ Restart
    \/ RunPendingValidations
    \/ \E i \in Item :
         \/ HandleStore(i)
         \/ \E n \in Slot :
              \/ PackageArrives(i, n) \/ PackageFails(i, n)
              \/ Unresolved(i, n) \/ FindInvalid(i, n) \/ FindValid(i, n)
              \/ Return(i, n)

Spec == Init /\ [][Next]_vars

(* The action loop, the scheduler and, of the threads at work on an item,  *)
(* some thread that can go on run.  A source that is asked for a package   *)
(* again and again delivers it.                                            *)
Fairness ==
    /\ WF_vars(Reduce)
    /\ SF_vars(RunPendingValidations)
    /\ \A i \in Item :
         /\ SF_vars(\E n \in Slot : PackageArrives(i, n))
         /\ SF_vars(\E n \in Slot :
                \/ PackageFails(i, n) \/ Unresolved(i, n)
                \/ FindInvalid(i, n) \/ FindValid(i, n) \/ Return(i, n))

FairSpec == Spec /\ Fairness

-----------------------------------------------------------------------------
(* The variables have their types, and a thread waits for the answer to    *)
(* AddLink only while the action is queued.                                *)
TypeOK ==
    /\ chan \in Seq(Action) /\ Len(chan) <= Buf
    /\ invalid \subseteq Item /\ pending \subseteq Item /\ held \subseteq Item
    /\ refused \subseteq Link /\ lost \subseteq Item
    /\ thread \in [Item -> [Slot -> [at : Stage, retry : BOOLEAN]]]
    /\ stores \in [Item -> 0 .. MaxStores] /\ crashes \in 0 .. MaxCrashes
    /\ \A l \in Link, n \in Slot :
         At(l, n, "store") <=> <<"AddLink", l, n>> \in Queued(l)

(* Nothing is held that the validation refuses, and no link without its    *)
(* base, whatever retries overlap.                                         *)
HeldAreValid ==
    /\ held \cap invalid = {}
    /\ \A l \in held \cap Link : Base[l] \in held

(* A valid item that the network asked to store is held, pending or being  *)
(* worked on, unless a restart ended the work or the DHT refused the link: *)
(* no path through the workflow drops it (the calls of                     *)
(* add_pending_validation).                                                *)
NothingForgotten ==
    \A i \in Item \ (invalid \cup lost \cup refused) :
        stores[i] > 0 =>
            i \in held \cup pending \/ Busy(i) \/ Queued(i) # {}

(* A pending validation goes away only when the item is held, or the link  *)
(* was refused by the DHT: neither an overlapping retry nor a restart      *)
(* removes it (retry_validation, NucleusStateSnapshot).                    *)
PendingStays ==
    [][\A i \in pending \ pending' : i \in held \cup refused]_vars

(* The pending validation of a valid entry, or of a valid link whose base  *)
(* and target are held, comes to an end, even if overlapping retries add   *)
(* and remove it in any order.                                             *)
ValidPendingEnds ==
    \A i \in Item :
        (i \in pending \ invalid /\ (i \in Link => Deps[i] \subseteq held))
            ~> (i \notin pending)

(* Every pending validation of an entry ends, with the entry held or       *)
(* rejected.                                                               *)
EntryPendingEnds ==
    \A i \in Entry : (i \in pending) ~> (i \notin pending)
=============================================================================
