-------------------------------- MODULE Cas --------------------------------
(***************************************************************************)
(* The content storage in files (cas_implementations/src/cas/file.rs) used *)
(* by several threads: by those of an instance, which share it behind an   *)
(* Arc<RwLock<..>> (conductor_api/src/context_builder.rs), and by those of *)
(* the storages' test suite (core_types/src/cas/storage.rs), which work on *)
(* clones that share the storage's own lock and its directory.             *)
(*                                                                         *)
(* fetch holds the storage's lock for reading and calls contains, which    *)
(* takes it for reading again: where the platform's lock lets no reader in *)
(* while a writer waits, that second reader could wait forever.            *)
(***************************************************************************)
EXTENDS Integers, Sequences

CONSTANTS
    Uses,        \* what the threads do: instances of the program, by name
    MaxFaults    \* bound on the crashes of the process and the failing writes

VARIABLES
    use,          \* the name of the running use
    writersFirst, \* does the platform's lock prefer writers?
    th,           \* for each thread: step, where in it, what a fetch found
    file,         \* for each content: none, empty (created), whole
    outer,        \* the RwLock around the storage: writer, readers
    lock,         \* FilesystemStorage::lock: writer, readers
    sent,         \* channels of the suite's threads that were sent on
    torn,         \* contents whose write a crash or an error cut off
    faults

vars == <<use, writersFirst, th, file, outer, lock, sent, torn, faults>>

(* A step of a thread: the operation, what it is about, and, for a fetch,   *)
(* what the test suite asserts of the answer.                               *)
Op(op, of, want) == [op |-> op, of |-> of, want |-> want]

Threads == DOMAIN Uses[use].plan

Doing(t) == Uses[use].plan[t][th[t].step]

Running(t) == th[t].step <= Len(Uses[use].plan[t])

At(t, op, at) == Running(t) /\ Doing(t).op = op /\ th[t].at = at

Go(t, at) == th' = [th EXCEPT ![t].at = at]

Done(t, found) ==
    th' = [th EXCEPT ![t] = [step |-> @.step + 1, at |-> "start", found |-> found]]

Free == [writer |-> {}, readers |-> <<>>]

-----------------------------------------------------------------------------
(* std::sync::RwLock.  readers: the threads that hold it for reading, one   *)
(* element for each time; waiting: the threads that wait to write.          *)

(* Faulty: readers do not keep a writer out. *)
MayWriteAmongReaders(l) == l.writer = {}

MayWrite(l) == l.writer = {} /\ l.readers = <<>>

MayRead(l, waiting) == l.writer = {} /\ (writersFirst => waiting = {})

WithReader(l, t) == [l EXCEPT !.readers = Append(@, t)]

WithoutReader(l, t) ==
    LET i == CHOOSE i \in DOMAIN l.readers : l.readers[i] = t
    IN  [l EXCEPT !.readers = SubSeq(@, 1, i - 1) \o SubSeq(@, i + 1, Len(@))]

WaitForOuter == {t \in Threads : At(t, "add", "wait_outer")}
WaitForLock == {t \in Threads : At(t, "add", "wait_lock")}

-----------------------------------------------------------------------------
(* A thread reaches storage.write().unwrap().add(..) or read().fetch(..); a *)
(* clone is used directly.                                                  *)
Begin(t) ==
    /\ Running(t) /\ th[t].at = "start" /\ Doing(t).op \in {"add", "fetch"}
    /\ Go(t, IF Uses[use].guarded THEN "wait_outer"
             ELSE IF Doing(t).op = "add" THEN "wait_lock" ELSE "unlocked")
    /\ UNCHANGED <<use, writersFirst, file, outer, lock, sent, torn, faults>>

LockOuter(t) ==
    /\ Running(t) /\ th[t].at = "wait_outer"
    /\ IF Doing(t).op = "add"
       THEN MayWrite(outer) /\ outer' = [outer EXCEPT !.writer = {t}] /\ Go(t, "wait_lock")
       ELSE MayRead(outer, WaitForOuter) /\ outer' = WithReader(outer, t) /\ Go(t, "unlocked")
    /\ UNCHANGED <<use, writersFirst, file, lock, sent, torn, faults>>

Unlocked(t) ==
    IF t \in outer.writer THEN [outer EXCEPT !.writer = {}]
    ELSE IF \E i \in DOMAIN outer.readers : outer.readers[i] = t
    THEN WithoutReader(outer, t)
    ELSE outer

(* FilesystemStorage::add: lock, create the file, write it, unlock.         *)
AddLock(t) ==
    /\ At(t, "add", "wait_lock")
    /\ MayWrite(lock)
    /\ lock' = [lock EXCEPT !.writer = {t}]
    /\ Go(t, "locked")
    /\ UNCHANGED <<use, writersFirst, file, outer, sent, torn, faults>>

AddCreate(t) ==
    /\ At(t, "add", "locked")
    /\ file' = [file EXCEPT ![Doing(t).of] = "empty"]
    /\ Go(t, "created")
    /\ UNCHANGED <<use, writersFirst, outer, lock, sent, torn, faults>>

AddWrite(t) ==
    /\ At(t, "add", "created")
    /\ file' = [file EXCEPT ![Doing(t).of] = "whole"]
    /\ torn' = torn \ {Doing(t).of}
    /\ lock' = [lock EXCEPT !.writer = {}]
    /\ outer' = Unlocked(t)
    /\ Done(t, "none")
    /\ UNCHANGED <<use, writersFirst, sent, faults>>

(* The write fails (a full disk): the error is returned, the file stays.    *)
AddFails(t) ==
    /\ At(t, "add", "created")
    /\ Uses[use].guarded
    /\ faults < MaxFaults
    /\ faults' = faults + 1
    /\ torn' = torn \cup {Doing(t).of}
    /\ lock' = [lock EXCEPT !.writer = {}]
    /\ outer' = Unlocked(t)
    /\ Done(t, "none")
    /\ UNCHANGED <<use, writersFirst, file, sent>>

(* fetch: lock for reading ...                                              *)
FetchLock(t) ==
    /\ At(t, "fetch", "unlocked")
    /\ MayRead(lock, WaitForLock)
    /\ lock' = WithReader(lock, t)
    /\ Go(t, "contains")
    /\ UNCHANGED <<use, writersFirst, file, outer, sent, torn, faults>>

(* contains: is there a file? *)
IsFile(c) == file[c] # "none"

(* ... contains locks for reading once more, looks and unlocks ...          *)
Contains(t) ==
    /\ At(t, "fetch", "contains")
    /\ MayRead(lock, WaitForLock)
    /\ Go(t, IF IsFile(Doing(t).of) THEN "found" ELSE "missing")
    /\ UNCHANGED <<use, writersFirst, file, outer, lock, sent, torn, faults>>

(* ... and the file is read, if there is one.                               *)
FetchRead(t) ==
    /\ At(t, "fetch", "found") \/ At(t, "fetch", "missing")
    /\ lock' = WithoutReader(lock, t)
    /\ outer' = Unlocked(t)
    /\ Done(t, IF th[t].at = "found" THEN file[Doing(t).of] ELSE "none")
    /\ UNCHANGED <<use, writersFirst, file, sent, torn, faults>>

(* The channels between the threads of the suite. *)
Send(t) ==
    /\ At(t, "send", "start")
    /\ sent' = sent \cup {Doing(t).of}
    /\ Done(t, th[t].found)
    /\ UNCHANGED <<use, writersFirst, file, outer, lock, torn, faults>>

Recv(t) ==
    /\ At(t, "recv", "start")
    /\ Doing(t).of \in sent
    /\ Done(t, th[t].found)
    /\ UNCHANGED <<use, writersFirst, file, outer, lock, sent, torn, faults>>

Started(u) ==
    [t \in DOMAIN Uses[u].plan |-> [step |-> 1, at |-> "start", found |-> "none"]]

(* The process of an instance dies and is started again. *)
Crash ==
    /\ Uses[use].guarded
    /\ faults < MaxFaults
    /\ faults' = faults + 1
    /\ torn' = torn \cup {c \in DOMAIN file : file[c] = "empty"}
    /\ th' = Started(use)
    /\ outer' = Free /\ lock' = Free
    /\ UNCHANGED <<use, writersFirst, file, sent>>

Init ==
    /\ use \in DOMAIN Uses
    /\ writersFirst \in BOOLEAN
    /\ th = Started(use)
    /\ file = [c \in Uses[use].contents |-> "none"]
    /\ outer = Free /\ lock = Free
    /\ sent = {} /\ torn = {} /\ faults = 0

Work(t) ==
    \/ Begin(t) \/ LockOuter(t)
    \/ AddLock(t) \/ AddCreate(t) \/ AddWrite(t)
    \/ FetchLock(t) \/ Contains(t) \/ FetchRead(t)
    \/ Send(t) \/ Recv(t)

Next == (\E t \in Threads : Work(t) \/ AddFails(t)) \/ Crash

(* Every thread is scheduled, and an RwLock that is free again and again    *)
(* for a thread lets it in at last.                                         *)
Spec == Init /\ [][Next]_vars

FairSpec == Spec /\ WF_vars(\E t \in Threads : Work(t))

-----------------------------------------------------------------------------
(* No reader meets a file that an add has created and not yet written: only *)
(* what a crash or an error cut off is read in halves, until it is added.   *)
NoHalfRead ==
    \A t \in Threads :
       At(t, "fetch", "found") /\ file[Doing(t).of] = "empty" => Doing(t).of \in torn

(* Every fetch of the test suite finds what the suite asserts, in whatever  *)
(* order its threads run.                                                   *)
CasSuitePasses ==
    \A t \in Threads :
       Running(t) /\ Doing(t).op = "fetch" /\ th[t].at \in {"found", "missing"} =>
          /\ Doing(t).want = "none" => th[t].at = "missing"
          /\ Doing(t).want = "some" => th[t].at = "found" /\ file[Doing(t).of] = "whole"

AllDone == \A t \in Threads : ~Running(t)

(* Every use ends, whether or not the lock prefers writers: behind the lock *)
(* around the storage, no writer can wait for the storage's own lock        *)
(* between the two times that fetch takes it.                               *)
FetchesReturn == <>[]AllDone

=============================================================================
