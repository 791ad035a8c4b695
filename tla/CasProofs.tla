----------------------------- MODULE CasProofs ------------------------------
(***************************************************************************)
(* Proof that no thread reads a file of the content storage that another   *)
(* has created and not yet written, for any number of threads, plans and   *)
(* contents, behind an RwLock that prefers readers or writers.             *)
(***************************************************************************)
EXTENDS Cas, SequenceTheorems, TLAPS

(* The plans of a use are sequences of steps about contents of the use. *)
PlansKnown ==
    \A u \in DOMAIN Uses : \A t \in DOMAIN Uses[u].plan :
        /\ Len(Uses[u].plan[t]) \in Nat
        /\ \A i \in 1 .. Len(Uses[u].plan[t]) :
              Uses[u].plan[t][i].op \in {"add", "fetch"} =>
                  Uses[u].plan[t][i].of \in Uses[u].contents

-----------------------------------------------------------------------------
(* The inductive invariant *)

FileStates == {"none", "empty", "whole"}
Places == {"start", "wait_outer", "wait_lock", "locked", "created", "unlocked", "contains",
           "found", "missing"}
ThreadStates == [step : Nat \ {0}, at : Places, found : FileStates]

Typed ==
    /\ use \in DOMAIN Uses
    /\ th \in [Threads -> ThreadStates]
    /\ file \in [Uses[use].contents -> FileStates]
    /\ lock \in [writer : SUBSET Threads, readers : Seq(Threads)]

Holds(readers, t) == \E i \in 1 .. Len(readers) : readers[i] = t

(* Who is inside fetch holds the lock for reading, who is inside add for   *)
(* writing, and not both.                                                  *)
LocksHeld ==
    /\ \A t \in Threads, a \in {"contains", "found", "missing"} :
          At(t, "fetch", a) => Holds(lock.readers, t)
    /\ \A t \in Threads, a \in {"locked", "created"} : At(t, "add", a) => lock.writer = {t}
    /\ lock.writer # {} => lock.readers = <<>>

(* A file is half written only while its add is, or when it was cut off. *)
HalvesKnown ==
    \A c \in Uses[use].contents :
        file[c] = "empty" =>
            c \in torn \/ \E t \in Threads : At(t, "add", "created") /\ Doing(t).of = c

CasInv == Typed /\ LocksHeld /\ HalvesKnown

-----------------------------------------------------------------------------
(* Readers *)

LEMMA OneReaderLess ==
    ASSUME NEW T, NEW l \in [writer : SUBSET T, readers : Seq(T)], NEW t, Holds(l.readers, t)
    PROVE  /\ WithoutReader(l, t) \in [writer : SUBSET T, readers : Seq(T)]
           /\ WithoutReader(l, t).writer = l.writer
           /\ \A u : u # t /\ Holds(l.readers, u) => Holds(WithoutReader(l, t).readers, u)
<1> DEFINE s == l.readers
           i == CHOOSE j \in DOMAIN s : s[j] = t
           b == SubSeq(s, 1, i - 1)
           e == SubSeq(s, i + 1, Len(s))
<1>1. s \in Seq(T) /\ Len(s) \in Nat /\ DOMAIN s = 1 .. Len(s)
  OBVIOUS
<1>2. i \in 1 .. Len(s) /\ s[i] = t
  BY <1>1 DEF Holds
<1>3. WithoutReader(l, t) = [l EXCEPT !.readers = b \o e]
  BY DEF WithoutReader
<1> HIDE DEF i
<1>4. \A k \in 1 .. Len(s) : s[k] \in T
  BY <1>1
<1> HIDE DEF s
<1>5. /\ b \in Seq(T) /\ Len(b) = i - 1
      /\ \A k \in 1 .. i - 1 : b[k] = s[k]
  <2>1. 1 \in Int /\ i - 1 \in Int /\ (\A k \in 1 .. i - 1 : s[k] \in T)
    BY <1>1, <1>2, <1>4
  <2>2. /\ b \in Seq(T) /\ Len(b) = IF 1 <= i - 1 THEN i - 1 - 1 + 1 ELSE 0
        /\ \A k \in 1 .. i - 1 - 1 + 1 : b[k] = s[1 + k - 1]
    BY <2>1, SubSeqProperties
  <2> HIDE DEF b
  <2> QED
    BY <1>1, <1>2, <2>2
<1>6. /\ e \in Seq(T) /\ Len(e) = Len(s) - i
      /\ \A k \in 1 .. Len(s) - i : e[k] = s[i + k]
  <2>1. i + 1 \in Int /\ Len(s) \in Int /\ (\A k \in i + 1 .. Len(s) : s[k] \in T)
    BY <1>1, <1>2, <1>4
  <2>2. /\ e \in Seq(T) /\ Len(e) = IF i + 1 <= Len(s) THEN Len(s) - (i + 1) + 1 ELSE 0
        /\ \A k \in 1 .. Len(s) - (i + 1) + 1 : e[k] = s[i + 1 + k - 1]
    BY <2>1, SubSeqProperties
  <2> HIDE DEF e
  <2>3. Len(e) = Len(s) - i
    <3>1. Len(e) = IF i + 1 <= Len(s) THEN Len(s) - (i + 1) + 1 ELSE 0
      BY <2>2
    <3>2. Len(s) \in Nat /\ i \in 1 .. Len(s)
      BY <1>1, <1>2
    <3> QED
      BY <3>1, <3>2
  <2>4. ASSUME NEW k \in 1 .. Len(s) - i
        PROVE  e[k] = s[i + k]
    <3>1. k \in 1 .. Len(s) - (i + 1) + 1 /\ i + 1 + k - 1 = i + k
      BY <1>1, <1>2
    <3>2. e[k] = s[i + 1 + k - 1]
      BY <2>2, <3>1
    <3> QED
      BY <3>1, <3>2
  <2> QED
    BY <2>2, <2>3, <2>4
<1> HIDE DEF b, e
<1>7. /\ b \o e \in Seq(T) /\ Len(b \o e) = Len(b) + Len(e)
      /\ \A k \in 1 .. Len(b) + Len(e) : (b \o e)[k] = IF k <= Len(b) THEN b[k] ELSE e[k - Len(b)]
  BY <1>5, <1>6, ConcatProperties
<1>8. \A u : u # t /\ Holds(s, u) => Holds(b \o e, u)
  <2> SUFFICES ASSUME NEW u, u # t, NEW j \in 1 .. Len(s), s[j] = u
               PROVE  \E k \in 1 .. Len(b \o e) : (b \o e)[k] = u
    BY DEF Holds
  <2>1. j # i
    BY <1>2
  <2>2. CASE j < i
    <3>1. j \in 1 .. Len(b \o e) /\ (b \o e)[j] = s[j]
      BY <1>1, <1>2, <1>5, <1>6, <1>7, <2>2
    <3> QED
      BY <3>1
  <2>3. CASE j > i
    <3>1. j - 1 \in 1 .. Len(b \o e) /\ (b \o e)[j - 1] = e[j - i]
      BY <1>1, <1>2, <1>5, <1>6, <1>7, <2>3
    <3>2. e[j - i] = s[j]
      BY <1>1, <1>2, <1>6, <2>3
    <3> QED
      BY <3>1, <3>2
  <2> QED
    BY <1>1, <1>2, <2>1, <2>2, <2>3
<1> QED
  BY <1>3, <1>7, <1>8 DEF s

LEMMA OneReaderMore ==
    ASSUME NEW T, NEW l \in [writer : SUBSET T, readers : Seq(T)], NEW t \in T
    PROVE  /\ WithReader(l, t) \in [writer : SUBSET T, readers : Seq(T)]
           /\ WithReader(l, t).writer = l.writer
           /\ Holds(WithReader(l, t).readers, t)
           /\ \A u : Holds(l.readers, u) => Holds(WithReader(l, t).readers, u)
<1>1. /\ WithReader(l, t) = [l EXCEPT !.readers = Append(l.readers, t)]
      /\ l.readers \in Seq(T) /\ Len(l.readers) \in Nat
  BY DEF WithReader
<1>2. /\ Append(l.readers, t) \in Seq(T) /\ Len(Append(l.readers, t)) = Len(l.readers) + 1
      /\ \A k \in 1 .. Len(l.readers) : Append(l.readers, t)[k] = l.readers[k]
      /\ Append(l.readers, t)[Len(l.readers) + 1] = t
  BY <1>1
<1>3. WithReader(l, t).readers = Append(l.readers, t) /\ WithReader(l, t).writer = l.writer
  BY <1>1
<1>4. Holds(Append(l.readers, t), t)
  BY <1>1, <1>2 DEF Holds
<1>5. \A u : Holds(l.readers, u) => Holds(Append(l.readers, t), u)
  BY <1>1, <1>2 DEF Holds
<1> QED
  BY <1>1, <1>2, <1>3, <1>4, <1>5

-----------------------------------------------------------------------------
(* What a step does to the places of the threads *)

LEMMA DoingKnown ==
    ASSUME PlansKnown, Typed, NEW t \in Threads, Running(t), Doing(t).op \in {"add", "fetch"}
    PROVE  Doing(t).of \in Uses[use].contents
<1>1. th[t].step \in Nat \ {0} /\ th[t].step <= Len(Uses[use].plan[t])
  BY DEF Typed, Running, ThreadStates
<1>2. Len(Uses[use].plan[t]) \in Nat /\ use \in DOMAIN Uses
  BY DEF PlansKnown, Typed, Threads
<1>3. th[t].step \in 1 .. Len(Uses[use].plan[t])
  BY <1>1, <1>2
<1> QED
  BY <1>2, <1>3 DEF PlansKnown, Doing, Threads

LEMMA GoFacts ==
    ASSUME Typed, use' = use, NEW t \in Threads, NEW a \in Places, Go(t, a)
    PROVE  /\ Threads' = Threads /\ th' \in [Threads -> ThreadStates]
           /\ \A u \in Threads : Doing(u)' = Doing(u)
           /\ \A u \in Threads \ {t} : \A op, b : At(u, op, b)' <=> At(u, op, b)
           /\ \A op, b : At(t, op, b)' <=> Running(t) /\ Doing(t).op = op /\ b = a
<1>1. Threads' = Threads
  BY DEF Threads
<1>2. /\ th' \in [Threads -> ThreadStates]
      /\ \A u \in Threads : th'[u].step = th[u].step /\ th'[u].at = IF u = t THEN a ELSE th[u].at
  BY DEF Typed, Go, ThreadStates
<1>3. \A u \in Threads : Doing(u)' = Doing(u) /\ (Running(u)' <=> Running(u))
  BY <1>2 DEF Doing, Running
<1> QED
  BY <1>1, <1>2, <1>3 DEF At

LEMMA DoneFacts ==
    ASSUME Typed, use' = use, NEW t \in Threads, NEW f \in FileStates, Done(t, f)
    PROVE  /\ Threads' = Threads /\ th' \in [Threads -> ThreadStates]
           /\ \A u \in Threads \ {t} : Doing(u)' = Doing(u)
           /\ \A u \in Threads \ {t} : \A op, b : At(u, op, b)' <=> At(u, op, b)
           /\ \A op, b : At(t, op, b)' => b = "start"
<1>1. Threads' = Threads
  BY DEF Threads
<1>2. /\ th' \in [Threads -> ThreadStates] /\ th'[t].at = "start"
      /\ \A u \in Threads \ {t} : th'[u] = th[u]
  BY DEF Typed, Done, ThreadStates, Places
<1>3. \A u \in Threads \ {t} : Doing(u)' = Doing(u) /\ (Running(u)' <=> Running(u))
  BY <1>2 DEF Doing, Running
<1> QED
  BY <1>1, <1>2, <1>3 DEF At

(* A step of t that leaves the files alone, and is not about a half written *)
(* one.                                                                     *)
LEMMA HalvesSame ==
    ASSUME HalvesKnown, Threads' = Threads, UNCHANGED <<use, file, torn>>, NEW t \in Threads,
           \A u \in Threads \ {t} : Doing(u)' = Doing(u),
           \A u \in Threads \ {t} : \A op, b : At(u, op, b)' <=> At(u, op, b),
           th[t].at # "created"
    PROVE  HalvesKnown'
<1>1. ~At(t, "add", "created")
  BY DEF At
<1> QED
  BY <1>1 DEF HalvesKnown

-----------------------------------------------------------------------------
(* Steps *)

LEMMA StepInv ==
    ASSUME PlansKnown, CasInv, Next
    PROVE  CasInv'
<1> USE DEF CasInv
<1>0. /\ use \in DOMAIN Uses /\ th \in [Threads -> ThreadStates]
      /\ file \in [Uses[use].contents -> FileStates]
      /\ lock \in [writer : SUBSET Threads, readers : Seq(Threads)]
  BY DEF Typed
<1>1. ASSUME NEW t \in Threads, Begin(t) \/ LockOuter(t)
      PROVE  CasInv'
  <2>1. UNCHANGED <<use, file, lock, torn>> /\ th[t].at \in {"start", "wait_outer"}
    BY <1>1 DEF Begin, LockOuter
  <2>2. PICK a \in {"wait_outer", "wait_lock", "unlocked"} : Go(t, a)
    BY <1>1 DEF Begin, LockOuter
  <2>3. /\ Threads' = Threads /\ th' \in [Threads -> ThreadStates]
        /\ \A u \in Threads : Doing(u)' = Doing(u)
        /\ \A u \in Threads \ {t} : \A op, b : At(u, op, b)' <=> At(u, op, b)
        /\ \A op, b : At(t, op, b)' => b = a
    BY <2>1, <2>2, GoFacts DEF Places
  <2>4. Typed'
    BY <1>0, <2>1, <2>3 DEF Typed
  <2>5. LocksHeld'
    BY <2>1, <2>2, <2>3 DEF LocksHeld
  <2>6. HalvesKnown'
    BY <2>1, <2>3, HalvesSame
  <2> QED
    BY <2>4, <2>5, <2>6
<1>2. ASSUME NEW t \in Threads, AddLock(t)
      PROVE  CasInv'
  <2>1. /\ UNCHANGED <<use, file, torn>> /\ Go(t, "locked") /\ At(t, "add", "wait_lock")
        /\ lock.writer = {} /\ lock.readers = <<>> /\ lock' = [lock EXCEPT !.writer = {t}]
    BY <1>2 DEF AddLock, MayWrite
  <2>0. Doing(t).op = "add" /\ th[t].at = "wait_lock"
    BY <2>1 DEF At
  <2>2. /\ Threads' = Threads /\ th' \in [Threads -> ThreadStates]
        /\ \A u \in Threads : Doing(u)' = Doing(u)
        /\ \A u \in Threads \ {t} : \A op, b : At(u, op, b)' <=> At(u, op, b)
        /\ \A op, b : At(t, op, b)' <=> Running(t) /\ Doing(t).op = op /\ b = "locked"
    BY <2>1, GoFacts DEF Places
  <2>3. /\ lock' \in [writer : SUBSET Threads, readers : Seq(Threads)]
        /\ lock'.writer = {t} /\ lock'.readers = <<>>
    BY <1>0, <2>1
  <2>4. Typed'
    BY <1>0, <2>1, <2>2, <2>3 DEF Typed
  <2>5. \A u : ~Holds(lock.readers, u)
    BY <2>1 DEF Holds
  <2>6. LocksHeld'
    BY <2>0, <2>1, <2>2, <2>3, <2>5 DEF LocksHeld
  <2>7. HalvesKnown'
    BY <2>0, <2>1, <2>2, HalvesSame
  <2> QED
    BY <2>4, <2>6, <2>7
<1>3. ASSUME NEW t \in Threads, AddCreate(t)
      PROVE  CasInv'
  <2>1. /\ UNCHANGED <<use, lock, torn>> /\ Go(t, "created") /\ At(t, "add", "locked")
        /\ file' = [file EXCEPT ![Doing(t).of] = "empty"]
    BY <1>3 DEF AddCreate
  <2>0. Running(t) /\ Doing(t).op = "add" /\ ~At(t, "add", "created")
    BY <2>1 DEF At
  <2>2. /\ Threads' = Threads /\ th' \in [Threads -> ThreadStates]
        /\ \A u \in Threads : Doing(u)' = Doing(u)
        /\ \A u \in Threads \ {t} : \A op, b : At(u, op, b)' <=> At(u, op, b)
        /\ \A op, b : At(t, op, b)' <=> Running(t) /\ Doing(t).op = op /\ b = "created"
    BY <2>1, GoFacts DEF Places
  <2>3. file' \in [Uses[use].contents -> FileStates]
    BY <1>0, <2>1 DEF FileStates
  <2>4. Typed'
    BY <1>0, <2>1, <2>2, <2>3 DEF Typed
  <2>5. LocksHeld'
    BY <2>0, <2>1, <2>2 DEF LocksHeld
  <2>6. HalvesKnown'
    <3> SUFFICES ASSUME NEW c \in Uses[use].contents, file'[c] = "empty"
                 PROVE  c \in torn \/ \E u \in Threads : At(u, "add", "created")' /\ Doing(u)'.of = c
      BY <2>1, <2>2 DEF HalvesKnown
    <3>1. CASE c = Doing(t).of
      BY <2>0, <2>2, <3>1
    <3>2. CASE c # Doing(t).of
      <4>1. file[c] = "empty"
        BY <1>0, <2>1, <3>2
      <4> QED
        BY <2>0, <2>2, <4>1 DEF HalvesKnown
    <3> QED
      BY <3>1, <3>2
  <2> QED
    BY <2>4, <2>5, <2>6
<1>4. ASSUME NEW t \in Threads, AddWrite(t) \/ AddFails(t)
      PROVE  CasInv'
  <2> DEFINE of == Doing(t).of
  <2>1. /\ use' = use /\ Done(t, "none") /\ At(t, "add", "created")
        /\ lock' = [lock EXCEPT !.writer = {}]
    BY <1>4 DEF AddWrite, AddFails
  <2>2. /\ Threads' = Threads /\ th' \in [Threads -> ThreadStates]
        /\ \A u \in Threads \ {t} : Doing(u)' = Doing(u)
        /\ \A u \in Threads \ {t} : \A op, b : At(u, op, b)' <=> At(u, op, b)
        /\ \A op, b : At(t, op, b)' => b = "start"
    BY <2>1, DoneFacts DEF FileStates
  <2>3. of \in Uses[use].contents
    BY <2>1, DoingKnown DEF At
  <2> HIDE DEF of
  <2>4. /\ file' \in [Uses[use].contents -> FileStates]
        /\ \A c \in Uses[use].contents : file'[c] = "empty" => file[c] = "empty" /\ (c = of => c \in torn')
        /\ torn \ {of} \subseteq torn'
    <3>1. CASE AddWrite(t)
      <4>1. file' = [file EXCEPT ![of] = "whole"] /\ torn' = torn \ {of}
        BY <3>1 DEF AddWrite, of
      <4> QED
        BY <1>0, <2>3, <4>1 DEF FileStates
    <3>2. CASE AddFails(t)
      <4>1. file' = file /\ torn' = torn \cup {of}
        BY <3>2 DEF AddFails, of
      <4> QED
        BY <1>0, <4>1
    <3> QED
      BY <1>4, <3>1, <3>2
  <2>5. /\ lock' \in [writer : SUBSET Threads, readers : Seq(Threads)]
        /\ lock'.writer = {} /\ lock'.readers = lock.readers
    BY <1>0, <2>1
  <2>6. lock.writer = {t}
    BY <2>1 DEF LocksHeld
  <2>7. Typed'
    BY <1>0, <2>1, <2>2, <2>4, <2>5 DEF Typed
  <2>8. LocksHeld'
    <3>1. \A u \in Threads \ {t}, a \in {"locked", "created"} : ~At(u, "add", a)
      BY <2>6 DEF LocksHeld
    <3>2. \A u \in Threads, a \in {"contains", "found", "missing"} :
              At(u, "fetch", a)' => Holds(lock'.readers, u)
      BY <2>2, <2>5 DEF LocksHeld
    <3> QED
      BY <2>2, <2>5, <3>1, <3>2 DEF LocksHeld
  <2>9. HalvesKnown'
    <3> SUFFICES ASSUME NEW c \in Uses[use].contents, file'[c] = "empty"
                 PROVE  c \in torn'
      BY <2>1, <2>2 DEF HalvesKnown
    <3>1. file[c] = "empty"
      BY <2>4
    <3>2. c \in torn \/ c = of
      BY <2>6, <3>1 DEF HalvesKnown, LocksHeld, of
    <3> QED
      BY <2>4, <3>2
  <2> QED
    BY <2>7, <2>8, <2>9
<1>5. ASSUME NEW t \in Threads, FetchLock(t)
      PROVE  CasInv'
  <2>1. /\ UNCHANGED <<use, file, torn>> /\ Go(t, "contains") /\ At(t, "fetch", "unlocked")
        /\ lock.writer = {} /\ lock' = WithReader(lock, t)
    BY <1>5 DEF FetchLock, MayRead
  <2>0. Doing(t).op = "fetch" /\ th[t].at = "unlocked"
    BY <2>1 DEF At
  <2>2. /\ Threads' = Threads /\ th' \in [Threads -> ThreadStates]
        /\ \A u \in Threads : Doing(u)' = Doing(u)
        /\ \A u \in Threads \ {t} : \A op, b : At(u, op, b)' <=> At(u, op, b)
        /\ \A op, b : At(t, op, b)' <=> Running(t) /\ Doing(t).op = op /\ b = "contains"
    BY <2>1, GoFacts DEF Places
  <2>3. /\ lock' \in [writer : SUBSET Threads, readers : Seq(Threads)] /\ lock'.writer = {}
        /\ Holds(lock'.readers, t) /\ \A u : Holds(lock.readers, u) => Holds(lock'.readers, u)
    <3>1. /\ WithReader(lock, t) \in [writer : SUBSET Threads, readers : Seq(Threads)]
          /\ WithReader(lock, t).writer = lock.writer
          /\ Holds(WithReader(lock, t).readers, t)
          /\ \A u : Holds(lock.readers, u) => Holds(WithReader(lock, t).readers, u)
      BY <1>0, OneReaderMore
    <3> QED
      BY <2>1, <3>1
  <2>4. Typed'
    BY <1>0, <2>1, <2>2, <2>3 DEF Typed
  <2>5. LocksHeld'
    BY <2>0, <2>1, <2>2, <2>3 DEF LocksHeld
  <2>6. HalvesKnown'
    BY <2>0, <2>1, <2>2, HalvesSame
  <2> QED
    BY <2>4, <2>5, <2>6
<1>6. ASSUME NEW t \in Threads, Contains(t)
      PROVE  CasInv'
  <2>1. UNCHANGED <<use, file, lock, torn>> /\ At(t, "fetch", "contains")
    BY <1>6 DEF Contains
  <2>0. Doing(t).op = "fetch" /\ th[t].at = "contains"
    BY <2>1 DEF At
  <2>2. PICK a \in {"found", "missing"} : Go(t, a)
    BY <1>6 DEF Contains
  <2>3. /\ Threads' = Threads /\ th' \in [Threads -> ThreadStates]
        /\ \A u \in Threads : Doing(u)' = Doing(u)
        /\ \A u \in Threads \ {t} : \A op, b : At(u, op, b)' <=> At(u, op, b)
        /\ \A op, b : At(t, op, b)' <=> Running(t) /\ Doing(t).op = op /\ b = a
    BY <2>1, <2>2, GoFacts DEF Places
  <2>4. Typed'
    BY <1>0, <2>1, <2>3 DEF Typed
  <2>5. LocksHeld'
    BY <2>0, <2>1, <2>3 DEF LocksHeld
  <2>6. HalvesKnown'
    BY <2>0, <2>1, <2>3, HalvesSame
  <2> QED
    BY <2>4, <2>5, <2>6
<1>7. ASSUME NEW t \in Threads, FetchRead(t)
      PROVE  CasInv'
  <2>1. /\ UNCHANGED <<use, file, torn>> /\ lock' = WithoutReader(lock, t)
        /\ At(t, "fetch", "found") \/ At(t, "fetch", "missing")
    BY <1>7 DEF FetchRead
  <2>2. PICK f \in FileStates : Done(t, f)
    <3>1. Doing(t).of \in Uses[use].contents
      BY <2>1, DoingKnown DEF At
    <3>2. file[Doing(t).of] \in FileStates /\ "none" \in FileStates
      BY <1>0, <3>1 DEF FileStates
    <3> QED
      BY <1>7, <3>2 DEF FetchRead
  <2>3. /\ Threads' = Threads /\ th' \in [Threads -> ThreadStates]
        /\ \A u \in Threads \ {t} : Doing(u)' = Doing(u)
        /\ \A u \in Threads \ {t} : \A op, b : At(u, op, b)' <=> At(u, op, b)
        /\ \A op, b : At(t, op, b)' => b = "start"
    BY <2>1, <2>2, DoneFacts
  <2>4. Holds(lock.readers, t)
    BY <2>1 DEF LocksHeld
  <2>5. /\ lock' \in [writer : SUBSET Threads, readers : Seq(Threads)] /\ lock'.writer = lock.writer
        /\ \A u : u # t /\ Holds(lock.readers, u) => Holds(lock'.readers, u)
    BY <1>0, <2>1, <2>4, OneReaderLess
  <2>6. lock.writer = {}
    BY <2>4 DEF LocksHeld, Holds
  <2>7. Typed'
    BY <1>0, <2>1, <2>3, <2>5 DEF Typed
  <2>8. LocksHeld'
    BY <2>3, <2>5, <2>6 DEF LocksHeld
  <2>9. HalvesKnown'
    <3>1. th[t].at # "created"
      BY <2>1 DEF At
    <3> QED
      BY <2>1, <2>3, <3>1, HalvesSame
  <2> QED
    BY <2>7, <2>8, <2>9
<1>8. ASSUME NEW t \in Threads, Send(t) \/ Recv(t)
      PROVE  CasInv'
  <2>1. UNCHANGED <<use, file, lock, torn>> /\ th[t].at = "start" /\ Done(t, th[t].found)
    BY <1>8 DEF Send, Recv, At
  <2>2. th[t].found \in FileStates
    BY <1>0 DEF ThreadStates
  <2>3. /\ Threads' = Threads /\ th' \in [Threads -> ThreadStates]
        /\ \A u \in Threads \ {t} : Doing(u)' = Doing(u)
        /\ \A u \in Threads \ {t} : \A op, b : At(u, op, b)' <=> At(u, op, b)
        /\ \A op, b : At(t, op, b)' => b = "start"
    BY <2>1, <2>2, DoneFacts
  <2>4. Typed'
    BY <1>0, <2>1, <2>3 DEF Typed
  <2>5. LocksHeld'
    BY <2>1, <2>3 DEF LocksHeld
  <2>6. HalvesKnown'
    BY <2>1, <2>3, HalvesSame
  <2> QED
    BY <2>4, <2>5, <2>6
<1>9. CASE Crash
  <2>1. /\ UNCHANGED <<use, file>> /\ torn' = torn \cup {c \in DOMAIN file : file[c] = "empty"}
        /\ th' = Started(use) /\ lock' = Free /\ Threads' = Threads
    BY <1>9 DEF Crash, Threads
  <2>2. /\ th' \in [Threads -> ThreadStates] /\ \A t \in Threads : th'[t].at = "start"
    BY <2>1 DEF Started, Threads, ThreadStates, Places, FileStates
  <2>3. /\ lock' \in [writer : SUBSET Threads, readers : Seq(Threads)] /\ lock'.writer = {}
    BY <2>1 DEF Free
  <2>4. Typed'
    BY <1>0, <2>1, <2>2, <2>3 DEF Typed
  <2>5. LocksHeld'
    BY <2>1, <2>2, <2>3 DEF LocksHeld, At
  <2>6. HalvesKnown'
    BY <1>0, <2>1 DEF HalvesKnown
  <2> QED
    BY <2>4, <2>5, <2>6
<1> QED
  BY <1>1, <1>2, <1>3, <1>4, <1>5, <1>6, <1>7, <1>8, <1>9 DEF Next, Work

-----------------------------------------------------------------------------
(* No thread that fetches a content meets a file that FilesystemStorage::add *)
(* has created and not yet written, unless a crash or a failed write has     *)
(* cut the file off: though contains is called, and the file read, after     *)
(* other threads may have begun to wait.                                     *)
THEOREM NeverHalfRead ==
    ASSUME PlansKnown
    PROVE  Spec => []NoHalfRead
<1>1. Init => CasInv
  <2> SUFFICES ASSUME Init
               PROVE  CasInv
    OBVIOUS
  <2>1. /\ th \in [Threads -> ThreadStates] /\ \A t \in Threads : th[t].at = "start"
    BY DEF Init, Started, Threads, ThreadStates, Places, FileStates
  <2>2. /\ lock \in [writer : SUBSET Threads, readers : Seq(Threads)] /\ lock.writer = {}
    BY DEF Init, Free
  <2>3. file \in [Uses[use].contents -> FileStates] /\ \A c \in Uses[use].contents : file[c] = "none"
    BY DEF Init, FileStates
  <2>4. Typed
    BY <2>1, <2>2, <2>3 DEF Init, Typed
  <2>5. LocksHeld /\ HalvesKnown
    BY <2>1, <2>2, <2>3 DEF LocksHeld, HalvesKnown, At
  <2> QED
    BY <2>4, <2>5 DEF CasInv
<1>2. CasInv /\ [Next]_vars => CasInv'
  <2>1. ASSUME CasInv, UNCHANGED vars
        PROVE  CasInv'
    <3>1. UNCHANGED <<use, th, file, lock, torn>> /\ Threads' = Threads
      BY <2>1 DEF vars, Threads
    <3>2. /\ \A t : Doing(t)' = Doing(t) /\ (Running(t)' <=> Running(t))
      BY <3>1 DEF Doing, Running
    <3>3. \A t, op, a : At(t, op, a)' <=> At(t, op, a)
      BY <3>1, <3>2 DEF At
    <3> QED
      BY <2>1, <3>1, <3>2, <3>3 DEF CasInv, Typed, LocksHeld, HalvesKnown
  <2> QED
    BY <2>1, StepInv
<1>3. CasInv => NoHalfRead
  <2> SUFFICES ASSUME CasInv, NEW t \in Threads, At(t, "fetch", "found"), file[Doing(t).of] = "empty",
                      Doing(t).of \notin torn
               PROVE  FALSE
    BY DEF NoHalfRead
  <2>1. Doing(t).of \in Uses[use].contents
    BY DoingKnown DEF CasInv, At
  <2>2. PICK u \in Threads : At(u, "add", "created")
    BY <2>1 DEF CasInv, HalvesKnown
  <2>3. lock.writer # {} /\ Holds(lock.readers, t)
    BY <2>2 DEF CasInv, LocksHeld
  <2> QED
    BY <2>3 DEF CasInv, LocksHeld, Holds
<1> QED
  BY <1>1, <1>2, <1>3, PTL DEF Spec


=============================================================================
