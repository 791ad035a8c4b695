------------------------- MODULE HoldWorkflowProofs -------------------------
(***************************************************************************)
(* Proofs about HoldWorkflow, for every set of entries and links and every *)
(* bound.                                                                  *)
(*                                                                         *)
(* What the theorems rest on is what the queued actions and the waiting    *)
(* threads say of the item they are for: only validated items are to be    *)
(* stored, only an item that is held or refused is to be removed from the  *)
(* pending ones, and the answer a thread got for its link is true.         *)
(***************************************************************************)
EXTENDS HoldWorkflow, SequenceTheorems, WellFoundedInduction, TLAPS

(* What an action in the channel says of its item. *)
Meant(a) ==
    /\ a[1] = "Hold" => a[2] \in Entry \ invalid
    /\ a[1] = "AddLink" => a[2] \in Link \ invalid /\ a[3] \in Slot
    /\ a[1] = "RemovePending" => a[2] \in held \cup refused

AllMeant == \A k \in 1 .. Len(chan) : Meant(chan[k])

(* A thread asks for its link once. *)
AddedOnce ==
    \A j, k \in 1 .. Len(chan) : chan[j] = chan[k] /\ chan[j][1] = "AddLink" => j = k

(* The thread that asked for the link has the answer. *)
AnsweredRight ==
    \A l \in Link, n \in Slot :
        /\ At(l, n, "ok") => l \in held
        /\ At(l, n, "err") => l \in refused

HoldInv ==
    TypeOK /\ AllMeant /\ AddedOnce /\ AnsweredRight /\ HeldAreValid /\ NothingForgotten

-----------------------------------------------------------------------------
(* Free slots *)

LEMMA Smallest ==
    ASSUME NEW S \in SUBSET Nat, S # {}
    PROVE  \E n \in S : \A k \in S : n <= k
<1> DEFINE R == OpToRel(<, Nat)
<1>1. IsWellFoundedOn(R, Nat)
  BY NatLessThanWellFounded
<1>2. \A x, y \in Nat : x < y => <<x, y>> \in R
  BY DEF OpToRel
<1> HIDE DEF R
<1>3. PICK x \in S : \A y \in S : ~(<<y, x>> \in R)
  BY <1>1, WFMin
<1>4. \A y \in S : ~(y < x) /\ y \in Nat /\ x \in Nat
  BY <1>2, <1>3
<1>5. \A y \in S : x <= y
  BY <1>4
<1> QED
  BY <1>5

LEMMA FirstIdleIdle ==
    ASSUME NEW i \in Item, IdleSlots(i) # {}
    PROVE  FirstIdle(i) \in Slot /\ thread[i][FirstIdle(i)] = Idle
<1>1. IdleSlots(i) \in SUBSET Nat
  BY BoundsAssumption DEF IdleSlots, Slot
<1>2. FirstIdle(i) \in IdleSlots(i)
  BY <1>1, Smallest DEF FirstIdle
<1> QED
  BY <1>2 DEF IdleSlots

Threads == [Item -> [Slot -> [at : Stage, retry : BOOLEAN]]]

(* Threads start in slots that were free. *)
LEMMA Spawning ==
    ASSUME thread \in Threads, NEW is \in SUBSET Item, NEW retry \in BOOLEAN,
           \A i \in is : IdleSlots(i) # {}, thread' = Spawn(is, retry)
    PROVE  /\ thread' \in Threads
           /\ \A i \in Item, n \in Slot :
                \/ thread'[i][n] = thread[i][n]
                \/ thread[i][n] = Idle /\ thread'[i][n].at = "package"
           /\ \A i \in Item : Busy(i) \/ i \in is => Busy(i)'
<1> DEFINE p == [at |-> "package", retry |-> retry]
<1>1. p \in [at : Stage, retry : BOOLEAN] /\ p # Idle /\ p.at = "package"
  BY DEF Stage, Idle
<1>2. \A i \in Item : thread'[i] = IF i \in is THEN [thread[i] EXCEPT ![FirstIdle(i)] = p]
                                              ELSE thread[i]
  BY DEF Spawn
<1> HIDE DEF p
<1>3. \A i \in is : FirstIdle(i) \in Slot /\ thread[i][FirstIdle(i)] = Idle
  BY FirstIdleIdle
<1>4. \A i \in Item : thread[i] \in [Slot -> [at : Stage, retry : BOOLEAN]]
  BY DEF Threads
<1>5. \A i \in Item : thread'[i] \in [Slot -> [at : Stage, retry : BOOLEAN]]
  <2> TAKE i \in Item
  <2>1. CASE i \in is
    <3>1. thread'[i] = [thread[i] EXCEPT ![FirstIdle(i)] = p]
      BY <1>2, <2>1
    <3>2. \A R, f, x : f \in [Slot -> R] /\ p \in R => [f EXCEPT ![x] = p] \in [Slot -> R]
      OBVIOUS
    <3> DEFINE R == [at : Stage, retry : BOOLEAN]
    <3>3. p \in R /\ thread[i] \in [Slot -> R]
      BY <1>1, <1>4
    <3> HIDE DEF R
    <3>4. thread'[i] \in [Slot -> R]
      BY <3>1, <3>2, <3>3
    <3> QED
      BY <3>4 DEF R
  <2>2. CASE i \notin is
    BY <1>2, <1>4, <2>2
  <2> QED
    BY <2>1, <2>2
<1>6. thread' \in Threads
  BY <1>5 DEF Spawn, Threads
<1>7. \A i \in is : thread'[i][FirstIdle(i)] = p
  BY <1>2, <1>3, <1>4
<1>8. \A i \in Item, n \in Slot :
          \/ thread'[i][n] = thread[i][n]
          \/ i \in is /\ n = FirstIdle(i) /\ thread'[i][n] = p
  BY <1>2, <1>4, <1>7
<1>9. \A i \in Item : Busy(i) \/ i \in is => Busy(i)'
  <2> SUFFICES ASSUME NEW i \in Item, Busy(i) \/ i \in is
               PROVE  \E n \in Slot : thread'[i][n] # Idle
    BY DEF Busy, IdleSlots
  <2>1. CASE i \in is
    BY <1>1, <1>3, <1>7, <2>1
  <2>2. CASE Busy(i)
    <3>1. PICK n \in Slot : thread[i][n] # Idle
      BY <2>2 DEF Busy, IdleSlots
    <3> QED
      BY <1>1, <1>8, <3>1
  <2> QED
    BY <2>1, <2>2
<1> QED
  BY <1>1, <1>3, <1>6, <1>8, <1>9

(* A thread goes on, or ends. *)
LEMMA Going ==
    ASSUME thread \in Threads, NEW i \in Item, NEW n \in Slot, NEW stage \in Stage \ {"idle"},
           thread' = [thread EXCEPT ![i][n].at = stage]
    PROVE  /\ thread' \in Threads
           /\ thread'[i][n].at = stage
           /\ \A j \in Item, m \in Slot : j # i \/ m # n => thread'[j][m] = thread[j][m]
           /\ \A j \in Item : Busy(j) => Busy(j)'
<1>1. thread[i][n] \in [at : Stage, retry : BOOLEAN]
  BY DEF Threads
<1>2. /\ thread' \in Threads
      /\ thread'[i][n].at = stage
      /\ \A j \in Item, m \in Slot : j # i \/ m # n => thread'[j][m] = thread[j][m]
  BY <1>1 DEF Threads
<1>3. thread'[i][n] # Idle
  BY <1>2 DEF Idle
<1> QED
  BY <1>2, <1>3 DEF Busy, IdleSlots

LEMMA Ending ==
    ASSUME thread \in Threads, NEW i \in Item, NEW n \in Slot,
           thread' = [thread EXCEPT ![i][n] = Idle]
    PROVE  /\ thread' \in Threads
           /\ thread'[i][n] = Idle
           /\ \A j \in Item, m \in Slot : j # i \/ m # n => thread'[j][m] = thread[j][m]
           /\ \A j \in Item : j # i /\ Busy(j) => Busy(j)'
<1>1. Idle \in [at : Stage, retry : BOOLEAN]
  BY DEF Idle, Stage
<1>2. /\ thread' \in Threads
      /\ thread'[i][n] = Idle
      /\ \A j \in Item, m \in Slot : j # i \/ m # n => thread'[j][m] = thread[j][m]
  BY <1>1 DEF Threads
<1> QED
  BY <1>2 DEF Busy, IdleSlots
-----------------------------------------------------------------------------
(* The channel *)

LEMMA Dispatching ==
    ASSUME chan \in Seq(Action), AddedOnce,
           NEW op, NEW i, NEW n, <<op, i, n>> \in Action, Dispatch(op, i, n),
           op = "AddLink" => <<op, i, n>> \notin Queued(i)
    PROVE  /\ chan' \in Seq(Action) /\ Len(chan') <= Buf
           /\ AddedOnce'
           /\ \A j : Queued(j) \subseteq Queued(j)'
           /\ \A j : Queued(j)' \subseteq Queued(j) \cup {<<op, i, n>>}
           /\ <<op, i, n>> \in Queued(i)'
           /\ \A k \in 1 .. Len(chan') :
                chan'[k] = <<op, i, n>> \/ \E m \in 1 .. Len(chan) : chan'[k] = chan[m]
<1> DEFINE a == <<op, i, n>>
<1>0. a[1] = op /\ a[2] = i /\ a \in Action /\ (op = "AddLink" => a \notin Queued(i))
  OBVIOUS
<1>1. Len(chan) < Buf /\ chan' = Append(chan, a)
  BY DEF Dispatch
<1> HIDE DEF a
<1>2. /\ chan' \in Seq(Action)
      /\ Len(chan) \in Nat /\ Len(chan') = Len(chan) + 1
      /\ \A k \in 1 .. Len(chan) : chan'[k] = chan[k]
      /\ chan'[Len(chan) + 1] = a
  BY <1>0, <1>1, AppendProperties, LenProperties
<1>3. /\ \A k \in 1 .. Len(chan') : k \in 1 .. Len(chan) \/ k = Len(chan) + 1
      /\ \A k \in 1 .. Len(chan) : k \in 1 .. Len(chan')
      /\ Len(chan) + 1 \in 1 .. Len(chan')
      /\ Len(chan') <= Buf
      /\ DOMAIN chan = 1 .. Len(chan) /\ DOMAIN chan' = 1 .. Len(chan')
  BY <1>1, <1>2, BoundsAssumption, LenProperties
<1>4. /\ \A j : Queued(j) \subseteq Queued(j)'
      /\ \A j : Queued(j)' \subseteq Queued(j) \cup {a}
      /\ a \in Queued(i)'
  BY <1>0, <1>2, <1>3 DEF Queued
<1>5. AddedOnce'
  <2>1. op = "AddLink" => \A k \in 1 .. Len(chan) : chan[k] # a
    BY <1>0, <1>3 DEF Queued
  <2> SUFFICES ASSUME NEW j \in 1 .. Len(chan'), NEW k \in 1 .. Len(chan'),
                      chan'[j] = chan'[k], chan'[j][1] = "AddLink"
               PROVE  j = k
    BY DEF AddedOnce
  <2> QED
    BY <1>0, <1>2, <1>3, <2>1 DEF AddedOnce
<1> QED
  BY <1>2, <1>3, <1>4, <1>5 DEF a

LEMMA Taking ==
    ASSUME chan \in Seq(Action), Len(chan) <= Buf, AddedOnce, chan # <<>>, chan' = Tail(chan)
    PROVE  /\ chan' \in Seq(Action) /\ Len(chan') <= Buf
           /\ AddedOnce'
           /\ Head(chan) \in Action /\ Len(chan) \in Nat
           /\ 1 \in 1 .. Len(chan) /\ Head(chan) = chan[1]
           /\ \A j : Queued(j)' \subseteq Queued(j)
           /\ \A j : Queued(j) \subseteq Queued(j)' \cup {Head(chan)}
           /\ Head(chan)[1] = "AddLink" => \A j : Head(chan) \notin Queued(j)'
           /\ \A k \in 1 .. Len(chan') : \E m \in 1 .. Len(chan) : chan'[k] = chan[m]
<1> DEFINE a == Head(chan)
<1>1. /\ a \in Action /\ a = chan[1]
      /\ chan' \in Seq(Action)
      /\ Len(chan) \in Nat \ {0} /\ Len(chan') = Len(chan) - 1
      /\ \A k \in 1 .. Len(chan') : chan'[k] = chan[k + 1]
  BY HeadTailProperties, LenProperties, EmptySeq
<1> HIDE DEF a
<1>2. /\ 1 \in 1 .. Len(chan) /\ Len(chan') <= Buf
      /\ \A k \in 1 .. Len(chan') : k + 1 \in 1 .. Len(chan) /\ k + 1 # 1
      /\ \A j, k \in 1 .. Len(chan') : j + 1 = k + 1 => j = k
      /\ \A k \in 1 .. Len(chan) : k = 1 \/ \E m \in 1 .. Len(chan') : k = m + 1
      /\ DOMAIN chan = 1 .. Len(chan) /\ DOMAIN chan' = 1 .. Len(chan')
  <2>1. \A k \in 1 .. Len(chan) : k = 1 \/ (k - 1 \in 1 .. Len(chan') /\ k = (k - 1) + 1)
    BY <1>1
  <2> QED
    BY <1>1, <2>1, BoundsAssumption, LenProperties
<1>3. AddedOnce'
  BY <1>1, <1>2 DEF AddedOnce
<1>4. /\ \A j : Queued(j)' \subseteq Queued(j)
      /\ \A j : Queued(j) \subseteq Queued(j)' \cup {a}
  <2>1. {chan'[k] : k \in DOMAIN chan'} \subseteq {chan[k] : k \in DOMAIN chan}
    BY <1>1, <1>2
  <2>2. {chan[k] : k \in DOMAIN chan} \subseteq {chan'[k] : k \in DOMAIN chan'} \cup {a}
    <3> SUFFICES ASSUME NEW k \in 1 .. Len(chan), k # 1
                 PROVE  \E m \in DOMAIN chan' : chan[k] = chan'[m]
      BY <1>1, <1>2
    <3>1. PICK m \in 1 .. Len(chan') : k = m + 1
      BY <1>2
    <3>2. chan'[m] = chan[m + 1]
      BY <1>1
    <3> QED
      BY <1>2, <3>1, <3>2
  <2> QED
    BY <2>1, <2>2 DEF Queued
<1>5. a[1] = "AddLink" => \A j : a \notin Queued(j)'
  BY <1>1, <1>2 DEF Queued, AddedOnce
<1>6. \A k \in 1 .. Len(chan') : \E m \in 1 .. Len(chan) : chan'[k] = chan[m]
  BY <1>1, <1>2
<1> QED
  BY <1>1, <1>2, <1>3, <1>4, <1>5, <1>6 DEF a
-----------------------------------------------------------------------------
(* The inductive invariant *)

StoreQueued ==
    \A l \in Link, n \in Slot :
        At(l, n, "store") <=> <<"AddLink", l, n>> \in Queued(l)

LEMMA HoldInvInit == Init => HoldInv
<1> SUFFICES ASSUME Init PROVE HoldInv
  OBVIOUS
<1>1. chan = <<>> /\ chan \in Seq(Action) /\ Len(chan) = 0 /\ DOMAIN chan = {}
  BY DEF Init
<1>2. \A i \in Item, n \in Slot : thread[i][n] = Idle
  BY DEF Init
<1>3. thread \in Threads
  BY DEF Init, Threads, Idle, Stage
<1>4. StoreQueued
  BY <1>1, <1>2 DEF StoreQueued, At, Idle, Queued, Item
<1>5. TypeOK
  BY <1>1, <1>3, <1>4, BoundsAssumption DEF Init, TypeOK, Threads, StoreQueued
<1>6. AllMeant /\ AddedOnce
  BY <1>1 DEF AllMeant, AddedOnce
<1>7. AnsweredRight
  BY <1>2 DEF AnsweredRight, At, Idle, Item
<1>8. HeldAreValid /\ NothingForgotten
  BY DEF Init, HeldAreValid, NothingForgotten
<1> QED
  BY <1>5, <1>6, <1>7, <1>8 DEF HoldInv

(* Threads start: the channel and what is held stay as they are. *)
LEMMA SpawnStep ==
    ASSUME HoldInv, NEW is \in SUBSET Item, NEW retry \in BOOLEAN,
           \A i \in is : IdleSlots(i) # {}, thread' = Spawn(is, retry),
           UNCHANGED <<invalid, chan, pending, held, crashes, refused, lost>>,
           stores' \in [Item -> 0 .. MaxStores],
           \A i \in Item \ is : stores'[i] = stores[i]
    PROVE  HoldInv'
<1> USE DEF HoldInv
<1>1. thread \in Threads
  BY DEF TypeOK, Threads
<1>2. /\ thread' \in Threads
      /\ \A i \in Item, n \in Slot :
           \/ thread'[i][n] = thread[i][n]
           \/ thread[i][n] = Idle /\ thread'[i][n].at = "package"
      /\ \A i \in Item : Busy(i) \/ i \in is => Busy(i)'
  BY <1>1, Spawning
<1>3. \A l \in Link, n \in Slot, stage \in {"store", "ok", "err"} :
          thread'[l][n].at = stage <=> thread[l][n].at = stage
  BY <1>2 DEF Idle, Item
<1>4. \A i : Queued(i)' = Queued(i)
  BY DEF Queued
<1>5. TypeOK'
  BY <1>2, <1>3, <1>4 DEF TypeOK, Threads, At
<1>6. AllMeant' /\ AddedOnce' /\ HeldAreValid'
  BY DEF AllMeant, Meant, AddedOnce, HeldAreValid
<1>7. AnsweredRight'
  BY <1>3 DEF AnsweredRight, At
<1>8. NothingForgotten'
  BY <1>2, <1>4 DEF NothingForgotten
<1> QED
  BY <1>5, <1>6, <1>7, <1>8

(* A workflow ends. *)
LEMMA FinishStep ==
    ASSUME HoldInv, NEW i \in Item, NEW n \in Slot, NEW pend \in BOOLEAN, NEW add \in BOOLEAN,
           Finish(i, n, pend, add),
           UNCHANGED <<invalid, pending, held, stores, crashes, refused, lost>>,
           i \in Link => ~At(i, n, "store"),
           ~add => i \in invalid \cup held \cup refused,
           ~add /\ ~pend => i \in held \cup refused
    PROVE  HoldInv'
<1> USE DEF HoldInv
<1>1. thread \in Threads /\ chan \in Seq(Action) /\ Len(chan) <= Buf
  BY DEF TypeOK, Threads
<1>2. /\ thread' \in Threads
      /\ thread'[i][n] = Idle
      /\ \A j \in Item, m \in Slot : j # i \/ m # n => thread'[j][m] = thread[j][m]
      /\ \A j \in Item : j # i /\ Busy(j) => Busy(j)'
  BY <1>1, Ending DEF Finish
<1>3. \A l \in Link, m \in Slot, stage \in {"ok", "err"} :
          thread'[l][m].at = stage => thread[l][m].at = stage
  BY <1>2 DEF Idle, Item
<1>4. \A l \in Link, m \in Slot : thread'[l][m].at = "store" <=> thread[l][m].at = "store"
  BY <1>2 DEF Idle, Item, At
<1>5. ASSUME /\ chan' \in Seq(Action) /\ Len(chan') <= Buf /\ AddedOnce' /\ AllMeant'
             /\ \A j \in Item : Queued(j) \subseteq Queued(j)'
             /\ \A l \in Link, m \in Slot : <<"AddLink", l, m>> \in Queued(l)'
                                             => <<"AddLink", l, m>> \in Queued(l)
             /\ add => Queued(i)' # {}
      PROVE  HoldInv'
  <2>1. TypeOK'
    BY <1>2, <1>4, <1>5 DEF TypeOK, Threads, At, Item
  <2>2. AnsweredRight' /\ HeldAreValid'
    BY <1>3 DEF AnsweredRight, At, HeldAreValid
  <2>3. NothingForgotten'
    BY <1>2, <1>5 DEF NothingForgotten
  <2> QED
    BY <1>5, <2>1, <2>2, <2>3
<1>6. ASSUME NEW op \in {"AddPending", "RemovePending"}, Dispatch(op, i, 0),
             op = "RemovePending" => i \in held \cup refused
      PROVE  HoldInv'
  <2>1. <<op, i, 0>> \in Action
    BY BoundsAssumption DEF Action
  <2>2. /\ chan' \in Seq(Action) /\ Len(chan') <= Buf
        /\ AddedOnce'
        /\ \A j : Queued(j) \subseteq Queued(j)'
        /\ \A j : Queued(j)' \subseteq Queued(j) \cup {<<op, i, 0>>}
        /\ <<op, i, 0>> \in Queued(i)'
        /\ \A k \in 1 .. Len(chan') :
             chan'[k] = <<op, i, 0>> \/ \E m \in 1 .. Len(chan) : chan'[k] = chan[m]
    BY <1>1, <1>6, <2>1, Dispatching
  <2>3. AllMeant'
    BY <1>6, <2>2 DEF AllMeant, Meant
  <2>4. \A l \in Link, m \in Slot : <<"AddLink", l, m>> # <<op, i, 0>>
    OBVIOUS
  <2> QED
    BY <1>5, <2>2, <2>3, <2>4
<1>7. CASE chan' = chan /\ ~add
  <2>1. \A j : Queued(j)' = Queued(j)
    BY <1>7 DEF Queued
  <2>2. AllMeant' /\ AddedOnce'
    BY <1>7 DEF AllMeant, Meant, AddedOnce
  <2> QED
    BY <1>1, <1>5, <1>7, <2>1, <2>2
<1> QED
  BY <1>6, <1>7 DEF Finish
LEMMA PackageArrivesStep ==
    ASSUME HoldInv, NEW i \in Item, NEW n \in Slot, PackageArrives(i, n)
    PROVE  HoldInv'
<1> USE DEF HoldInv
<1>1. thread \in Threads /\ "validate" \in Stage \ {"idle"} /\ thread[i][n].at = "package"
  BY DEF TypeOK, Threads, Stage, PackageArrives, At
<1>2. /\ thread' \in Threads
      /\ thread'[i][n].at = "validate"
      /\ \A j \in Item, m \in Slot : j # i \/ m # n => thread'[j][m] = thread[j][m]
      /\ \A j \in Item : Busy(j) => Busy(j)'
  BY <1>1, Going DEF PackageArrives, Goto
<1>3. \A l \in Link, m \in Slot, stage \in {"store", "ok", "err"} :
          thread'[l][m].at = stage <=> thread[l][m].at = stage
  BY <1>1, <1>2 DEF Item
<1>4. \A j : Queued(j)' = Queued(j)
  BY DEF Queued, PackageArrives
<1>5. TypeOK'
  BY <1>2, <1>3, <1>4 DEF TypeOK, Threads, At, PackageArrives
<1>6. AllMeant' /\ AddedOnce' /\ HeldAreValid'
  BY DEF AllMeant, Meant, AddedOnce, HeldAreValid, PackageArrives
<1>7. AnsweredRight'
  BY <1>3 DEF AnsweredRight, At, PackageArrives
<1>8. NothingForgotten'
  BY <1>2, <1>4 DEF NothingForgotten, PackageArrives
<1> QED
  BY <1>5, <1>6, <1>7, <1>8

LEMMA FindValidStep ==
    ASSUME HoldInv, NEW i \in Item, NEW n \in Slot, FindValid(i, n)
    PROVE  HoldInv'
<1> USE DEF HoldInv
<1> DEFINE op == IF i \in Entry THEN "Hold" ELSE "AddLink"
<1>1. /\ thread \in Threads /\ "store" \in Stage \ {"idle"} /\ thread[i][n].at = "validate"
      /\ chan \in Seq(Action)
  BY DEF TypeOK, Threads, Stage, FindValid, At
<1>2. /\ thread' \in Threads
      /\ thread'[i][n].at = "store"
      /\ \A j \in Item, m \in Slot : j # i \/ m # n => thread'[j][m] = thread[j][m]
      /\ \A j \in Item : Busy(j) => Busy(j)'
  BY <1>1, Going DEF FindValid, Goto
<1>3. /\ op \in {"Hold", "AddLink"} /\ (op = "Hold" => i \in Entry)
      /\ (op = "AddLink" <=> i \in Link)
      /\ Dispatch(op, i, n)
      /\ i \notin invalid
  BY ItemAssumption DEF FindValid, Item
<1> HIDE DEF op
<1>4. <<op, i, n>> \in Action
  BY <1>3, BoundsAssumption DEF Action, Slot
<1>5. op = "AddLink" => <<op, i, n>> \notin Queued(i)
  BY <1>1, <1>3 DEF TypeOK, At
<1>6. /\ chan' \in Seq(Action) /\ Len(chan') <= Buf
      /\ AddedOnce'
      /\ \A j : Queued(j) \subseteq Queued(j)'
      /\ \A j : Queued(j)' \subseteq Queued(j) \cup {<<op, i, n>>}
      /\ <<op, i, n>> \in Queued(i)'
      /\ \A k \in 1 .. Len(chan') :
           chan'[k] = <<op, i, n>> \/ \E m \in 1 .. Len(chan) : chan'[k] = chan[m]
  BY <1>1, <1>3, <1>4, <1>5, Dispatching
<1>7. StoreQueued'
  <2> SUFFICES ASSUME NEW l \in Link, NEW m \in Slot
               PROVE  thread'[l][m].at = "store" <=> <<"AddLink", l, m>> \in Queued(l)'
    BY DEF StoreQueued, At
  <2>1. thread[l][m].at = "store" <=> <<"AddLink", l, m>> \in Queued(l)
    BY DEF TypeOK, At
  <2>2. CASE l = i /\ m = n
    BY <1>2, <1>3, <1>6, <2>2
  <2>3. CASE l # i \/ m # n
    BY <1>2, <1>6, <2>1, <2>3 DEF Item
  <2> QED
    BY <2>2, <2>3
<1>8. TypeOK'
  BY <1>2, <1>6, <1>7 DEF TypeOK, Threads, StoreQueued, FindValid
<1>9. AllMeant'
  BY <1>3, <1>6 DEF AllMeant, Meant, FindValid
<1>10. AnsweredRight' /\ HeldAreValid'
  BY <1>2 DEF AnsweredRight, At, HeldAreValid, FindValid, Item
<1>11. NothingForgotten'
  BY <1>2, <1>6 DEF NothingForgotten, FindValid
<1> QED
  BY <1>6, <1>8, <1>9, <1>10, <1>11

LEMMA RestartStep ==
    ASSUME HoldInv, Restart
    PROVE  HoldInv'
<1> USE DEF HoldInv
<1>1. chan' = <<>> /\ chan' \in Seq(Action) /\ Len(chan') = 0 /\ DOMAIN chan' = {}
  BY DEF Restart
<1>2. \A i \in Item, n \in Slot : thread'[i][n] = Idle
  BY DEF Restart
<1>3. thread' \in Threads
  BY DEF Restart, Threads, Idle, Stage
<1>4. StoreQueued'
  BY <1>1, <1>2 DEF StoreQueued, At, Idle, Queued, Item
<1>5. Len(chan') <= Buf /\ crashes' \in 0 .. MaxCrashes
  BY <1>1, BoundsAssumption DEF TypeOK, Restart
<1>6. TypeOK'
  BY <1>1, <1>3, <1>4, <1>5 DEF Restart, TypeOK, Threads, StoreQueued
<1>7. AllMeant' /\ AddedOnce'
  BY <1>1 DEF AllMeant, AddedOnce
<1>8. AnsweredRight'
  BY <1>2 DEF AnsweredRight, At, Idle, Item
<1>9. HeldAreValid'
  BY DEF Restart, HeldAreValid
<1>10. NothingForgotten'
  BY DEF Restart, NothingForgotten
<1> QED
  BY <1>6, <1>7, <1>8, <1>9, <1>10
(* What a turn of the action loop takes from the channel. *)
LEMMA ReduceTakes ==
    ASSUME HoldInv, Reduce
    PROVE  /\ chan' \in Seq(Action) /\ Len(chan') <= Buf
           /\ AddedOnce'
           /\ Head(chan) \in Action /\ Meant(Head(chan))
           /\ Head(chan) \in Queued(Head(chan)[2])
           /\ \A j : Queued(j)' \subseteq Queued(j)
           /\ \A j : Queued(j) \subseteq Queued(j)' \cup {Head(chan)}
           /\ Head(chan)[1] = "AddLink" => \A j : Head(chan) \notin Queued(j)'
           /\ \A k \in 1 .. Len(chan') : \E m \in 1 .. Len(chan) : chan'[k] = chan[m]
<1>1. chan \in Seq(Action) /\ Len(chan) <= Buf /\ AddedOnce /\ chan # <<>> /\ chan' = Tail(chan)
  BY DEF HoldInv, TypeOK, Reduce
<1>2. /\ chan' \in Seq(Action) /\ Len(chan') <= Buf
      /\ AddedOnce'
      /\ Head(chan) \in Action /\ Len(chan) \in Nat
      /\ 1 \in 1 .. Len(chan) /\ Head(chan) = chan[1]
      /\ \A j : Queued(j)' \subseteq Queued(j)
      /\ \A j : Queued(j) \subseteq Queued(j)' \cup {Head(chan)}
      /\ Head(chan)[1] = "AddLink" => \A j : Head(chan) \notin Queued(j)'
      /\ \A k \in 1 .. Len(chan') : \E m \in 1 .. Len(chan) : chan'[k] = chan[m]
  BY <1>1, Taking
<1>3. Meant(Head(chan))
  BY <1>2 DEF HoldInv, AllMeant
<1>4. DOMAIN chan = 1 .. Len(chan)
  BY <1>1, LenProperties
<1>5. Head(chan) \in Queued(Head(chan)[2])
  BY <1>2, <1>4 DEF Queued
<1> QED
  BY <1>2, <1>3, <1>5

LEMMA ReduceStep ==
    ASSUME HoldInv, Reduce
    PROVE  HoldInv'
<1> USE DEF HoldInv
<1> DEFINE op == Head(chan)[1]
           i == Head(chan)[2]
           n == Head(chan)[3]
           added == op = "Hold" \/ (op = "AddLink" /\ Base[i] \in held)
<1>1. /\ chan' \in Seq(Action) /\ Len(chan') <= Buf
      /\ AddedOnce'
      /\ Head(chan) \in Action /\ Meant(Head(chan))
      /\ Head(chan) \in Queued(i)
      /\ \A j : Queued(j)' \subseteq Queued(j)
      /\ \A j : Queued(j) \subseteq Queued(j)' \cup {Head(chan)}
      /\ op = "AddLink" => \A j : Head(chan) \notin Queued(j)'
      /\ \A k \in 1 .. Len(chan') : \E m \in 1 .. Len(chan) : chan'[k] = chan[m]
  BY ReduceTakes
<1>2. /\ op \in {"Hold", "AddLink", "AddPending", "RemovePending"} /\ i \in Item
      /\ Head(chan) = <<op, i, n>>
      /\ \A j : Queued(j) \subseteq {a \in Action : a[2] = j}
  BY <1>1 DEF Action, Queued
<1>3. /\ op = "Hold" => i \in Entry \ invalid
      /\ op = "AddLink" => i \in Link \ invalid /\ n \in Slot
      /\ op = "RemovePending" => i \in held \cup refused
  BY <1>1 DEF Meant
<1>4. /\ held' = IF added THEN held \cup {i} ELSE held
      /\ pending' = CASE op = "AddPending" -> pending \cup {i}
                       [] op = "RemovePending" -> pending \ {i}
                       [] OTHER -> pending
      /\ refused' = IF op = "AddLink" /\ ~added THEN refused \cup {i} ELSE refused
      /\ thread' = IF op = "AddLink"
                     THEN [thread EXCEPT ![i][n].at = IF added THEN "ok" ELSE "err"]
                     ELSE thread
      /\ UNCHANGED <<invalid, stores, crashes, lost>>
  BY DEF Reduce
<1>5. added => op = "Hold" \/ (op = "AddLink" /\ Base[i] \in held)
  OBVIOUS
<1>6. op = "Hold" => added
  OBVIOUS
<1>7. \A j : j # i => Queued(j) \subseteq Queued(j)'
  BY <1>1, <1>2
<1> HIDE DEF op, i, n, added
<1>8. /\ held \subseteq held' /\ refused \subseteq refused'
      /\ held' \subseteq held \cup {i} /\ refused' \subseteq refused \cup {i}
      /\ op # "RemovePending" => pending \subseteq pending'
      /\ pending' \subseteq pending \cup {i} /\ pending \subseteq pending' \cup {i}
      /\ (op = "AddPending" => i \in pending')
      /\ (op # "AddLink" => refused' = refused)
      /\ (op = "AddLink" => i \in held' \cup refused')
      /\ (op = "Hold" => i \in held')
  BY <1>2, <1>4, <1>6
<1>9. thread \in Threads
  BY DEF TypeOK, Threads
<1>10. /\ thread' \in Threads
       /\ op = "AddLink" => thread'[i][n].at = IF added THEN "ok" ELSE "err"
       /\ \A j \in Item, m \in Slot :
            op # "AddLink" \/ j # i \/ m # n => thread'[j][m] = thread[j][m]
       /\ \A j \in Item : Busy(j) => Busy(j)'
  <2>1. CASE op = "AddLink"
    <3> DEFINE stage == IF added THEN "ok" ELSE "err"
    <3>1. stage \in Stage \ {"idle"}
      BY DEF Stage
    <3>2. thread' = [thread EXCEPT ![i][n].at = stage] /\ n \in Slot
      BY <1>3, <1>4, <2>1
    <3> HIDE DEF stage
    <3>3. /\ thread' \in Threads
          /\ thread'[i][n].at = stage
          /\ \A j \in Item, m \in Slot : j # i \/ m # n => thread'[j][m] = thread[j][m]
          /\ \A j \in Item : Busy(j) => Busy(j)'
      BY <1>2, <1>9, <3>1, <3>2, Going
    <3> QED
      BY <2>1, <3>3 DEF stage
  <2>2. CASE op # "AddLink"
    <3>1. thread' = thread
      BY <1>4, <2>2
    <3> QED
      BY <1>9, <2>2, <3>1 DEF Busy, IdleSlots
  <2> QED
    BY <2>1, <2>2
<1>11. StoreQueued'
  <2> SUFFICES ASSUME NEW l \in Link, NEW m \in Slot
               PROVE  thread'[l][m].at = "store" <=> <<"AddLink", l, m>> \in Queued(l)'
    BY DEF StoreQueued, At
  <2>1. thread[l][m].at = "store" <=> <<"AddLink", l, m>> \in Queued(l)
    BY DEF TypeOK, At
  <2>2. CASE op = "AddLink" /\ l = i /\ m = n
    BY <1>1, <1>2, <1>10, <2>2 DEF op
  <2>3. CASE op # "AddLink" \/ l # i \/ m # n
    <3>1. thread'[l][m] = thread[l][m]
      BY <1>10, <2>3 DEF Item
    <3>2. <<"AddLink", l, m>> # Head(chan)
      BY <1>2, <2>3
    <3> QED
      BY <1>1, <2>1, <3>1, <3>2
  <2> QED
    BY <2>2, <2>3
<1>12. TypeOK'
  <2>1. held' \subseteq Item /\ pending' \subseteq Item /\ refused' \subseteq Link
    BY <1>2, <1>3, <1>8 DEF TypeOK
  <2> QED
    BY <1>1, <1>4, <1>10, <1>11, <2>1 DEF TypeOK, Threads, StoreQueued
<1>13. AllMeant'
  BY <1>1, <1>4, <1>8 DEF AllMeant, Meant
<1>14. AnsweredRight'
  <2> SUFFICES ASSUME NEW l \in Link, NEW m \in Slot
               PROVE  /\ thread'[l][m].at = "ok" => l \in held'
                      /\ thread'[l][m].at = "err" => l \in refused'
    BY DEF AnsweredRight, At
  <2>1. CASE op = "AddLink" /\ l = i /\ m = n
    BY <1>4, <1>10, <2>1
  <2>2. CASE op # "AddLink" \/ l # i \/ m # n
    BY <1>8, <1>10, <2>2 DEF AnsweredRight, At, Item
  <2> QED
    BY <2>1, <2>2
<1>15. HeldAreValid'
  <2>1. held' \cap invalid' = {}
    BY <1>3, <1>4, <1>5 DEF HeldAreValid
  <2>2. \A l \in held' \cap Link : Base[l] \in held'
    BY <1>3, <1>4, <1>5, <1>8, ItemAssumption DEF HeldAreValid
  <2> QED
    BY <2>1, <2>2 DEF HeldAreValid
<1>16. NothingForgotten'
  <2> SUFFICES ASSUME NEW j \in Item \ (invalid \cup lost \cup refused'), stores[j] > 0
               PROVE  j \in held' \cup pending' \/ Busy(j)' \/ Queued(j)' # {}
    BY <1>4 DEF NothingForgotten
  <2>1. j \in held \cup pending \/ Busy(j) \/ Queued(j) # {}
    BY <1>8 DEF NothingForgotten
  <2>2. CASE j # i
    BY <1>7, <1>8, <1>10, <2>1, <2>2
  <2>3. CASE j = i
    BY <1>2, <1>3, <1>8, <2>3
  <2> QED
    BY <2>2, <2>3
<1> QED
  BY <1>1, <1>12, <1>13, <1>14, <1>15, <1>16
LEMMA HoldInvStep == HoldInv /\ [Next]_vars => HoldInv'
<1> SUFFICES ASSUME HoldInv, [Next]_vars PROVE HoldInv'
  OBVIOUS
<1>1. CASE Reduce
  BY <1>1, ReduceStep
<1>2. CASE Restart
  BY <1>2, RestartStep
<1>3. CASE RunPendingValidations
  BY <1>3, SpawnStep DEF RunPendingValidations, HoldInv, TypeOK
<1>4. ASSUME NEW i \in Item, HandleStore(i) PROVE HoldInv'
  <2>1. stores' \in [Item -> 0 .. MaxStores] /\ \A j \in Item \ {i} : stores'[j] = stores[j]
    BY <1>4, BoundsAssumption DEF HandleStore, HoldInv, TypeOK
  <2>2. /\ {i} \in SUBSET Item /\ \A j \in {i} : IdleSlots(j) # {}
        /\ thread' = Spawn({i}, FALSE)
        /\ UNCHANGED <<invalid, chan, pending, held, crashes, refused, lost>>
    BY <1>4 DEF HandleStore
  <2> QED
    BY <2>1, <2>2, SpawnStep
<1>5. ASSUME NEW i \in Item, NEW n \in Slot, PackageArrives(i, n) PROVE HoldInv'
  BY <1>5, PackageArrivesStep
<1>6. ASSUME NEW i \in Item, NEW n \in Slot, PackageFails(i, n) PROVE HoldInv'
  BY <1>6, FinishStep DEF PackageFails, At
<1>7. ASSUME NEW i \in Item, NEW n \in Slot, Unresolved(i, n) PROVE HoldInv'
  BY <1>7, FinishStep DEF Unresolved, At
<1>8. ASSUME NEW i \in Item, NEW n \in Slot, FindInvalid(i, n) PROVE HoldInv'
  BY <1>8, FinishStep DEF FindInvalid, At
<1>9. ASSUME NEW i \in Item, NEW n \in Slot, FindValid(i, n) PROVE HoldInv'
  BY <1>9, FindValidStep
<1>10. ASSUME NEW i \in Item, NEW n \in Slot, Return(i, n) PROVE HoldInv'
  <2>1. /\ i \in held \cup refused /\ (i \in Link => ~At(i, n, "store"))
        /\ Finish(i, n, FALSE, FALSE)
        /\ UNCHANGED <<invalid, pending, held, stores, crashes, refused, lost>>
    BY <1>10, ItemAssumption DEF Return, HoldInv, AnsweredRight, At
  <2> QED
    BY <2>1, FinishStep
<1>11. CASE UNCHANGED vars
  <2>1. /\ \A i \in Item : (Queued(i)' = Queued(i)) /\ (Busy(i)' <=> Busy(i))
        /\ \A i \in Item, n \in Slot : thread'[i][n] = thread[i][n]
    BY <1>11 DEF vars, Queued, Busy, IdleSlots
  <2>2. TypeOK'
    BY <1>11, <2>1 DEF vars, HoldInv, TypeOK, At, Item
  <2>3. AllMeant' /\ AddedOnce' /\ AnsweredRight' /\ HeldAreValid'
    BY <1>11 DEF vars, HoldInv, AllMeant, Meant, AddedOnce, AnsweredRight, HeldAreValid, At
  <2>4. NothingForgotten'
    BY <1>11, <2>1 DEF vars, HoldInv, NothingForgotten
  <2> QED
    BY <2>2, <2>3, <2>4 DEF HoldInv
<1> QED
  BY <1>1, <1>2, <1>3, <1>4, <1>5, <1>6, <1>7, <1>8, <1>9, <1>10, <1>11 DEF Next

-----------------------------------------------------------------------------
(* The variables keep their types, and a thread waits for the answer to    *)
(* its AddLink exactly as long as that action is queued (hold_link.rs, the *)
(* future of add_link).                                                    *)
THEOREM TypeCorrect == Spec => []TypeOK
<1>1. HoldInv => TypeOK
  BY DEF HoldInv
<1> QED
  BY <1>1, HoldInvInit, HoldInvStep, PTL DEF Spec

(* However many retries overlap and whenever the conductor restarts,       *)
(* nothing is held that validation refuses, and no link without its base   *)
(* (hold_entry_workflow, hold_link_workflow, reduce_add_link).             *)
THEOREM OnlyValidHeld == Spec => []HeldAreValid
<1>1. HoldInv => HeldAreValid
  BY DEF HoldInv
<1> QED
  BY <1>1, HoldInvInit, HoldInvStep, PTL DEF Spec

(* No path through the hold workflows forgets a valid item that the node   *)
(* was asked to store: every early return queued a pending validation      *)
(* first (add_pending_validation).                                         *)
THEOREM NeverForgotten == Spec => []NothingForgotten
<1>1. HoldInv => NothingForgotten
  BY DEF HoldInv
<1> QED
  BY <1>1, HoldInvInit, HoldInvStep, PTL DEF Spec

(* A pending validation is removed only for an item that is held already,  *)
(* or a link that the DHT refused, whatever retries overlap                *)
(* (run_pending_validations, reduce_remove_pending_validation).            *)
THEOREM PendingUntilDone == Spec => PendingStays
<1> DEFINE Stays == \A i \in pending \ pending' : i \in held \cup refused
<1>1. HoldInv /\ [Next]_vars => [Stays]_vars
  <2> SUFFICES ASSUME HoldInv, Next, NEW i \in pending \ pending'
               PROVE  i \in held \cup refused
    OBVIOUS
  <2>1. Reduce
    BY DEF Next, Restart, RunPendingValidations, HandleStore, PackageArrives, PackageFails,
           Unresolved, FindInvalid, FindValid, Return
  <2>2. Meant(Head(chan))
    BY <2>1, ReduceTakes
  <2>3. Head(chan)[1] = "RemovePending" /\ i = Head(chan)[2]
    <3>1. pending' = CASE Head(chan)[1] = "AddPending" -> pending \cup {Head(chan)[2]}
                       [] Head(chan)[1] = "RemovePending" -> pending \ {Head(chan)[2]}
                       [] OTHER -> pending
      BY <2>1 DEF Reduce
    <3> QED
      BY <3>1
  <2> QED
    BY <2>2, <2>3 DEF Meant
<1>2. PendingStays <=> [][Stays]_vars
  BY DEF PendingStays
<1> QED
  BY <1>1, <1>2, HoldInvInit, HoldInvStep, PTL DEF Spec
=============================================================================
