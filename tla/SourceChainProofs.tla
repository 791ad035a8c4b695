------------------------- MODULE SourceChainProofs -------------------------
(***************************************************************************)
(* Proofs about SourceChain, for every set of entries and types and every  *)
(* bound on the number of headers.                                         *)
(***************************************************************************)
EXTENDS SourceChain, WellFoundedInduction, TLAPS

(* Links lead to earlier positions. *)
Backward(hs) == \A i \in DOMAIN hs : hs[i].link \in Nat /\ hs[i].link < i

(* A walk that starts at header i meets only headers stored up to i. *)
LEMMA ChainBelow ==
    ASSUME NEW hs \in Seq(Header), Backward(hs), NEW i \in 0 .. Len(hs)
    PROVE  ChainFrom(hs, i) \subseteq 1 .. i
<1>1. CASE i = 0
  BY <1>1 DEF ChainFrom
<1>2. CASE i # 0
  <2>1. DOMAIN hs = 1 .. Len(hs)
    OBVIOUS
  <2>2. 1 .. i \in SUBSET DOMAIN hs /\ i \in 1 .. i
    BY <1>2, <2>1
  <2>3. LinkClosed(hs, 1 .. i)
    BY <2>1 DEF LinkClosed, Backward
  <2> QED
    BY <1>2, <2>2, <2>3 DEF ChainFrom
<1> QED
  BY <1>1, <1>2

(* A header's chain is the header and the chain of its link. *)
LEMMA ChainStep ==
    ASSUME NEW hs \in Seq(Header), Backward(hs), NEW i \in DOMAIN hs
    PROVE  ChainFrom(hs, i) = {i} \cup ChainFrom(hs, hs[i].link)
<1> DEFINE l == hs[i].link
<1>1. /\ DOMAIN hs = 1 .. Len(hs)
      /\ i # 0
      /\ l \in 0 .. Len(hs)
  BY DEF Backward
<1>2. i \in ChainFrom(hs, i)
  BY <1>1 DEF ChainFrom
<1>3. ChainFrom(hs, l) \subseteq ChainFrom(hs, i)
  <2>1. CASE l = 0
    BY <2>1 DEF ChainFrom
  <2>2. CASE l # 0
    <3> SUFFICES ASSUME NEW j \in ChainFrom(hs, l), NEW S \in SUBSET DOMAIN hs,
                        i \in S, LinkClosed(hs, S)
                 PROVE  j \in S
      BY <1>1, <2>2 DEF ChainFrom
    <3>1. l \in S
      BY <2>2 DEF LinkClosed
    <3> QED
      BY <2>2, <3>1 DEF ChainFrom
  <2> QED
    BY <2>1, <2>2
<1>4. ChainFrom(hs, i) \subseteq {i} \cup ChainFrom(hs, l)
  <2> SUFFICES ASSUME NEW j \in ChainFrom(hs, i), j # i
               PROVE  j \in ChainFrom(hs, l)
    OBVIOUS
  <2>1. j \in DOMAIN hs
    BY <1>1 DEF ChainFrom
  <2>2. l # 0
    <3>1. SUFFICES ASSUME l = 0 PROVE FALSE
      OBVIOUS
    <3>2. LinkClosed(hs, {i}) /\ {i} \in SUBSET DOMAIN hs
      BY <3>1 DEF LinkClosed
    <3> QED
      BY <1>1, <3>2 DEF ChainFrom
  <2>3. ASSUME NEW S \in SUBSET DOMAIN hs, l \in S, LinkClosed(hs, S)
        PROVE  j \in S
    <3>1. LinkClosed(hs, S \cup {i}) /\ (S \cup {i}) \in SUBSET DOMAIN hs
      BY <2>3 DEF LinkClosed
    <3> QED
      BY <1>1, <3>1 DEF ChainFrom
  <2> QED
    BY <2>1, <2>2, <2>3 DEF ChainFrom
<1> HIDE DEF l
<1> QED
  BY <1>2, <1>3, <1>4 DEF l

(* Storing one more header changes no chain that was there before. *)
LEMMA ChainAppend ==
    ASSUME NEW hs \in Seq(Header), Backward(hs), NEW h \in Header,
           NEW i \in 0 .. Len(hs)
    PROVE  ChainFrom(Append(hs, h), i) = ChainFrom(hs, i)
<1> DEFINE new == Append(hs, h)
<1>1. CASE i = 0
  BY <1>1 DEF ChainFrom
<1>2. CASE i # 0
  <2>1. /\ DOMAIN hs = 1 .. Len(hs)
        /\ DOMAIN new = 1 .. Len(hs) + 1
        /\ i \in DOMAIN hs
        /\ \A j \in DOMAIN hs : new[j] = hs[j]
    BY <1>2
  <2> HIDE DEF new
  <2>2. ASSUME NEW j \in ChainFrom(hs, i)
        PROVE  j \in ChainFrom(new, i)
    <3> SUFFICES ASSUME NEW S \in SUBSET DOMAIN new, i \in S, LinkClosed(new, S)
                 PROVE  j \in S
      BY <1>2, <2>1 DEF ChainFrom
    <3> DEFINE T == S \cap DOMAIN hs
    <3>1. T \in SUBSET DOMAIN hs /\ i \in T
      BY <2>1
    <3>2. LinkClosed(hs, T)
      BY <2>1 DEF LinkClosed, Backward
    <3> QED
      BY <1>2, <3>1, <3>2 DEF ChainFrom
  <2>3. ASSUME NEW j \in ChainFrom(new, i)
        PROVE  j \in ChainFrom(hs, i)
    <3>1. ASSUME NEW S \in SUBSET DOMAIN hs, i \in S, LinkClosed(hs, S)
          PROVE  j \in S
      <4>1. S \in SUBSET DOMAIN new /\ LinkClosed(new, S)
        BY <2>1, <3>1 DEF LinkClosed
      <4> QED
        BY <1>2, <3>1, <4>1 DEF ChainFrom
    <3>2. j \in DOMAIN hs
      <4>1. LinkClosed(hs, DOMAIN hs)
        BY <2>1 DEF LinkClosed, Backward
      <4> QED
        BY <2>1, <3>1, <4>1
    <3> QED
      BY <1>2, <3>1, <3>2 DEF ChainFrom
  <2> QED
    BY <2>2, <2>3 DEF new
<1> QED
  BY <1>1, <1>2

(* ... and so no answer about the first header of a type. *)
LEMMA FirstOfTypeAppend ==
    ASSUME NEW hs \in Seq(Header), Backward(hs), NEW h \in Header,
           NEW i \in 0 .. Len(hs), NEW f, NEW t
    PROVE  IsFirstOfType(Append(hs, h), f, i, t) <=> IsFirstOfType(hs, f, i, t)
<1>1. ChainFrom(Append(hs, h), i) = ChainFrom(hs, i)
  BY ChainAppend
<1>2. \A j \in ChainFrom(hs, i) : HeaderType(Append(hs, h), j) = HeaderType(hs, j)
  <2>1. ChainFrom(hs, i) \subseteq 1 .. Len(hs)
    BY ChainBelow
  <2> QED
    BY <2>1 DEF HeaderType
<1>3. {j \in ChainFrom(Append(hs, h), i) : HeaderType(Append(hs, h), j) = t}
        = {j \in ChainFrom(hs, i) : HeaderType(hs, j) = t}
  BY <1>1, <1>2
<1> QED
  BY <1>3, Zenon DEF IsFirstOfType

-----------------------------------------------------------------------------
(* The inductive invariant.  Besides the properties it says what the thread *)
(* of the action loop holds between two of its steps.                       *)

(* The header under construction continues the visible chain. *)
CurContinues ==
    /\ pc \in {"header_created", "entry_added"} =>
          /\ cur \in Header
          /\ cur.link = top
          /\ IsFirstOfType(headers, cur.same, top, TypeOf[cur.entry])
          /\ newTop = top
          /\ ~ok
    /\ pc = "entry_added" => cur.entry \in entries

(* A successful commit's new top header continues the visible chain. *)
NewTopContinues ==
    pc = "reduced" =>
        IF ok THEN newTop \in DOMAIN headers /\ headers[newTop].link = top
              ELSE newTop = top

(* Room is checked when a commit is taken, and used when it is stored. *)
RoomLeft == pc \in {"header_created", "entry_added"} => Len(headers) < MaxHeaders

IInv ==
    /\ TypeOK
    /\ ChainComplete
    /\ SameTypeLinks
    /\ AnsweredOnChain
    /\ CurContinues
    /\ NewTopContinues
    /\ RoomLeft

LEMMA InitIInv == Init => IInv
<1> SUFFICES ASSUME Init PROVE IInv
  OBVIOUS
<1> USE DEF Init
<1>1. TypeOK
  <2>1. headers \in Seq(Header) /\ Len(headers) = 0
    OBVIOUS
  <2>2. saved \in [agent : 0 .. Len(headers), hasAgent : BOOLEAN, hasNucleus : BOOLEAN,
                  failed : BOOLEAN]
    BY <2>1
  <2>3. cur \in Header \cup {NoHeader} /\ entries \subseteq Entry
    OBVIOUS
  <2>4. actions \subseteq 1 .. Len(headers) /\ Len(headers) <= MaxHeaders
    BY <2>1, MaxHeadersAssumption
  <2>5. top \in 0 .. Len(headers) /\ newTop \in 0 .. Len(headers) /\ pc = "idle"
    BY <2>1
  <2>6. ok \in BOOLEAN
    BY Zenon
  <2> HIDE DEF Init
  <2> QED
    BY <2>1, <2>2, <2>3, <2>4, <2>5, <2>6 DEF TypeOK
<1>2. AnsweredOnChain
  BY DEF AnsweredOnChain
<1>3. ChainComplete /\ SameTypeLinks
  BY DEF ChainComplete, SameTypeLinks
<1>4. CurContinues /\ NewTopContinues /\ RoomLeft
  BY DEF CurContinues, NewTopContinues, RoomLeft
<1> QED
  BY <1>1, <1>2, <1>3, <1>4 DEF IInv

LEMMA StoredBackward == TypeOK /\ ChainComplete => Backward(headers)
<1> SUFFICES ASSUME TypeOK, ChainComplete, NEW i \in DOMAIN headers
             PROVE  headers[i].link \in Nat /\ headers[i].link < i
  BY DEF Backward
<1>1. headers[i] \in Header
  BY DEF TypeOK
<1> QED
  BY <1>1 DEF ChainComplete, Header

(* The CAS only grows, and only AddHeader adds a header to it. *)
LEMMA HeadersStep ==
    IInv /\ [Next]_vars =>
        \/ headers' = headers
        \/ AddHeader /\ headers' = Append(headers, cur) /\ newTop' = Len(headers) + 1
BY DEF Next, vars, CreateNewChainHeader, SignFails, AddEntry, AddHeader, AddFails,
       PublishState, SaveAgent, SaveNucleus, SaveFails, Crash, Restart

LEMMA TypeStep == IInv /\ [Next]_vars => TypeOK'
<1> SUFFICES ASSUME IInv, [Next]_vars PROVE TypeOK'
  OBVIOUS
<1> USE DEF TypeOK, IInv
<1>1. ASSUME NEW e \in Entry, CreateNewChainHeader(e) PROVE TypeOK'
  <2>1. PICK s \in Second, f \in 0 .. Len(headers) : cur' = NewHeader(e, f, s)
    BY <1>1 DEF CreateNewChainHeader
  <2>2. cur' \in Header
    BY <2>1 DEF NewHeader, Header
  <2> QED
    BY <1>1, <2>2 DEF CreateNewChainHeader
<1>2. CASE SignFails
  BY <1>2 DEF SignFails
<1>3. CASE AddEntry
  BY <1>3 DEF AddEntry, CurContinues, Header
<1>4. CASE AddHeader
  <2>1. cur \in Header /\ Len(headers) < MaxHeaders
    BY <1>4 DEF AddHeader, CurContinues, RoomLeft
  <2>2. CASE headers' = headers /\ newTop' \in DOMAIN headers
    BY <1>4, <2>2 DEF AddHeader
  <2>3. CASE headers' = Append(headers, cur) /\ newTop' = Len(headers) + 1
    <3>1. headers' \in Seq(Header) /\ Len(headers') = Len(headers) + 1
      BY <2>1, <2>3
    <3> QED
      BY <1>4, <2>1, <2>3, <3>1, MaxHeadersAssumption DEF AddHeader
  <2> QED
    BY <1>4, <2>2, <2>3 DEF AddHeader
<1>5. CASE AddFails
  BY <1>5 DEF AddFails
<1>6. CASE PublishState
  <2>1. newTop \in 0 .. Len(headers) /\ (ok => newTop \in 1 .. Len(headers))
    BY <1>6 DEF PublishState, NewTopContinues
  <2>2. actions' \subseteq 1 .. Len(headers)
    BY <1>6, <2>1 DEF PublishState
  <2> QED
    BY <1>6, <2>1, <2>2 DEF PublishState
<1>7. CASE SaveAgent \/ SaveNucleus \/ SaveFails
  BY <1>7 DEF SaveAgent, SaveNucleus, SaveFails
<1>8. CASE Crash
  BY <1>8 DEF Crash
<1>9. CASE Restart
  <2>1. saved.agent \in 0 .. Len(headers)
    OBVIOUS
  <2>2. top' \in 0 .. Len(headers)
    BY <1>9, <2>1 DEF Restart
  <2> QED
    BY <1>9, <2>2 DEF Restart
<1>10. CASE UNCHANGED vars
  BY <1>10 DEF vars
<1> QED
  BY <1>1, <1>2, <1>3, <1>4, <1>5, <1>6, <1>7, <1>8, <1>9, <1>10 DEF Next

LEMMA CompleteStep == IInv /\ [Next]_vars => ChainComplete'
<1> SUFFICES ASSUME IInv, [Next]_vars PROVE ChainComplete'
  OBVIOUS
<1>1. entries \subseteq entries'
  BY DEF Next, vars, CreateNewChainHeader, SignFails, AddEntry, AddHeader, AddFails,
         PublishState, SaveAgent, SaveNucleus, SaveFails, Crash, Restart
<1>2. CASE headers' = headers
  BY <1>1, <1>2 DEF IInv, ChainComplete
<1>3. CASE AddHeader /\ headers' = Append(headers, cur)
  <2>1. cur \in Header /\ cur.link <= Len(headers) /\ cur.entry \in entries
    BY <1>3 DEF AddHeader, IInv, TypeOK, CurContinues
  <2>2. headers \in Seq(Header)
    BY DEF IInv, TypeOK
  <2>3. ASSUME NEW i \in DOMAIN headers'
        PROVE  headers'[i].link < i /\ headers'[i].entry \in entries'
    <3>1. CASE i \in DOMAIN headers
      BY <1>1, <1>3, <2>2, <3>1 DEF IInv, ChainComplete
    <3>2. CASE i = Len(headers) + 1
      <4>1. headers'[i] = cur /\ cur.link \in Nat
        BY <1>3, <2>1, <2>2, <3>2 DEF Header
      <4> QED
        BY <1>1, <2>1, <2>2, <3>2, <4>1
    <3> QED
      BY <1>3, <2>2, <3>1, <3>2
  <2> QED
    BY <2>3 DEF ChainComplete
<1> QED
  BY <1>2, <1>3, HeadersStep

LEMMA SameTypeStep == IInv /\ [Next]_vars => SameTypeLinks'
<1> SUFFICES ASSUME IInv, [Next]_vars PROVE SameTypeLinks'
  OBVIOUS
<1>1. CASE headers' = headers
  BY <1>1 DEF IInv, SameTypeLinks, HeaderType
<1>2. CASE AddHeader /\ headers' = Append(headers, cur)
  <2>1. /\ headers \in Seq(Header)
        /\ Backward(headers)
        /\ cur \in Header
        /\ cur.link \in 0 .. Len(headers)
        /\ IsFirstOfType(headers, cur.same, cur.link, TypeOf[cur.entry])
    BY <1>2, StoredBackward DEF AddHeader, IInv, TypeOK, CurContinues
  <2> SUFFICES ASSUME NEW i \in DOMAIN Append(headers, cur)
               PROVE  LET hs == Append(headers, cur)
                      IN  IsFirstOfType(hs, hs[i].same, hs[i].link, HeaderType(hs, i))
    BY <1>2 DEF SameTypeLinks
  <2>2. CASE i \in DOMAIN headers
    <3>1. Append(headers, cur)[i] = headers[i] /\ headers[i].link \in 0 .. Len(headers)
      BY <2>1, <2>2 DEF Backward
    <3>2. IsFirstOfType(headers, headers[i].same, headers[i].link, TypeOf[headers[i].entry])
      BY <2>2 DEF IInv, SameTypeLinks, HeaderType
    <3> QED
      BY <2>1, <3>1, <3>2, FirstOfTypeAppend DEF HeaderType
  <2>3. CASE i = Len(headers) + 1
    <3>1. Append(headers, cur)[i] = cur
      BY <2>1, <2>3
    <3> QED
      BY <2>1, <3>1, FirstOfTypeAppend DEF HeaderType
  <2> QED
    BY <2>1, <2>2, <2>3
<1> QED
  BY <1>1, <1>2, HeadersStep

LEMMA AnsweredStep == IInv /\ [Next]_vars => AnsweredOnChain'
<1> SUFFICES ASSUME IInv, [Next]_vars PROVE AnsweredOnChain'
  OBVIOUS
<1>1. headers \in Seq(Header) /\ Backward(headers) /\ top \in 0 .. Len(headers)
  BY StoredBackward DEF IInv, TypeOK
<1>2. CASE PublishState
  <2>1. headers' = headers /\ top' = newTop
    BY <1>2 DEF PublishState
  <2>2. CASE ok
    <3>1. newTop \in DOMAIN headers /\ headers[newTop].link = top
      BY <1>2, <2>2 DEF PublishState, IInv, NewTopContinues
    <3>2. ChainFrom(headers, newTop) = {newTop} \cup ChainFrom(headers, top)
      BY <1>1, <3>1, ChainStep
    <3> QED
      BY <1>2, <2>1, <2>2, <3>2 DEF PublishState, IInv, AnsweredOnChain, Chain
  <2>3. CASE ~ok
    BY <1>2, <2>1, <2>3 DEF PublishState, IInv, NewTopContinues, AnsweredOnChain, Chain
  <2> QED
    BY <2>2, <2>3
<1>3. CASE Restart
  BY <1>3 DEF Restart, AnsweredOnChain
<1>4. CASE pc' = "down"
  BY <1>4 DEF AnsweredOnChain
<1>5. CASE top' = top /\ actions' = actions /\ pc # "down"
  <2>1. ChainFrom(headers', top) = ChainFrom(headers, top)
    <3>1. AddHeader => cur \in Header
      BY DEF AddHeader, IInv, CurContinues
    <3> QED
      BY <1>1, <3>1, HeadersStep, ChainAppend
  <2> QED
    BY <1>5, <2>1 DEF IInv, AnsweredOnChain, Chain
<1>6. \/ PublishState \/ Restart \/ pc' = "down"
      \/ top' = top /\ actions' = actions /\ pc # "down"
  BY DEF Next, vars, CreateNewChainHeader, SignFails, AddEntry, AddHeader, AddFails,
         SaveAgent, SaveNucleus, SaveFails, Crash
<1> QED
  BY <1>2, <1>3, <1>4, <1>5, <1>6
LEMMA CurStep == IInv /\ [Next]_vars => CurContinues'
<1> SUFFICES ASSUME IInv, [Next]_vars, pc' \in {"header_created", "entry_added"}
             PROVE  CurContinues'
  BY DEF CurContinues
<1>1. ASSUME NEW e \in Entry, CreateNewChainHeader(e) PROVE CurContinues'
  <2>1. PICK s \in Second, f \in 0 .. Len(headers) :
              IsFirstOfType(headers, f, top, TypeOf[e]) /\ cur' = NewHeader(e, f, s)
    BY <1>1 DEF CreateNewChainHeader
  <2>2. /\ cur' \in Header /\ cur'.link = top
        /\ cur'.same = f /\ cur'.entry = e
    BY <2>1 DEF NewHeader, Header, IInv, TypeOK
  <2> QED
    BY <1>1, <2>1, <2>2 DEF CreateNewChainHeader, CurContinues
<1>2. CASE AddEntry
  BY <1>2 DEF AddEntry, IInv, CurContinues
<1>3. CASE UNCHANGED vars
  BY <1>3 DEF vars, IInv, CurContinues
<1> QED
  BY <1>1, <1>2, <1>3 DEF Next, SignFails, AddHeader, AddFails, PublishState, SaveAgent,
         SaveNucleus, SaveFails, Crash, Restart

LEMMA NewTopStep == IInv /\ [Next]_vars => NewTopContinues'
<1> SUFFICES ASSUME IInv, [Next]_vars, pc' = "reduced"
             PROVE  NewTopContinues'
  BY DEF NewTopContinues
<1>1. CASE SignFails
  BY <1>1 DEF SignFails, NewTopContinues
<1>2. CASE AddHeader
  <2>1. cur.link = top /\ headers \in Seq(Header) /\ cur \in Header
    BY <1>2 DEF AddHeader, IInv, TypeOK, CurContinues
  <2>2. newTop' \in DOMAIN headers' /\ headers'[newTop'] = cur
    BY <1>2, <2>1 DEF AddHeader
  <2> QED
    BY <1>2, <2>1, <2>2 DEF AddHeader, NewTopContinues
<1>3. CASE AddFails
  BY <1>3 DEF AddFails, IInv, CurContinues, NewTopContinues
<1>4. CASE UNCHANGED vars
  BY <1>4 DEF vars, IInv, NewTopContinues
<1> QED
  BY <1>1, <1>2, <1>3, <1>4 DEF Next, CreateNewChainHeader, AddEntry, PublishState,
         SaveAgent, SaveNucleus, SaveFails, Crash, Restart

LEMMA RoomStep == IInv /\ [Next]_vars => RoomLeft'
BY DEF IInv, RoomLeft, Next, vars, CreateNewChainHeader, SignFails, AddEntry, AddHeader,
       AddFails, PublishState, SaveAgent, SaveNucleus, SaveFails, Crash, Restart

LEMMA Inductive == IInv /\ [Next]_vars => IInv'
BY TypeStep, CompleteStep, SameTypeStep, AnsweredStep, CurStep, NewTopStep, RoomStep DEF IInv

LEMMA Invariant == Spec => []IInv
BY InitIInv, Inductive, PTL DEF Spec

-----------------------------------------------------------------------------
(* Every variable of the source chain keeps its type: in particular the     *)
(* visible, the next and the saved top header are always stored headers.    *)
THEOREM TypeCorrect == Spec => []TypeOK
<1>1. IInv => TypeOK
  BY DEF IInv
<1> QED
  BY <1>1, Invariant, PTL

(* Whatever write fails and whenever the process dies, the chain behind     *)
(* every stored header is complete (reduce_commit_entry's order of writes). *)
THEOREM ChainAlwaysComplete == Spec => []ChainComplete
<1>1. IInv => ChainComplete
  BY DEF IInv
<1> QED
  BY <1>1, Invariant, PTL

(* link_same_type, computed by create_new_chain_header from the visible     *)
(* chain, is the nearest earlier header of the type on the header's chain.  *)
THEOREM SameTypeLinksCorrect == Spec => []SameTypeLinks
<1>1. IInv => SameTypeLinks
  BY DEF IInv
<1> QED
  BY <1>1, Invariant, PTL

(* A commit answered Ok stays on the chain of the running process.          *)
THEOREM AnsweredStaysOnChain == Spec => []AnsweredOnChain
<1>1. IInv => AnsweredOnChain
  BY DEF IInv
<1> QED
  BY <1>1, Invariant, PTL

(* The visible chain only grows at its top while the process runs.          *)
THEOREM ChainOnlyGrows == Spec => ChainGrows
<1>1. IInv /\ [Next]_vars =>
        [pc # "down" => top' = top \/ (top' > 0 /\ headers'[top'].link = top)]_vars
  <2> SUFFICES ASSUME IInv, [Next]_vars, pc # "down", top' # top
               PROVE  top' > 0 /\ headers'[top'].link = top
    OBVIOUS
  <2>1. PublishState
    BY DEF Next, vars, CreateNewChainHeader, SignFails, AddEntry, AddHeader, AddFails,
           SaveAgent, SaveNucleus, SaveFails, Crash, Restart
  <2>2. newTop \in DOMAIN headers /\ headers[newTop].link = top
    BY <2>1 DEF PublishState, IInv, NewTopContinues, TypeOK
  <2> QED
    BY <2>1, <2>2 DEF PublishState, IInv, TypeOK
<1> QED
  BY <1>1, Invariant, PTL DEF Spec, ChainGrows

-----------------------------------------------------------------------------
(* What a crash can lose.                                                   *)

(* The top header that a restart would find. *)
LoadTop(s) == IF s.hasAgent /\ s.hasNucleus THEN s.agent ELSE 0

(* While no save has failed, the chain on the disk has every commit that    *)
(* was answered Ok, but for the one that is visible and being saved.        *)
SavedBehind ==
    /\ pc = "agent_saved" => saved.hasAgent /\ saved.agent = top
    /\ ~saved.failed =>
          /\ pc \in {"idle", "header_created", "entry_added", "reduced"} => actions \subseteq Chain(LoadTop(saved))
          /\ pc \in {"visible", "agent_saved"} => actions \subseteq Chain(LoadTop(saved)) \cup {top}
          /\ \A a, b \in actions \ Chain(LoadTop(saved)) : a = b

LEMMA BehindStep == IInv /\ SavedBehind /\ [Next]_vars => SavedBehind'
<1> SUFFICES ASSUME IInv, SavedBehind, [Next]_vars
             PROVE  SavedBehind'
  OBVIOUS
<1>0. /\ headers \in Seq(Header) /\ Backward(headers) /\ LoadTop(saved) \in 0 .. Len(headers)
      /\ saved \in [agent : 0 .. Len(headers), hasAgent : BOOLEAN, hasNucleus : BOOLEAN, failed : BOOLEAN]
      /\ pc # "down" => actions \subseteq Chain(top)
  BY StoredBackward DEF IInv, TypeOK, LoadTop, AnsweredOnChain
<1>1. CASE Restart
  BY <1>1 DEF Restart, SavedBehind
<1>2. CASE PublishState
  <2>1. /\ pc = "reduced" /\ pc' = "visible" /\ UNCHANGED <<headers, saved>> /\ top' = newTop
        /\ actions' \subseteq actions \cup {newTop}
    BY <1>2 DEF PublishState
  <2> QED
    BY <2>1 DEF SavedBehind, Chain
<1>3. CASE SaveAgent
  <2>1. /\ pc = "visible" /\ pc' = "agent_saved" /\ UNCHANGED <<headers, top, actions>>
        /\ saved' = [saved EXCEPT !.agent = top, !.hasAgent = TRUE]
    BY <1>3 DEF SaveAgent
  <2>2. saved'.hasAgent /\ saved'.agent = top /\ saved'.hasNucleus = saved.hasNucleus /\ saved'.failed = saved.failed
    BY <1>0, <2>1
  <2>3. CASE saved.hasNucleus
    <3>1. LoadTop(saved') = top
      BY <2>2, <2>3 DEF LoadTop
    <3>2. actions' \subseteq Chain(LoadTop(saved))'
      BY <1>0, <2>1, <3>1 DEF Chain
    <3> QED
      BY <2>1, <2>2, <3>2 DEF SavedBehind
  <2>4. CASE ~saved.hasNucleus
    <3>1. LoadTop(saved') = 0 /\ LoadTop(saved) = 0
      BY <2>2, <2>4 DEF LoadTop
    <3> QED
      BY <2>1, <2>2, <3>1 DEF SavedBehind, Chain
  <2> QED
    BY <2>3, <2>4
<1>4. CASE SaveNucleus
  <2>1. /\ pc = "agent_saved" /\ pc' = "idle" /\ UNCHANGED <<headers, top, actions>>
        /\ saved' = [saved EXCEPT !.hasNucleus = TRUE, !.failed = FALSE]
    BY <1>4 DEF SaveNucleus
  <2>2. saved'.hasNucleus /\ saved'.hasAgent /\ saved'.agent = top
    BY <1>0, <2>1 DEF SavedBehind
  <2>3. LoadTop(saved') = top
    BY <2>2 DEF LoadTop
  <2>4. actions' \subseteq Chain(LoadTop(saved))'
    BY <1>0, <2>1, <2>3 DEF Chain
  <2> QED
    BY <2>1, <2>4 DEF SavedBehind
<1>5. CASE SaveFails
  <2>1. pc' = "idle" /\ saved' = [saved EXCEPT !.failed = TRUE]
    BY <1>5 DEF SaveFails
  <2>2. saved'.failed
    BY <1>0, <2>1
  <2> QED
    BY <2>1, <2>2 DEF SavedBehind
<1>6. CASE Crash
  BY <1>6 DEF Crash, SavedBehind, Chain
<1>7. CASE UNCHANGED vars
  BY <1>7 DEF vars, SavedBehind, Chain
<1>8. CASE \/ \E e \in Entry : CreateNewChainHeader(e)
           \/ SignFails \/ AddEntry \/ AddHeader \/ AddFails
  <2>1. /\ pc \in {"idle", "header_created", "entry_added"} /\ pc' \in {"header_created", "entry_added", "reduced"}
        /\ UNCHANGED <<saved, actions>>
    BY <1>8 DEF CreateNewChainHeader, SignFails, AddEntry, AddHeader, AddFails
  <2>2. ChainFrom(headers', LoadTop(saved)) = ChainFrom(headers, LoadTop(saved))
    <3>1. AddHeader => cur \in Header
      BY DEF AddHeader, IInv, CurContinues
    <3> QED
      BY <1>0, <3>1, HeadersStep, ChainAppend
  <2> QED
    BY <2>1, <2>2 DEF SavedBehind, Chain
<1> QED
  BY <1>1, <1>2, <1>3, <1>4, <1>5, <1>6, <1>7, <1>8 DEF Next

(* A process that dies at any moment, no save having failed, loses at most  *)
(* the one commit it was saving: the restarted chain has all others that    *)
(* were answered Ok (process_action saves after each action).               *)
THEOREM CrashLosesAtMostOne == Spec => AtMostOneCommitLost
<1> DEFINE A == Restart /\ ~saved.failed => \A a, b \in actions \ Chain(top') : a = b
<1>1. Init => SavedBehind
  BY DEF Init, SavedBehind
<1>2. IInv /\ SavedBehind /\ [Next]_vars => [A]_vars
  <2> SUFFICES ASSUME SavedBehind, Restart, ~saved.failed
               PROVE  \A a, b \in actions \ Chain(top') : a = b
    OBVIOUS
  <2>1. top' = LoadTop(saved)
    BY DEF Restart, LoadTop
  <2> QED
    BY <2>1 DEF SavedBehind
<1>3. AtMostOneCommitLost <=> [][A]_vars
  BY DEF AtMostOneCommitLost
<1> QED
  BY <1>1, <1>2, <1>3, BehindStep, Invariant, PTL DEF Spec

-----------------------------------------------------------------------------
(* The two ways to walk the chain.                                          *)

(* A walk along link that reaches a header covers the header's own chain,   *)
(* and its headers of a type come down to the first of them.                *)
LEMMA ChainCovers ==
    ASSUME NEW hs \in Seq(Header), Backward(hs), NEW i \in 0 .. Len(hs),
           NEW j \in ChainFrom(hs, i)
    PROVE  ChainFrom(hs, j) \subseteq ChainFrom(hs, i)
<1>1. /\ i # 0 /\ DOMAIN hs = 1 .. Len(hs) /\ j \in DOMAIN hs /\ j # 0
      /\ \A S \in SUBSET DOMAIN hs : i \in S /\ LinkClosed(hs, S) => j \in S
  BY DEF ChainFrom
<1> SUFFICES ASSUME NEW k \in ChainFrom(hs, j), NEW S \in SUBSET DOMAIN hs,
                    i \in S, LinkClosed(hs, S)
             PROVE  k \in S
  BY <1>1 DEF ChainFrom
<1>2. j \in S
  BY <1>1
<1> QED
  BY <1>1, <1>2 DEF ChainFrom

(* On the chain of a header of type t, the header is the first of type t,   *)
(* and on that of another header the first of type t is that of its link.   *)
LEMMA FirstStep ==
    ASSUME NEW hs \in Seq(Header), Backward(hs), NEW j \in DOMAIN hs, NEW t, NEW g
    PROVE  /\ HeaderType(hs, j) = t => IsFirstOfType(hs, j, j, t)
           /\ HeaderType(hs, j) # t =>
                 (IsFirstOfType(hs, g, hs[j].link, t) => IsFirstOfType(hs, g, j, t))
<1>1. ChainFrom(hs, j) = {j} \cup ChainFrom(hs, hs[j].link)
  BY ChainStep
<1>2. j \in 0 .. Len(hs) /\ ChainFrom(hs, j) \subseteq 1 .. j
  BY ChainBelow
<1>3. ASSUME HeaderType(hs, j) = t PROVE IsFirstOfType(hs, j, j, t)
  BY <1>1, <1>2, <1>3 DEF IsFirstOfType
<1>4. ASSUME HeaderType(hs, j) # t, IsFirstOfType(hs, g, hs[j].link, t)
      PROVE  IsFirstOfType(hs, g, j, t)
  <2>1. {k \in ChainFrom(hs, j) : HeaderType(hs, k) = t}
          = {k \in ChainFrom(hs, hs[j].link) : HeaderType(hs, k) = t}
    BY <1>1, <1>4
  <2> QED
    BY <1>4, <2>1 DEF IsFirstOfType
<1> QED
  BY <1>3, <1>4

(* The first header of a type is one only. *)
LEMMA FirstUnique ==
    ASSUME NEW hs \in Seq(Header), Backward(hs), NEW i \in 0 .. Len(hs), NEW t, NEW f, NEW g,
           IsFirstOfType(hs, f, i, t), IsFirstOfType(hs, g, i, t)
    PROVE  f = g
<1>1. ChainFrom(hs, i) \subseteq 1 .. i
  BY ChainBelow
<1> QED
  BY <1>1 DEF IsFirstOfType

(* Following link_same_type from the first header of a type meets the       *)
(* headers of the type on the chain, and those only.                        *)
LEMMA TypeWalkExact ==
    ASSUME TypeOK, ChainComplete, SameTypeLinks, NEW t, NEW f \in 0 .. Len(headers),
           IsFirstOfType(headers, f, top, t)
    PROVE  TypeWalk(f) = {j \in Chain(top) : HeaderType(headers, j) = t}
<1> DEFINE Of == {j \in Chain(top) : HeaderType(headers, j) = t}
<1>1. /\ headers \in Seq(Header) /\ Backward(headers) /\ top \in 0 .. Len(headers)
      /\ DOMAIN headers = 1 .. Len(headers)
  BY StoredBackward DEF TypeOK
<1>2. Chain(top) \subseteq DOMAIN headers
  BY <1>1, ChainBelow DEF Chain
<1>3. \A j \in DOMAIN headers :
         /\ headers[j].link \in 0 .. Len(headers) /\ headers[j].same \in Nat
         /\ IsFirstOfType(headers, headers[j].same, headers[j].link, HeaderType(headers, j))
  <2> SUFFICES ASSUME NEW j \in DOMAIN headers
               PROVE  /\ headers[j].link \in 0 .. Len(headers) /\ headers[j].same \in Nat
                      /\ IsFirstOfType(headers, headers[j].same, headers[j].link,
                                       HeaderType(headers, j))
    OBVIOUS
  <2>1. headers[j].link \in 0 .. Len(headers)
    BY <1>1 DEF Backward
  <2>2. headers[j].same \in Nat
    <3>1. headers[j] \in Header
      BY <1>1
    <3> QED
      BY <3>1 DEF Header
  <2> QED
    BY <2>1, <2>2, Zenon DEF SameTypeLinks
<1>4. CASE f = 0
  <2>1. Of = {}
    BY <1>2, <1>4 DEF IsFirstOfType, Chain
  <2> QED
    BY <1>4, <2>1 DEF TypeWalk
<1>5. CASE f # 0
  <2>1. f \in Of
    BY <1>5 DEF IsFirstOfType, Chain
  <2>2. TypeWalk(f) \subseteq Of
    <3>1. SameClosed(Of)
      <4> SUFFICES ASSUME NEW j \in Of, headers[j].same # 0
                   PROVE  headers[j].same \in Of
        BY DEF SameClosed
      <4>1. /\ j \in DOMAIN headers
            /\ headers[j].same \in ChainFrom(headers, headers[j].link)
            /\ HeaderType(headers, headers[j].same) = t
        BY <1>2, <1>3 DEF IsFirstOfType
      <4>2. ChainFrom(headers, headers[j].link) \subseteq ChainFrom(headers, j)
        BY <1>1, <4>1, ChainStep
      <4>3. ChainFrom(headers, j) \subseteq Chain(top)
        BY <1>1, ChainCovers DEF Chain
      <4> QED
        BY <4>1, <4>2, <4>3
    <3> QED
      BY <1>2, <1>5, <2>1, <3>1 DEF TypeWalk
  <2>3. ASSUME NEW S \in SUBSET DOMAIN headers, f \in S, SameClosed(S)
        PROVE  Of \subseteq S
    <3> DEFINE T == {j \in DOMAIN headers :
                       \A g \in 0 .. Len(headers) :
                          IsFirstOfType(headers, g, j, t) => g = 0 \/ g \in S}
    <3>1. top \in T
      <4>1. top # 0
        BY <2>1 DEF Chain, ChainFrom
      <4> QED
        BY <1>1, <2>3, <4>1, FirstUnique
    <3>2. LinkClosed(headers, T)
      <4> SUFFICES ASSUME NEW j \in T, headers[j].link # 0,
                          NEW g \in 0 .. Len(headers),
                          IsFirstOfType(headers, g, headers[j].link, t)
                   PROVE  g = 0 \/ g \in S
        BY <1>1, <1>3 DEF LinkClosed
      <4>1. CASE HeaderType(headers, j) = t
        <5>1. j \in S
          BY <1>1, <4>1, FirstStep
        <5>2. g = headers[j].same
          BY <1>1, <1>3, <4>1, FirstUnique
        <5> QED
          BY <2>3, <5>1, <5>2 DEF SameClosed
      <4>2. CASE HeaderType(headers, j) # t
        <5>1. IsFirstOfType(headers, g, j, t)
          BY <1>1, <4>2, FirstStep
        <5> QED
          BY <5>1
      <4> QED
        BY <4>1, <4>2
    <3>3. Chain(top) \subseteq T
      BY <1>1, <3>1, <3>2 DEF Chain, ChainFrom
    <3> QED
      <4> SUFFICES ASSUME NEW j \in Of PROVE j \in S
        OBVIOUS
      <4>1. j \in T /\ IsFirstOfType(headers, j, j, t)
        BY <1>1, <1>2, <3>3, FirstStep
      <4> QED
        BY <1>1, <4>1
  <2> QED
    BY <1>2, <1>5, <2>2, <2>3 DEF TypeWalk
<1> QED
  BY <1>4, <1>5

(* A set of positions that is not empty has a greatest one. *)
LEMMA Greatest ==
    ASSUME NEW n \in Nat, NEW S \in SUBSET (1 .. n), S # {}
    PROVE  \E m \in S : \A k \in S : k <= m
<1> DEFINE R == OpToRel(<, Nat)
           T == {n - k : k \in S}
<1>1. IsWellFoundedOn(R, Nat)
  BY NatLessThanWellFounded
<1>2. \A x, y \in Nat : x < y => <<x, y>> \in R
  BY DEF OpToRel
<1>3. T \subseteq Nat /\ T # {}
  <2>1. \A k \in S : n - k \in Nat
    OBVIOUS
  <2>2. PICK s \in S : TRUE
    OBVIOUS
  <2>3. n - s \in T
    OBVIOUS
  <2> QED
    BY <2>1, <2>3
<1> HIDE DEF R
<1>4. PICK x \in T : \A y \in T : ~(<<y, x>> \in R)
  <2> HIDE DEF T
  <2> QED
    BY <1>1, <1>3, WFMin
<1>5. PICK m \in S : x = n - m
  OBVIOUS
<1>6. ASSUME NEW k \in S PROVE k <= m
  <2>1. n - k \in T /\ n - k \in Nat /\ x \in Nat
    BY <1>3
  <2>2. ~(n - k < x)
    BY <1>2, <1>4, <2>1
  <2> QED
    BY <1>5, <2>2
<1> QED
  BY <1>6

(* iter_type visits exactly the chain's headers of a type, for chains of    *)
(* any length, after any failed writes, crashes and restarts                *)
(* (ChainStoreTypeIterator).                                                *)
THEOREM TypeIterationExact == Spec => []TypeIteratorComplete
<1>1. IInv => TypeIteratorComplete
  BY TypeWalkExact DEF IInv, TypeIteratorComplete
<1> QED
  BY <1>1, Invariant, PTL

(* find_chain_header and get_most_recent_header_for_entry, which walk along *)
(* different links, find the same header of every entry at all times.       *)
THEOREM LookupsAlwaysAgree == Spec => []LookupsAgree
<1>1. IInv => LookupsAgree
  <2> SUFFICES ASSUME IInv, NEW e \in Entry
               PROVE  FindChainHeader(e) = MostRecentHeaderForEntry(e)
    BY DEF LookupsAgree
  <2> DEFINE Of == {j \in Chain(top) : HeaderType(headers, j) = TypeOf[e]}
             F == {g \in DOMAIN headers : IsFirstOfType(headers, g, top, TypeOf[e])}
             Newest(W) == {j \in W : headers[j].entry = e
                                       /\ \A k \in W : headers[k].entry = e => k <= j}
  <2>1. /\ headers \in Seq(Header) /\ Backward(headers) /\ top \in 0 .. Len(headers)
        /\ DOMAIN headers = 1 .. Len(headers)
    BY StoredBackward DEF IInv, TypeOK
  <2>2. Chain(top) \subseteq DOMAIN headers /\ Of \subseteq 1 .. Len(headers)
    BY <2>1, ChainBelow DEF Chain
  <2>3. \A f \in F : TypeWalk(f) = Of
    BY <2>1, TypeWalkExact DEF IInv
  <2>4. FindChainHeader(e) = Newest(Of)
    BY DEF FindChainHeader, HeaderType
  <2>5. MostRecentHeaderForEntry(e) = UNION {Newest(Of) : f \in F}
    <3>1. MostRecentHeaderForEntry(e) = UNION {Newest(TypeWalk(f)) : f \in F}
      BY DEF MostRecentHeaderForEntry
    <3> HIDE DEF F, Of, Newest
    <3>2. {Newest(TypeWalk(f)) : f \in F} = {Newest(Of) : f \in F}
      BY <2>3
    <3> QED
      BY <3>1, <3>2
  <2>6. Of # {} => F # {}
    <3> SUFFICES ASSUME Of # {} PROVE \E g \in DOMAIN headers :
                                         IsFirstOfType(headers, g, top, TypeOf[e])
      OBVIOUS
    <3>1. Len(headers) \in Nat
      BY <2>1
    <3>2. PICK m \in Of : \A k \in Of : k <= m
      <4> HIDE DEF Of
      <4> QED
        BY <2>2, <3>1, Greatest
    <3> QED
      BY <2>2, <3>2 DEF IsFirstOfType, Chain
  <2>7. Newest(Of) # {} => Of # {}
    OBVIOUS
  <2> HIDE DEF F, Of, Newest
  <2> QED
    BY <2>4, <2>5, <2>6, <2>7
<1> QED
  BY <1>1, Invariant, PTL

=============================================================================
