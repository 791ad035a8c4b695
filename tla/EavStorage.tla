----------------------------- MODULE EavStorage -----------------------------
(***************************************************************************)
(* The three storages of EAVIs in cas_implementations/src/eav: in files    *)
(* (file.rs), in memory (memory.rs) and in a PickleDb (pickle.rs), driven  *)
(* with the same additions one after the other.  An EAVI is stamped with   *)
(* the time at which it is built.  The clock does not go back.             *)
(***************************************************************************)
EXTENDS EavQuery, Sequences

CONSTANTS
    Entity, Attribute, Value,
    Slashed,    \* the attributes whose text has a "/" (in the tag of a link)
    MaxTime,    \* bound on the clock
    MaxAdds     \* bound on the number of additions

ASSUME SlashedAssumption == Slashed \subseteq Attribute
ASSUME BoundsAssumption == MaxTime \in Nat /\ MaxAdds \in Nat

VARIABLES
    now,                     \* Utc::now().timestamp_nanos()
    eavi,                    \* the EAVI being added
    pc,                      \* which storage's add_eavi runs, and where it is
    file_e, file_a, file_v,  \* files under the directories e, a and v
    storage,                 \* EavMemoryStorage::storage
    db,                      \* EavPickleStorage::db
    added                    \* what was added to all three, in that order

files == <<file_e, file_a, file_v>>
vars == <<now, eavi, pc, file_e, file_a, file_v, storage, db, added>>

Eavi == [entity : Entity, attribute : Attribute, value : Value,
         index : 1 .. MaxTime + MaxAdds]
NoEavi == [entity |-> 0, attribute |-> 0, value |-> 0, index |-> 0]

Init ==
    /\ now = 1
    /\ eavi = NoEavi
    /\ pc = "idle"
    /\ file_e = {} /\ file_a = {} /\ file_v = {}
    /\ storage = {}
    /\ db = {}
    /\ added = <<>>

Tick ==
    /\ now < MaxTime
    /\ now' = now + 1
    /\ UNCHANGED <<eavi, pc, files, storage, db, added>>

(* EntityAttributeValueIndex::new, and EavFileStorage::add_eavi begins.    *)
(* The path that add_eavi looks up to see a collision has a directory "*", *)
(* which no call creates: it never exists, and the stamp is kept.          *)
NewEavi(e, a, v) ==
    /\ pc = "idle"
    /\ Len(added) < MaxAdds /\ Cardinality(file_e) < MaxAdds
    /\ eavi' = [entity |-> e, attribute |-> a, value |-> v, index |-> now]
    /\ pc' = "entity"
    /\ UNCHANGED <<now, files, storage, db, added>>

(* write_to_file, once for each directory. *)
WriteEntity ==
    /\ pc = "entity"
    /\ file_e' = file_e \cup {eavi}
    /\ pc' = "attribute"
    /\ UNCHANGED <<now, eavi, file_a, file_v, storage, db, added>>

WriteAttribute ==
    /\ pc = "attribute"
    /\ file_a' = file_a \cup {eavi}
    /\ pc' = "value"
    /\ UNCHANGED <<now, eavi, file_e, file_v, storage, db, added>>

WriteValue ==
    /\ pc = "value"
    /\ file_v' = file_v \cup {eavi}
    /\ pc' = "memory"
    /\ UNCHANGED <<now, eavi, file_e, file_a, storage, db, added>>

(* A write fails: add_eavi answers Err and leaves what it wrote. *)
WriteFails ==
    /\ pc \in {"entity", "attribute", "value"}
    /\ pc' = "idle"
    /\ eavi' = NoEavi
    /\ UNCHANGED <<now, files, storage, db, added>>

(* EavMemoryStorage::add_eavi *)
MemoryAdd ==
    /\ pc = "memory"
    /\ storage' = InsertByIndex(storage, [eavi EXCEPT !.index = FirstFreeIndex(storage, @)])
    /\ pc' = "pickle"
    /\ UNCHANGED <<now, eavi, files, db, added>>

(* EavPickleStorage::add_eavi: stamp again until the index is free. *)
PickleStampAgain ==
    /\ pc = "pickle"
    /\ \E x \in db : x.index = eavi.index
    /\ eavi.index < now
    /\ eavi' = [eavi EXCEPT !.index = now]
    /\ UNCHANGED <<now, pc, files, storage, db, added>>

PickleAdd ==
    /\ pc = "pickle"
    /\ \A x \in db : x.index # eavi.index
    /\ db' = db \cup {eavi}
    /\ added' = Append(added, eavi)
    /\ pc' = "idle"
    /\ eavi' = NoEavi
    /\ UNCHANGED <<now, files, storage>>

Next ==
    \/ Tick
    \/ \E e \in Entity, a \in Attribute, v \in Value : NewEavi(e, a, v)
    \/ WriteEntity \/ WriteAttribute \/ WriteValue \/ WriteFails
    \/ MemoryAdd \/ PickleStampAgain \/ PickleAdd

Spec == Init /\ [][Next]_vars

-----------------------------------------------------------------------------
(* EavFileStorage::fetch_eavi                                              *)

(* Faulty: the directory v is not read. *)
ReadFromDirsTwo(E, A, V) ==
    {x \in file_e : x.entity \in E} \cap {x \in file_a : x.attribute \in A}

(* read_from_dir, and the intersection.  A "/" in the attribute puts its   *)
(* files into a deeper directory than the one glob looks into.             *)
ReadFromDirs(E, A, V) ==
    {x \in file_e : x.entity \in E}
        \cap {x \in file_a : x.attribute \in A \ Slashed}
        \cap {x \in file_v : x.value \in V}

FileFetch(E, A, V) ==
    FetchLatest(CollectByIndex(ReadFromDirs(E, A, V)), Entity, Attribute, Value)

-----------------------------------------------------------------------------
(* Properties.                                                             *)

(* Every variable holds a value of its declared kind. *)
TypeOK ==
    /\ now \in 1 .. MaxTime
    /\ eavi \in Eavi \cup {NoEavi}
    /\ pc \in {"idle", "entity", "attribute", "value", "memory", "pickle"}
    /\ file_e \subseteq Eavi /\ file_a \subseteq Eavi /\ file_v \subseteq Eavi
    /\ storage \subseteq Eavi
    /\ db \subseteq Eavi
    /\ added \in Seq(Eavi) /\ Len(added) <= MaxAdds

Triple(x) == <<x.entity, x.attribute, x.value>>
Triples(S) == {Triple(x) : x \in S}

(* S holds exactly what was added, and in order of index it is the order   *)
(* of the additions.                                                       *)
InOrderOfAdding(S) ==
    /\ Cardinality(S) = Len(added)
    /\ \A x \in S : Triple(x) = Triple(added[Cardinality({y \in S : y.index <= x.index})])

(* Also when stamps collide, the memory storage and the PickleDb lose no   *)
(* EAVI and the order of their indices is the order of the additions: the  *)
(* latest EAVI of a group is the one that was added last.                  *)
IndicesInOrder == pc = "idle" => InOrderOfAdding(storage) /\ InOrderOfAdding(db)

(* The filters a caller builds: one value of a kind, or any. *)
Filters(S) == {{x} : x \in S} \cup {S}

(* Apart from an addition under way, a query gets the same answer from the *)
(* three storages as long as no two EAVIs have the same stamp, also after  *)
(* additions that failed halfway.                                          *)
FetchesAgree ==
    pc = "idle" /\ (\A x, y \in file_e : x.index = y.index => x = y) =>
        \A E \in Filters(Entity), A \in Filters(Attribute), V \in Filters(Value) :
            /\ Triples(FileFetch(E, A, V)) = Triples(FetchLatest(storage, E, A, V))
            /\ Triples(FileFetch(E, A, V)) = Triples(FetchLatest(db, E, A, V))

(* What was added last for an entity and a value is found in the file      *)
(* storage by the query that get_links makes: for this entity, for this    *)
(* attribute and for any value.                                            *)
FileFetchFinds ==
    pc = "idle" =>
        \A i \in DOMAIN added :
            LET x == added[i] IN
            (\A j \in i + 1 .. Len(added) : added[j].entity # x.entity \/ added[j].value # x.value)
                => Triple(x) \in Triples(FileFetch({x.entity}, {x.attribute}, Value))
=============================================================================
