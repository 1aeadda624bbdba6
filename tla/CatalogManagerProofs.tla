---- MODULE CatalogManagerProofs ----
(***************************************************************************)
(* Proofs about the store, for every set of specs, entries and records:    *)
(* its types are kept, and under faults that kill the process or make its  *)
(* writes fail - but leave files readable - it is the durable store that   *)
(* DurableStore describes, its histories are append-only and no entry is   *)
(* ever dropped from catalog.json.                                         *)
(***************************************************************************)
EXTENDS CatalogManager, TLAPS

LEMMA EmptyCatalogType == EmptyCatalog \in Catalogs
  BY DEF EmptyCatalog, Catalogs

LEMMA ReadTypes ==
  ASSUME StoreTypeOK
  PROVE  /\ CatalogReads \subseteq Catalogs
         /\ EnsureLoaded \subseteq Catalogs
         /\ \A id \in SpecIds : HistoryReads(id) \subseteq Seq(Record)
<1>1. CatalogReads \subseteq Catalogs
  BY EmptyCatalogType DEF CatalogReads, StoreTypeOK
<1>2. EnsureLoaded \subseteq Catalogs
  BY <1>1 DEF EnsureLoaded, StoreTypeOK
<1>3. ASSUME NEW id \in SpecIds
      PROVE  HistoryReads(id) \subseteq Seq(Record)
  <2>1. historyFiles[id] \in Seq(Record)
    BY DEF StoreTypeOK
  <2>2. <<>> \in Seq(Record)
    OBVIOUS
  <2> QED BY <2>1, <2>2 DEF HistoryReads
<1> QED BY <1>1, <1>2, <1>3

LEMMA NoTempType ==
  NoTemp \in [path    : SpecIds \cup {CatalogPath, None},
              catalog : Catalogs,
              history : Seq(Record)]
  BY EmptyCatalogType DEF NoTemp

(* One lemma per kind of step, so that modules that use the store can cite *)
(* them for their own steps.                                               *)
LEMMA StoreInitType == StoreInit => StoreTypeOK
<1> SUFFICES ASSUME StoreInit PROVE StoreTypeOK
  OBVIOUS
<1>1. historyFiles \in [SpecIds -> Seq(Record)]
  <2>1. <<>> \in Seq(Record)
    OBVIOUS
  <2> QED BY <2>1 DEF StoreInit
<1> QED BY <1>1, EmptyCatalogType, NoTempType DEF StoreInit, StoreTypeOK

LEMMA LoadType == StoreTypeOK /\ load => StoreTypeOK'
  BY ReadTypes DEF load, StoreTypeOK, diskVars, CatalogReads, Catalogs

LEMMA UpsertType ==
  ASSUME StoreTypeOK, NEW id \in SpecIds, NEW e \in Entry, upsert(id, e)
  PROVE  StoreTypeOK'
<1>1. entries' \in Catalogs
  <2>1. PICK opened \in EnsureLoaded : entries' = [opened EXCEPT ![id] = e]
    BY DEF upsert
  <2>2. opened \in Catalogs
    BY <2>1, ReadTypes
  <2> QED BY <2>1, <2>2 DEF Catalogs
<1> QED BY <1>1 DEF upsert, StoreTypeOK, diskVars, Catalogs

LEMMA BeginAppendType ==
  ASSUME StoreTypeOK, NEW id \in SpecIds, NEW r \in Record, BeginAppend(id, r)
  PROVE  StoreTypeOK'
<1>1. PICK old \in HistoryReads(id) :
        temp' = [path |-> id, catalog |-> EmptyCatalog, history |-> Append(old, r)]
  BY DEF BeginAppend
<1>2. Append(old, r) \in Seq(Record)
  <2>1. old \in Seq(Record)
    BY <1>1, ReadTypes
  <2> QED BY <2>1
<1> QED BY <1>1, <1>2, EmptyCatalogType DEF BeginAppend, StoreTypeOK, diskVars, Catalogs

LEMMA BeginSaveType == StoreTypeOK /\ BeginSave => StoreTypeOK'
<1> SUFFICES ASSUME StoreTypeOK, BeginSave PROVE StoreTypeOK'
  OBVIOUS
<1>1. entries' \in Catalogs
  BY ReadTypes DEF BeginSave
<1>2. <<>> \in Seq(Record)
  OBVIOUS
<1> QED BY <1>1, <1>2 DEF BeginSave, StoreTypeOK, diskVars, Catalogs

LEMMA ReplaceTypes ==
  StoreTypeOK /\ (ReplaceHistory \/ ReplaceCatalog) => StoreTypeOK'
<1> SUFFICES ASSUME StoreTypeOK, ReplaceHistory \/ ReplaceCatalog
             PROVE  StoreTypeOK'
  OBVIOUS
<1>1. CASE ReplaceHistory
  BY <1>1, NoTempType DEF ReplaceHistory, StoreTypeOK, Catalogs
<1>2. CASE ReplaceCatalog
  BY <1>2, NoTempType DEF ReplaceCatalog, StoreTypeOK, Catalogs
<1> QED BY <1>1, <1>2

LEMMA EndTypes == StoreTypeOK /\ (WriteError \/ ProcessEnds) => StoreTypeOK'
<1> SUFFICES ASSUME StoreTypeOK, WriteError \/ ProcessEnds PROVE StoreTypeOK'
  OBVIOUS
<1>1. CASE WriteError
  BY <1>1, NoTempType DEF WriteError, StoreTypeOK, diskVars, Catalogs
<1>2. CASE ProcessEnds
  BY <1>2, NoTempType, EmptyCatalogType DEF ProcessEnds, StoreTypeOK, diskVars, Catalogs
<1> QED BY <1>1, <1>2

(* The store keeps its types, whatever the faults.                         *)
THEOREM StoreTypeCorrect == StoreSpec => []StoreTypeOK
<1>1. ASSUME StoreTypeOK, [StoreNext]_storeVars
      PROVE  StoreTypeOK'
  <2>1. CASE load
    BY <1>1, <2>1, LoadType
  <2>2. ASSUME NEW id \in SpecIds, NEW e \in Entry, upsert(id, e)
        PROVE  StoreTypeOK'
    BY <1>1, <2>2, UpsertType
  <2>3. ASSUME NEW id \in SpecIds, NEW r \in Record, BeginAppend(id, r)
        PROVE  StoreTypeOK'
    BY <1>1, <2>3, BeginAppendType
  <2>4. CASE BeginSave
    BY <1>1, <2>4, BeginSaveType
  <2>5. CASE ReplaceHistory \/ ReplaceCatalog
    BY <1>1, <2>5, ReplaceTypes
  <2>6. CASE WriteError \/ Kill
    BY <1>1, <2>6, EndTypes DEF Kill
  <2>7. CASE UNCHANGED storeVars
    BY <1>1, <2>7 DEF storeVars, StoreTypeOK, Catalogs
  <2> QED BY <1>1, <2>1, <2>2, <2>3, <2>4, <2>5, <2>6, <2>7 DEF StoreNext
<1> QED BY <1>1, StoreInitType, PTL DEF StoreSpec
-----------------------------------------------------------------------------
(*                 The store that leaves its files readable                *)

(* What ties the temporary file to the rest of the state: a catalog on its *)
(* way to the disk is the one in memory, and a history on its way is the   *)
(* one on disk with one more record.  In memory is every spec of the file. *)
TempIsConsistent ==
  /\ temp.path = CatalogPath => loaded /\ temp.catalog = entries
  /\ temp.path \in SpecIds =>
       \E r \in Record : temp.history = Append(historyFiles[temp.path], r)

MemoryCoversFile ==
  loaded => \A id \in SpecIds : catalogFile[id] # None => entries[id] # None

StoreInv == StoreTypeOK /\ TempIsConsistent /\ MemoryCoversFile

LEMMA ReadsAreFaithful ==
  ASSUME FilesAreReadable
  PROVE  /\ CatalogReads = {catalogFile}
         /\ \A id \in SpecIds : HistoryReads(id) = {historyFiles[id]}
  BY DEF FilesAreReadable, CatalogReads, HistoryReads

LEMMA StoreInvInit == StoreInit => StoreInv
  BY StoreInitType, PathsAreDistinct
     DEF StoreInit, StoreInv, TempIsConsistent, MemoryCoversFile, NoTemp

LEMMA StoreInvStep ==
  ASSUME FilesAreReadable, StoreInv, [StoreNext]_storeVars, StoreTypeOK'
  PROVE  StoreInv'
<1> USE DEF StoreInv, TempIsConsistent, MemoryCoversFile
<1>1. CASE Idle /\ load
  BY <1>1, ReadsAreFaithful, PathsAreDistinct DEF load, Idle, diskVars
<1>2. ASSUME NEW id \in SpecIds, NEW e \in Entry, Idle, upsert(id, e)
      PROVE  StoreInv'
  <2>1. PICK opened \in {entries, catalogFile} :
          /\ entries' = [opened EXCEPT ![id] = e]
          /\ \A i \in SpecIds : catalogFile[i] # None => opened[i] # None
    BY <1>2, ReadsAreFaithful DEF upsert, EnsureLoaded
  <2>2. opened \in Catalogs
    BY <2>1 DEF StoreTypeOK
  <2>3. \A i \in SpecIds : catalogFile[i] # None => entries'[i] # None
    BY <2>1, <2>2, NoneIsNoEntry DEF Catalogs
  <2> QED BY <1>2, <2>3, PathsAreDistinct DEF upsert, Idle, diskVars
<1>3. ASSUME NEW id \in SpecIds, NEW r \in Record, BeginAppend(id, r)
      PROVE  StoreInv'
  BY <1>3, ReadsAreFaithful, PathsAreDistinct DEF BeginAppend, diskVars
<1>4. CASE BeginSave
  BY <1>4, ReadsAreFaithful, PathsAreDistinct
     DEF BeginSave, EnsureLoaded, diskVars
<1>5. CASE ReplaceHistory
  BY <1>5, PathsAreDistinct DEF ReplaceHistory, NoTemp
<1>6. CASE ReplaceCatalog
  BY <1>6, PathsAreDistinct DEF ReplaceCatalog, NoTemp
<1>7. CASE WriteError
  BY <1>7, PathsAreDistinct DEF WriteError, NoTemp, diskVars
<1>8. CASE Kill
  BY <1>8, PathsAreDistinct DEF Kill, ProcessEnds, NoTemp, diskVars
<1>9. CASE UNCHANGED storeVars
  BY <1>9 DEF storeVars
<1> QED BY <1>1, <1>2, <1>3, <1>4, <1>5, <1>6, <1>7, <1>8, <1>9 DEF StoreNext

LEMMA StoreInvariant ==
  ASSUME FilesAreReadable
  PROVE  StoreSpec => []StoreInv
<1>1. StoreSpec => []StoreTypeOK
  BY StoreTypeCorrect
<1>2. StoreInv /\ [StoreNext]_storeVars /\ StoreTypeOK' => StoreInv'
  BY StoreInvStep
<1> QED BY <1>1, <1>2, StoreInvInit, PTL DEF StoreSpec

(* Every step is a step of the durable store, or none: os.replace() of a   *)
(* catalog is Commit, os.replace() of a history is Extend, and losing the  *)
(* process is Revert (catalog.py:100-135, 172-222).                        *)
LEMMA StepImplementsDurable ==
  ASSUME FilesAreReadable, StoreInv, [StoreNext]_storeVars
  PROVE  [Durable!AbsNext]_(Durable!absVars)
<1> DEFINE view == IF loaded THEN entries ELSE catalogFile
<1> USE DEF StoreInv, TempIsConsistent, Durable!absVars
<1>1. CASE Idle /\ load
  <2>1. Durable!Revert
    BY <1>1, ReadsAreFaithful DEF load, diskVars, Durable!Revert
  <2> QED BY <2>1 DEF Durable!AbsNext
<1>2. ASSUME NEW id \in SpecIds, NEW e \in Entry, Idle, upsert(id, e)
      PROVE  [Durable!AbsNext]_(Durable!absVars)
  <2>1. EnsureLoaded = {view}
    BY ReadsAreFaithful DEF EnsureLoaded
  <2>2. Durable!Put(id, e)
    BY <1>2, <2>1 DEF upsert, diskVars, Durable!Put
  <2> QED BY <2>2 DEF Durable!AbsNext
<1>3. ASSUME NEW id \in SpecIds, NEW r \in Record, BeginAppend(id, r)
      PROVE  UNCHANGED Durable!absVars
  BY <1>3 DEF BeginAppend, diskVars
<1>4. CASE BeginSave
  BY <1>4, ReadsAreFaithful DEF BeginSave, EnsureLoaded, diskVars
<1>5. CASE ReplaceHistory
  <2>1. PICK r \in Record : temp.history = Append(historyFiles[temp.path], r)
    BY <1>5 DEF ReplaceHistory
  <2>2. Durable!Extend(temp.path, r)
    BY <1>5, <2>1 DEF ReplaceHistory, Durable!Extend
  <2> QED BY <1>5, <2>2 DEF ReplaceHistory, Durable!AbsNext
<1>6. CASE ReplaceCatalog
  <2>1. Durable!Commit
    BY <1>6 DEF ReplaceCatalog, Durable!Commit
  <2> QED BY <2>1 DEF Durable!AbsNext
<1>7. CASE WriteError
  BY <1>7 DEF WriteError, diskVars
<1>8. CASE Kill
  <2>1. Durable!Revert
    BY <1>8 DEF Kill, ProcessEnds, diskVars, Durable!Revert
  <2> QED BY <2>1 DEF Durable!AbsNext
<1>9. CASE UNCHANGED storeVars
  BY <1>9 DEF storeVars
<1> QED BY <1>1, <1>2, <1>3, <1>4, <1>5, <1>6, <1>7, <1>8, <1>9 DEF StoreNext

(* To its caller the manager is the durable store, as long as its files    *)
(* can be read: the protocol of temporary files makes each write atomic    *)
(* under kills and failed writes.                                          *)
THEOREM StoreIsDurable ==
  ASSUME FilesAreReadable
  PROVE  StoreSpec => ImplementsDurableStore
<1>1. StoreInit => Durable!AbsInit
  BY DEF StoreInit, Durable!AbsInit, EmptyCatalog
<1>2. StoreInv /\ [StoreNext]_storeVars => [Durable!AbsNext]_(Durable!absVars)
  BY StepImplementsDurable
<1> QED BY <1>1, <1>2, StoreInvariant, PTL
        DEF StoreSpec, ImplementsDurableStore, Durable!AbsSpec

LEMMA PrefixOfItself ==
  ASSUME NEW s \in Seq(Record)
  PROVE  IsPrefixOf(s, s)
  BY DEF IsPrefixOf

LEMMA PrefixOfAppend ==
  ASSUME NEW s \in Seq(Record), NEW r \in Record
  PROVE  IsPrefixOf(s, Append(s, r))
<1>1. /\ Len(Append(s, r)) = Len(s) + 1
      /\ DOMAIN s = 1 .. Len(s)
      /\ \A i \in 1 .. Len(s) : Append(s, r)[i] = s[i]
  OBVIOUS
<1>2. Len(s) \in Nat
  OBVIOUS
<1> QED BY <1>1, <1>2 DEF IsPrefixOf

(* A record that reached a history file stays there at its place.          *)
THEOREM HistoriesAreAppendOnly ==
  ASSUME FilesAreReadable
  PROVE  StoreSpec => HistoryIsAppendOnly
<1> DEFINE Grows == \A id \in SpecIds :
                      IsPrefixOf(historyFiles[id], historyFiles'[id])
<1>1. ASSUME StoreInv, [StoreNext]_storeVars
      PROVE  [Grows]_storeVars
  <2>1. CASE ReplaceHistory
    <3>1. PICK r \in Record : temp.history = Append(historyFiles[temp.path], r)
      BY <1>1, <2>1 DEF ReplaceHistory, StoreInv, TempIsConsistent
    <3>2. ASSUME NEW id \in SpecIds
          PROVE  IsPrefixOf(historyFiles[id], historyFiles'[id])
      <4>1. historyFiles \in [SpecIds -> Seq(Record)]
        BY <1>1 DEF StoreInv, StoreTypeOK
      <4>2. historyFiles'[id] = historyFiles[id]
              \/ historyFiles'[id] = Append(historyFiles[id], r)
        BY <2>1, <3>1, <4>1 DEF ReplaceHistory
      <4>3. historyFiles[id] \in Seq(Record)
        BY <4>1
      <4> QED BY <4>2, <4>3, PrefixOfItself, PrefixOfAppend
    <3> QED BY <3>2
  <2>2. ASSUME historyFiles' = historyFiles
        PROVE  Grows
    <3>1. historyFiles \in [SpecIds -> Seq(Record)]
      BY <1>1 DEF StoreInv, StoreTypeOK
    <3> QED BY <2>2, <3>1, PrefixOfItself DEF Grows
  <2>3. CASE UNCHANGED storeVars
    BY <2>3
  <2>4. ASSUME ~ReplaceHistory, StoreNext
        PROVE  historyFiles' = historyFiles
    BY <2>4 DEF StoreNext, load, upsert, BeginAppend, BeginSave, ReplaceCatalog,
         WriteError, Kill, ProcessEnds, diskVars
  <2> QED BY <1>1, <2>1, <2>2, <2>3, <2>4
<1> QED BY <1>1, StoreInvariant, PTL DEF StoreSpec, HistoryIsAppendOnly

(* A spec that catalog.json holds is in every later catalog.json.          *)
THEOREM EntriesAreKept ==
  ASSUME FilesAreReadable
  PROVE  StoreSpec => NoEntryIsDropped
<1>1. ASSUME StoreInv, [StoreNext]_storeVars
      PROVE  [\A id \in SpecIds : catalogFile[id] # None
                                  => catalogFile'[id] # None]_storeVars
  <2>1. CASE ReplaceCatalog
    BY <1>1, <2>1 DEF ReplaceCatalog, StoreInv, TempIsConsistent, MemoryCoversFile
  <2>2. ASSUME ~ReplaceCatalog, StoreNext
        PROVE  catalogFile' = catalogFile
    BY <2>2 DEF StoreNext, load, upsert, BeginAppend, BeginSave, ReplaceHistory,
         WriteError, Kill, ProcessEnds, diskVars
  <2> QED BY <1>1, <2>1, <2>2
<1> QED BY <1>1, StoreInvariant, PTL DEF StoreSpec, NoEntryIsDropped
====
