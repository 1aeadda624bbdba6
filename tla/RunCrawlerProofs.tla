---- MODULE RunCrawlerProofs ----
(***************************************************************************)
(* Proofs about the crawl, for every set of URLs, specs and contents, any  *)
(* number of runs and any identification of URLs with specs.               *)
(***************************************************************************)
EXTENDS RunCrawler, TLAPS

(* Where the thread is determines what is in its hands.                    *)
InProcess == {"fetch", "append", "appending", "save", "saving"}

ControlOK ==
  /\ Running => loaded
  /\ pc \in InProcess => current \in Urls
  /\ pc \in {"append", "appending"} => pending \in HistoryEntry
  /\ temp.path = IF pc = "appending" THEN spec_id
                 ELSE IF pc = "saving" THEN CatalogPath ELSE None

TypeInv == TypeOK /\ ControlOK

-----------------------------------------------------------------------------
(*                         Types of what is built                          *)

LEMMA SpecIdType ==
  ASSUME current \in Urls
  PROVE  spec_id \in SpecIds
  BY UtilsAreFunctions DEF spec_id

LEMMA NewEntryType ==
  ASSUME NEW parsed \in ParsedSpec, NEW hash \in Hashes, NEW stamp \in Nat
  PROVE  make_new_catalog_entry(parsed, hash, stamp) \in CatalogEntry
  BY DEF make_new_catalog_entry, CatalogEntry, ParsedSpec, SpecStatus

LEMMA UpdatedEntryType ==
  ASSUME NEW entry \in CatalogEntry, NEW parsed \in ParsedSpec,
         NEW hash \in Hashes \cup {None, ""}, NEW status \in SpecStatus,
         NEW stamp \in Nat
  PROVE  update_catalog_entry(entry, parsed, hash, status, stamp) \in CatalogEntry
  BY DEF update_catalog_entry, OrElse, CatalogEntry, ParsedSpec

LEMMA StatusType ==
  ASSUME NEW parsed, NEW entry, NEW hash
  PROVE  determine_status(parsed, entry, hash) \in SpecStatus
  BY DEF determine_status, SpecStatus

LEMMA HistoryEntryType ==
  ASSUME NEW parsed \in ParsedSpec, NEW hash \in Hashes,
         NEW status \in SpecStatus, NEW stamp \in Nat
  PROVE  build_history_entry(parsed, hash, status, OldPaths, stamp) \in HistoryEntry
  BY DEF build_history_entry, OldPaths, HistoryEntry, ParsedSpec

LEMMA CountType ==
  ASSUME stats \in [CrawlStats -> Nat], NEW fields, Count(fields)
  PROVE  stats' \in [CrawlStats -> Nat]
  BY DEF Count

-----------------------------------------------------------------------------
(*                       Types of the store's steps                        *)

LEMMA EmptyTypes ==
  /\ Store!EmptyCatalog \in Store!Catalogs
  /\ Store!NoTemp \in [path    : SpecIds \cup {CatalogPath, None},
                       catalog : Store!Catalogs,
                       history : Seq(HistoryEntry)]
  /\ Store!NoTemp.path = None
<1>1. Store!EmptyCatalog \in Store!Catalogs
  BY DEF Store!EmptyCatalog, Store!Catalogs
<1>2. <<>> \in Seq(HistoryEntry)
  OBVIOUS
<1> QED BY <1>1, <1>2 DEF Store!NoTemp

LEMMA UpsertTypes ==
  ASSUME TypeInv, pc = "fetch", NEW entry \in CatalogEntry,
         Store!upsert(spec_id, entry)
  PROVE  /\ Store!StoreTypeOK' /\ loaded' /\ temp' = temp
         /\ entries' = [entries EXCEPT ![spec_id] = entry]
         /\ UNCHANGED <<catalogFile, historyFiles>>
<1>1. entries' = [entries EXCEPT ![spec_id] = entry]
  BY DEF TypeInv, ControlOK, Running, Store!upsert, Store!EnsureLoaded
<1>2. entries' \in Store!Catalogs
  BY <1>1 DEF TypeInv, TypeOK, Store!StoreTypeOK, Store!Catalogs
<1>3. loaded' /\ temp' = temp /\ UNCHANGED <<catalogFile, historyFiles>>
  BY DEF Store!upsert, Store!diskVars
<1> QED BY <1>1, <1>2, <1>3
        DEF TypeInv, TypeOK, Store!StoreTypeOK, Store!Catalogs

LEMMA ProcessEndsTypes ==
  ASSUME TypeInv, Store!ProcessEnds
  PROVE  Store!StoreTypeOK' /\ temp'.path = None
  BY EmptyTypes DEF TypeInv, TypeOK, Store!ProcessEnds, Store!StoreTypeOK,
     Store!Catalogs, Store!diskVars

LEMMA RecordErrorTypes ==
  ASSUME TypeInv, pc = "fetch", record_error
  PROVE  /\ Store!StoreTypeOK' /\ loaded' /\ temp' = temp
         /\ UNCHANGED <<catalogFile, historyFiles>>
         /\ \E entry \in CatalogEntry :
              /\ entries' = [entries EXCEPT ![spec_id] = entry]
              /\ entry.latest_hash = HashOf(existing)
<1> DEFINE entry ==
      IF existing # None
      THEN [existing EXCEPT !.status = "error", !.fetched_at = clock]
      ELSE [id                  |-> BlankId,
            latest_info_version |-> None,
            latest_hash         |-> None,
            status              |-> "error",
            first_seen_at       |-> clock,
            last_updated_at     |-> 0,
            fetched_at          |-> clock]
<1>1. existing \in CatalogEntry \cup {None}
  BY SpecIdType DEF TypeInv, TypeOK, ControlOK, InProcess, existing,
     Store!StoreTypeOK, Store!Catalogs
<1>2. entry \in CatalogEntry
  <2>1. clock \in Nat
    BY DEF TypeInv, TypeOK
  <2>2. CASE existing # None
    BY <1>1, <2>1, <2>2 DEF CatalogEntry, SpecStatus
  <2>3. CASE existing = None
    BY <2>1, <2>3 DEF CatalogEntry, SpecStatus, BlankId
  <2> QED BY <2>2, <2>3
<1>3. Store!upsert(spec_id, entry)
  BY DEF record_error
<1>4. entry.latest_hash = HashOf(existing)
  BY <1>1 DEF HashOf, CatalogEntry
<1>5. entries' = [entries EXCEPT ![spec_id] = entry]
  BY <1>2, <1>3, UpsertTypes
<1> HIDE DEF entry
<1> QED BY <1>2, <1>3, <1>4, <1>5, UpsertTypes
-----------------------------------------------------------------------------
(*                           Type correctness                              *)

LEMMA TypeInvInit == Init => TypeInv
<1> SUFFICES ASSUME Init PROVE TypeInv
  OBVIOUS
<1>1. Store!StoreTypeOK
  <2>1. <<>> \in Seq(HistoryEntry)
    OBVIOUS
  <2> QED BY <2>1, EmptyTypes DEF Init, Store!StoreInit, Store!StoreTypeOK
<1>2. TypeOK
  BY <1>1 DEF Init, TypeOK, Labels
<1>3. ControlOK
  BY EmptyTypes DEF Init, ControlOK, Running, InProcess, Store!StoreInit
<1> QED BY <1>2, <1>3 DEF TypeInv

LEMMA MainKeepsTypes ==
  ASSUME TypeInv,
         Start \/ (\E url \in Urls : Discover(url)) \/ Save \/ Saved \/ Finish
  PROVE  TypeInv'
<1> USE DEF TypeInv, TypeOK, ControlOK, Running, InProcess, Labels, Goto
<1>1. CASE Start
  <2>1. Store!StoreTypeOK'
    BY <1>1, EmptyTypes DEF Start, Store!load, Store!CatalogReads, Store!diskVars,
       Store!StoreTypeOK, Store!Catalogs
  <2> QED BY <1>1, <2>1 DEF Start, Store!load
<1>2. ASSUME NEW url \in Urls, Discover(url)
      PROVE  TypeInv'
  <2>1. Store!StoreTypeOK' /\ temp' = temp /\ loaded' = loaded
    BY <1>2 DEF Discover, storeVars, Store!StoreTypeOK, Store!Catalogs
  <2>2. stats' \in [CrawlStats -> Nat]
    BY <1>2, CountType DEF Discover
  <2> QED BY <1>2, <2>1, <2>2 DEF Discover
<1>3. CASE Save
  <2>1. entries' = entries /\ loaded'
    BY <1>3 DEF Save, Store!BeginSave, Store!EnsureLoaded
  <2>2. <<>> \in Seq(HistoryEntry)
    OBVIOUS
  <2>3. Store!StoreTypeOK' /\ temp'.path = CatalogPath
    BY <1>3, <2>1, <2>2 DEF Save, Store!BeginSave, Store!diskVars,
       Store!StoreTypeOK, Store!Catalogs
  <2> QED BY <1>3, <2>1, <2>3 DEF Save
<1>4. CASE Saved
  <2>1. Store!StoreTypeOK' /\ temp'.path = None /\ loaded' = loaded
    BY <1>4, EmptyTypes DEF Saved, Store!ReplaceCatalog, Store!StoreTypeOK,
       Store!Catalogs
  <2> QED BY <1>4, <2>1 DEF Saved
<1>5. CASE Finish
  BY <1>5, ProcessEndsTypes DEF Finish
<1> QED BY <1>1, <1>2, <1>3, <1>4, <1>5

LEMMA ProcessKeepsTypes ==
  ASSUME TypeInv, Process
  PROVE  TypeInv'
<1> USE DEF TypeInv, TypeOK, ControlOK, Running, InProcess, Labels, Goto
<1>1. CASE FetchFails
  <2>1. stats' \in [CrawlStats -> Nat]
    BY <1>1, CountType DEF FetchFails
  <2> QED BY <1>1, <2>1, RecordErrorTypes DEF FetchFails, Process
<1>2. CASE FetchNotModified
  <2>1. stats' \in [CrawlStats -> Nat]
    BY <1>2, CountType DEF FetchNotModified
  <2>2. Store!StoreTypeOK' /\ loaded' = loaded /\ temp' = temp
    <3>1. CASE existing # None
      <4>1. existing \in CatalogEntry
        BY <1>2, <3>1, SpecIdType DEF FetchNotModified, existing,
           Store!StoreTypeOK, Store!Catalogs
      <4>2. empty_parsed_stub(existing) \in ParsedSpec
        BY <4>1 DEF empty_parsed_stub, CatalogEntry, ParsedSpec
      <4>3. HashOrEmpty(existing) \in Hashes \cup {None, ""}
        BY <4>1 DEF HashOrEmpty, CatalogEntry
      <4>4. update_catalog_entry(existing, empty_parsed_stub(existing),
              HashOrEmpty(existing), "unchanged", clock) \in CatalogEntry
        BY <4>1, <4>2, <4>3, UpdatedEntryType DEF SpecStatus
      <4> QED BY <1>2, <3>1, <4>4, UpsertTypes DEF FetchNotModified
    <3>2. CASE existing = None
      BY <1>2, <3>2 DEF FetchNotModified, storeVars, Store!StoreTypeOK, Store!Catalogs
    <3> QED BY <3>1, <3>2
  <2> QED BY <1>2, <2>1, <2>2 DEF FetchNotModified, Process
<1>3. ASSUME NEW content \in Contents, ParseRaises(content)
      PROVE  TypeInv'
  <2>1. stats' \in [CrawlStats -> Nat]
    BY <1>3, CountType DEF ParseRaises
  <2> QED BY <1>3, <2>1, ProcessEndsTypes DEF ParseRaises, Process
<1>4. ASSUME NEW content \in Contents, ParseRejects(content)
      PROVE  TypeInv'
  <2>1. stats' \in [CrawlStats -> Nat]
    BY <1>4, CountType DEF ParseRejects
  <2> QED BY <1>4, <2>1, RecordErrorTypes DEF ParseRejects, Process
<1>5. ASSUME NEW content \in Contents, ParseAccepts(content)
      PROVE  TypeInv'
  <2> DEFINE parsed == ParseSpec[content]
             hash   == Sha256[content]
             status == determine_status(parsed, existing, hash)
             entry  == IF existing = None
                       THEN make_new_catalog_entry(parsed, hash, clock)
                       ELSE update_catalog_entry(existing, parsed, hash, status, clock)
  <2>1. parsed \in ParsedSpec /\ hash \in Hashes /\ status \in SpecStatus
    BY <1>5, ParseSpecIsFunction, UtilsAreFunctions, StatusType DEF ParseAccepts
  <2>2. existing \in CatalogEntry \cup {None}
    BY <1>5, SpecIdType DEF ParseAccepts, existing, Store!StoreTypeOK, Store!Catalogs
  <2>3. entry \in CatalogEntry
    BY <2>1, <2>2, NewEntryType, UpdatedEntryType
  <2>4. Store!upsert(spec_id, entry)
    BY <1>5 DEF ParseAccepts
  <2>5. Store!StoreTypeOK' /\ loaded' /\ temp' = temp
    BY <1>5, <2>3, <2>4, UpsertTypes DEF ParseAccepts
  <2>6. stats' \in [CrawlStats -> Nat]
    BY <1>5, CountType DEF ParseAccepts
  <2>7. build_history_entry(parsed, hash, status, OldPaths, clock) \in HistoryEntry
    BY <2>1, HistoryEntryType
  <2>8. /\ pending' \in HistoryEntry \cup {None}
        /\ pc' \in {"append", "save"}
        /\ pc' = "append" => pending' \in HistoryEntry
    BY <1>5, <2>7 DEF ParseAccepts
  <2> HIDE DEF parsed, hash, status, entry
  <2> QED BY <1>5, <2>5, <2>6, <2>8 DEF ParseAccepts, Process
<1>6. CASE AppendHistory
  <2>1. PICK old \in Store!HistoryReads(spec_id) :
          temp' = [path |-> spec_id, catalog |-> Store!EmptyCatalog,
                   history |-> Append(old, pending)]
    BY <1>6 DEF AppendHistory, Store!BeginAppend
  <2>2. spec_id \in SpecIds /\ pending \in HistoryEntry
    BY <1>6, SpecIdType DEF AppendHistory
  <2>3. old \in Seq(HistoryEntry)
    <3>1. historyFiles[spec_id] \in Seq(HistoryEntry)
      BY <2>2 DEF Store!StoreTypeOK
    <3>2. <<>> \in Seq(HistoryEntry)
      OBVIOUS
    <3> QED BY <2>1, <3>1, <3>2 DEF Store!HistoryReads
  <2>4. Append(old, pending) \in Seq(HistoryEntry)
    BY <2>2, <2>3
  <2>5. Store!StoreTypeOK'
    BY <1>6, <2>1, <2>2, <2>4, EmptyTypes DEF AppendHistory, Store!BeginAppend,
       Store!diskVars, Store!StoreTypeOK, Store!Catalogs
  <2>6. temp'.path = spec_id /\ spec_id' = spec_id /\ loaded' = loaded
    BY <1>6, <2>1 DEF AppendHistory, Store!BeginAppend, spec_id
  <2> QED BY <1>6, <2>5, <2>6 DEF AppendHistory, Process
<1>7. CASE HistoryAppended
  <2>1. Store!StoreTypeOK' /\ temp'.path = None /\ loaded' = loaded
    BY <1>7, EmptyTypes DEF HistoryAppended, Store!ReplaceHistory,
       Store!StoreTypeOK, Store!Catalogs
  <2>2. stats' \in [CrawlStats -> Nat]
    BY <1>7, CountType DEF HistoryAppended
  <2> QED BY <1>7, <2>1, <2>2 DEF HistoryAppended, Process
<1> QED BY <1>1, <1>2, <1>3, <1>4, <1>5, <1>6, <1>7 DEF Process, process

LEMMA FaultsKeepTypes ==
  ASSUME TypeInv, DiskError \/ Kill \/ Damage
  PROVE  TypeInv'
<1> USE DEF TypeInv, TypeOK, ControlOK, Running, InProcess, Labels, Goto
<1>1. CASE DiskError
  BY <1>1, ProcessEndsTypes DEF DiskError
<1>2. CASE Kill
  BY <1>2, ProcessEndsTypes DEF Kill, Store!Kill
<1>3. CASE Damage
  <2>1. Store!StoreTypeOK' /\ temp' = temp
    <3>1. <<>> \in Seq(HistoryEntry)
      OBVIOUS
    <3> QED BY <1>3, <3>1, EmptyTypes DEF Damage, Store!DamageCatalog,
            Store!DamageHistory, Store!StoreTypeOK, Store!Catalogs
  <2> QED BY <1>3, <2>1 DEF Damage
<1> QED BY <1>1, <1>2, <1>3

LEMMA TypeInvStep ==
  ASSUME TypeInv, [Next]_vars
  PROVE  TypeInv'
<1>1. CASE UNCHANGED vars
  BY <1>1 DEF vars, TypeInv, TypeOK, ControlOK, Running, InProcess,
     spec_id, Store!StoreTypeOK, Store!Catalogs
<1> QED BY <1>1, MainKeepsTypes, ProcessKeepsTypes, FaultsKeepTypes DEF Next, Step

LEMMA TypeInvariant == Spec => []TypeInv
<1>1. TypeInv /\ [Next]_vars => TypeInv'
  BY TypeInvStep
<1> QED BY <1>1, TypeInvInit, PTL DEF Spec

(* Every variable keeps its type, whatever the faults.                     *)
THEOREM TypeCorrect == Spec => []TypeOK
<1>1. TypeInv => TypeOK
  BY DEF TypeInv
<1> QED BY <1>1, TypeInvariant, PTL
-----------------------------------------------------------------------------
(*               What catalog.json publishes is on record                  *)

(* Histories are neither hidden from a read nor damaged between runs.      *)
HistoriesAreReadable == Faults \cap {"read_history", "damage_history"} = {}

OnRecord(id, entry) ==
  entry # None /\ entry.latest_hash \in Hashes => Recorded(id, entry.latest_hash)

(* In memory an entry may be ahead of its history by the record that       *)
(* process is about to append, and by no other.                            *)
AboutToRecord(id, entry) ==
  /\ pc \in {"append", "appending"}
  /\ id = spec_id
  /\ pending.content_hash = entry.latest_hash

RecordInv ==
  /\ \A id \in SpecIds : OnRecord(id, catalogFile[id])
  /\ pc = "saving" => \A id \in SpecIds : OnRecord(id, temp.catalog[id])
  /\ Running => \A id \in SpecIds :
       OnRecord(id, entries[id]) \/ AboutToRecord(id, entries[id])
  /\ pc = "appending" => temp.history = Append(historyFiles[spec_id], pending)

LEMMA RecordInvInit == Init => RecordInv
  BY DEF Init, Store!StoreInit, RecordInv, OnRecord, Running, Store!EmptyCatalog

LEMMA UnchangedHistories ==
  ASSUME UNCHANGED historyFiles, NEW id \in SpecIds, NEW entry, OnRecord(id, entry)
  PROVE  OnRecord(id, entry)'
  BY DEF OnRecord, Recorded

(* What process writes to an entry is on record, or about to be.           *)
LEMMA AcceptedIsRecorded ==
  ASSUME TypeInv, RecordInv, NEW content \in Contents, ParseAccepts(content)
  PROVE  \A id \in SpecIds :
           OnRecord(id, entries[id])' \/ AboutToRecord(id, entries[id])'
<1> DEFINE parsed == ParseSpec[content]
           hash   == Sha256[content]
           status == determine_status(parsed, existing, hash)
           entry  == IF existing = None
                     THEN make_new_catalog_entry(parsed, hash, clock)
                     ELSE update_catalog_entry(existing, parsed, hash, status, clock)
<1> USE DEF TypeInv
<1>1. spec_id \in SpecIds /\ spec_id' = spec_id
  BY SpecIdType DEF ParseAccepts, ControlOK, InProcess, spec_id
<1>2. parsed \in ParsedSpec /\ hash \in Hashes /\ status \in SpecStatus
  BY ParseSpecIsFunction, UtilsAreFunctions, StatusType DEF ParseAccepts
<1>3. existing \in CatalogEntry \cup {None}
  BY <1>1 DEF TypeOK, existing, Store!StoreTypeOK, Store!Catalogs
<1>4. entry \in CatalogEntry /\ entry.latest_hash = hash
  <2>1. CASE existing = None
    BY <1>2, <2>1, NewEntryType DEF make_new_catalog_entry, TypeOK
  <2>2. CASE existing # None
    <3>1. existing \in CatalogEntry
      BY <1>3, <2>2
    <3>2. entry = update_catalog_entry(existing, parsed, hash, status, clock)
      BY <2>2
    <3>3. entry \in CatalogEntry
      BY <1>2, <3>1, <3>2, UpdatedEntryType DEF TypeOK
    <3>4. entry.latest_hash = hash
      BY <3>1, <3>2 DEF update_catalog_entry, CatalogEntry
    <3> QED BY <3>3, <3>4
  <2> QED BY <2>1, <2>2
<1>5. /\ entries' = [entries EXCEPT ![spec_id] = entry]
      /\ UNCHANGED historyFiles
  BY <1>4, UpsertTypes DEF ParseAccepts
<1>6. ASSUME NEW id \in SpecIds, id # spec_id
      PROVE  OnRecord(id, entries[id])'
  <2>1. entries'[id] = entries[id]
    BY <1>5, <1>6 DEF TypeOK, Store!StoreTypeOK, Store!Catalogs
  <2>2. OnRecord(id, entries[id])
    BY DEF RecordInv, ParseAccepts, Running, AboutToRecord
  <2> QED BY <1>5, <2>1, <2>2 DEF OnRecord, Recorded
<1>7. entries'[spec_id] = entry
  BY <1>1, <1>5 DEF TypeOK, Store!StoreTypeOK, Store!Catalogs
<1>8. CASE status \in {"new", "updated"}
  <2>1. /\ pending' = build_history_entry(parsed, hash, status, OldPaths, clock)
        /\ pc' = "append"
    BY <1>8 DEF ParseAccepts, Goto
  <2>2. pending'.content_hash = hash
    BY <2>1 DEF build_history_entry
  <2>3. AboutToRecord(spec_id, entries[spec_id])'
    BY <1>1, <1>4, <1>7, <2>1, <2>2 DEF AboutToRecord
  <2> QED BY <1>1, <1>6, <2>3
<1>9. CASE status \notin {"new", "updated"}
  <2>1. existing # None /\ existing.latest_hash = hash
    BY <1>9 DEF determine_status, HashChanged, ParseAccepts
  <2>2. OnRecord(spec_id, existing)
    BY <1>1 DEF RecordInv, ParseAccepts, Running, AboutToRecord, existing
  <2>3. OnRecord(spec_id, entries[spec_id])'
    BY <1>1, <1>4, <1>5, <1>7, <2>1, <2>2 DEF OnRecord, Recorded
  <2> QED BY <1>1, <1>6, <2>3
<1> QED BY <1>8, <1>9

(* A failure, and an answer that nothing has changed, leave the content of *)
(* the entry alone.                                                        *)
LEMMA SameContentStaysRecorded ==
  ASSUME TypeInv, RecordInv, pc = "fetch", UNCHANGED <<historyFiles, current>>,
         NEW entry \in CatalogEntry,
         entries' = [entries EXCEPT ![spec_id] = entry],
         entry.latest_hash \in Hashes =>
           existing # None /\ entry.latest_hash = existing.latest_hash
  PROVE  \A id \in SpecIds : OnRecord(id, entries[id])'
<1> SUFFICES ASSUME NEW id \in SpecIds
             PROVE  OnRecord(id, entries[id])'
  OBVIOUS
<1>1. spec_id \in SpecIds
  BY SpecIdType DEF TypeInv, ControlOK, InProcess
<1>2. OnRecord(id, entries[id]) /\ OnRecord(spec_id, existing)
  BY <1>1 DEF RecordInv, Running, AboutToRecord, existing
<1>3. entries'[id] = IF id = spec_id THEN entry ELSE entries[id]
  BY <1>1 DEF TypeInv, TypeOK, Store!StoreTypeOK, Store!Catalogs
<1> QED BY <1>2, <1>3 DEF OnRecord, Recorded

LEMMA ProcessKeepsRecords ==
  ASSUME HistoriesAreReadable, TypeInv, RecordInv, Process
  PROVE  RecordInv'
<1> USE DEF Goto
<1>1. ASSUME record_error, pc = "fetch", pc' = "save", UNCHANGED current
      PROVE  RecordInv'
  <2>1. PICK entry \in CatalogEntry :
          /\ entries' = [entries EXCEPT ![spec_id] = entry]
          /\ entry.latest_hash = HashOf(existing)
    BY <1>1, RecordErrorTypes
  <2>2. entry.latest_hash \in Hashes =>
          existing # None /\ entry.latest_hash = existing.latest_hash
    BY <2>1, NoneIsNoValue DEF HashOf
  <2>3. UNCHANGED <<catalogFile, historyFiles>>
    BY <1>1, RecordErrorTypes
  <2>4. \A id \in SpecIds : OnRecord(id, entries[id])'
    BY <1>1, <2>1, <2>2, <2>3, SameContentStaysRecorded
  <2>5. \A id \in SpecIds : OnRecord(id, catalogFile[id])'
    BY <2>3 DEF RecordInv, OnRecord, Recorded
  <2> QED BY <1>1, <2>4, <2>5 DEF RecordInv
<1>2. CASE FetchFails
  BY <1>1, <1>2 DEF FetchFails
<1>3. CASE FetchNotModified
  <2>1. UNCHANGED <<catalogFile, historyFiles>> /\ pc' = "save" /\ pc = "fetch"
        /\ UNCHANGED current
    BY <1>3 DEF FetchNotModified, Store!upsert, Store!diskVars, storeVars
  <2>2. \A id \in SpecIds : OnRecord(id, entries[id])'
    <3>1. CASE existing = None
      BY <1>3, <2>1, <3>1 DEF FetchNotModified, storeVars, RecordInv, Running,
         AboutToRecord, OnRecord, Recorded
    <3>2. CASE existing # None
      <4> DEFINE entry == update_catalog_entry(existing, empty_parsed_stub(existing),
                            HashOrEmpty(existing), "unchanged", clock)
      <4>1. existing \in CatalogEntry
        BY <2>1, <3>2, SpecIdType DEF TypeInv, TypeOK, ControlOK, InProcess, existing,
           Store!StoreTypeOK, Store!Catalogs
      <4>2. empty_parsed_stub(existing) \in ParsedSpec
        BY <4>1 DEF empty_parsed_stub, CatalogEntry, ParsedSpec
      <4>3. HashOrEmpty(existing) \in Hashes \cup {None, ""}
        BY <4>1 DEF HashOrEmpty, CatalogEntry
      <4>4. entry \in CatalogEntry
        BY <4>1, <4>2, <4>3, UpdatedEntryType DEF SpecStatus, TypeInv, TypeOK
      <4>5. entry.latest_hash = HashOrEmpty(existing)
        BY <4>1 DEF update_catalog_entry, CatalogEntry
      <4>6. entry.latest_hash \in Hashes => entry.latest_hash = existing.latest_hash
        BY <4>5, DigestsAreNotEmpty DEF HashOrEmpty
      <4>7. entries' = [entries EXCEPT ![spec_id] = entry]
        BY <1>3, <2>1, <3>2, <4>4, UpsertTypes DEF FetchNotModified
      <4> HIDE DEF entry
      <4> QED BY <2>1, <3>2, <4>4, <4>6, <4>7, SameContentStaysRecorded
    <3> QED BY <3>1, <3>2
  <2>3. \A id \in SpecIds : OnRecord(id, catalogFile[id])'
    BY <2>1 DEF RecordInv, OnRecord, Recorded
  <2> QED BY <2>1, <2>2, <2>3 DEF RecordInv
<1>4. ASSUME NEW content \in Contents, ParseRaises(content)
      PROVE  RecordInv'
  BY <1>4 DEF ParseRaises, Store!ProcessEnds, Store!diskVars, RecordInv, Running,
     OnRecord, Recorded
<1>5. ASSUME NEW content \in Contents, ParseRejects(content)
      PROVE  RecordInv'
  BY <1>1, <1>5 DEF ParseRejects
<1>6. ASSUME NEW content \in Contents, ParseAccepts(content)
      PROVE  RecordInv'
  <2>1. \A id \in SpecIds :
          OnRecord(id, entries[id])' \/ AboutToRecord(id, entries[id])'
    BY <1>6, AcceptedIsRecorded
  <2>2. UNCHANGED <<catalogFile, historyFiles>> /\ pc' \in {"append", "save"}
    BY <1>6 DEF ParseAccepts, Store!upsert, Store!diskVars
  <2>3. \A id \in SpecIds : OnRecord(id, catalogFile[id])'
    BY <2>2 DEF RecordInv, OnRecord, Recorded
  <2> QED BY <2>1, <2>2, <2>3 DEF RecordInv
<1>7. CASE AppendHistory
  <2>1. temp'.history = Append(historyFiles[spec_id], pending)
    BY <1>7 DEF AppendHistory, Store!BeginAppend, Store!HistoryReads,
       HistoriesAreReadable
  <2>2. /\ UNCHANGED <<entries, catalogFile, historyFiles, current, pending>>
        /\ pc = "append" /\ pc' = "appending" /\ spec_id' = spec_id
    BY <1>7 DEF AppendHistory, Store!BeginAppend, Store!diskVars, spec_id
  <2> QED BY <2>1, <2>2 DEF RecordInv, Running, AboutToRecord, OnRecord, Recorded
<1>8. CASE HistoryAppended
  <2>1. /\ pc = "appending" /\ pc' = "save"
        /\ UNCHANGED <<entries, catalogFile>>
        /\ historyFiles' = [historyFiles EXCEPT ![spec_id] =
                              Append(historyFiles[spec_id], pending)]
    BY <1>8 DEF HistoryAppended, Store!ReplaceHistory, TypeInv, ControlOK, RecordInv
  <2>2. historyFiles \in [SpecIds -> Seq(HistoryEntry)] /\ pending \in HistoryEntry
    BY <2>1 DEF TypeInv, TypeOK, ControlOK, Store!StoreTypeOK
  <2>3. ASSUME NEW id \in SpecIds, NEW hash, Recorded(id, hash)
        PROVE  Recorded(id, hash)'
    <3>1. PICK i \in DOMAIN historyFiles[id] : historyFiles[id][i].content_hash = hash
      BY <2>3 DEF Recorded
    <3>2. historyFiles[id] \in Seq(HistoryEntry)
      BY <2>2
    <3>3. \/ historyFiles'[id] = historyFiles[id]
          \/ historyFiles'[id] = Append(historyFiles[id], pending)
      BY <2>1, <2>2
    <3>4. i \in DOMAIN historyFiles'[id] /\ historyFiles'[id][i] = historyFiles[id][i]
      BY <2>2, <3>1, <3>2, <3>3
    <3> QED BY <3>1, <3>4 DEF Recorded
  <2>4. \E i \in DOMAIN historyFiles'[spec_id] :
          historyFiles'[spec_id][i].content_hash = pending.content_hash
    <3>1. spec_id \in SpecIds
      BY <1>8, SpecIdType DEF HistoryAppended, TypeInv, ControlOK, InProcess
    <3> DEFINE old == historyFiles[spec_id]
               new == Append(old, pending)
    <3>2. old \in Seq(HistoryEntry)
      BY <2>2, <3>1
    <3>3. new[Len(old) + 1] = pending /\ Len(old) + 1 \in DOMAIN new
      BY <2>2, <3>2
    <3>4. historyFiles'[spec_id] = new
      BY <2>1, <2>2, <3>1
    <3> QED BY <3>3, <3>4
  <2>5. ASSUME NEW id \in SpecIds
        PROVE  OnRecord(id, entries[id])' /\ OnRecord(id, catalogFile[id])'
    <3>1. OnRecord(id, catalogFile[id])
      BY DEF RecordInv
    <3>2. OnRecord(id, catalogFile[id])'
      <4>1. CASE catalogFile[id] # None /\ catalogFile[id].latest_hash \in Hashes
        <5>1. Recorded(id, catalogFile[id].latest_hash)'
          BY <2>1, <2>3, <3>1, <4>1 DEF OnRecord, Recorded
        <5> QED BY <5>1 DEF OnRecord, Recorded
      <4>2. CASE ~(catalogFile[id] # None /\ catalogFile[id].latest_hash \in Hashes)
        BY <2>1, <4>2 DEF OnRecord
      <4> QED BY <4>1, <4>2
    <3>3. OnRecord(id, entries[id]) \/ AboutToRecord(id, entries[id])
      BY <2>1 DEF RecordInv, Running
    <3>4. CASE OnRecord(id, entries[id])
      <4>1. CASE entries[id] # None /\ entries[id].latest_hash \in Hashes
        <5>1. Recorded(id, entries[id].latest_hash)'
          BY <2>1, <2>3, <3>4, <4>1 DEF OnRecord, Recorded
        <5> QED BY <3>2, <5>1 DEF OnRecord, Recorded
      <4>2. CASE ~(entries[id] # None /\ entries[id].latest_hash \in Hashes)
        BY <2>1, <3>2, <4>2 DEF OnRecord
      <4> QED BY <4>1, <4>2
    <3>5. CASE AboutToRecord(id, entries[id])
      BY <2>1, <2>4, <3>2, <3>5 DEF AboutToRecord, OnRecord, Recorded
    <3> QED BY <3>3, <3>4, <3>5
  <2> QED BY <2>1, <2>5 DEF RecordInv
<1> QED BY <1>2, <1>3, <1>4, <1>5, <1>6, <1>7, <1>8 DEF Process, process

LEMMA MainKeepsRecords ==
  ASSUME HistoriesAreReadable, TypeInv, RecordInv,
         \/ Start \/ (\E url \in Urls : Discover(url)) \/ Save \/ Saved \/ Finish
         \/ DiskError \/ Kill \/ Damage
  PROVE  RecordInv'
<1> USE DEF RecordInv, OnRecord, Recorded, Running, AboutToRecord, Goto, Store!diskVars
<1>1. CASE Start
  <2>1. entries' \in {catalogFile, Store!EmptyCatalog}
        /\ UNCHANGED <<catalogFile, historyFiles>> /\ pc' = "discover"
    BY <1>1 DEF Start, Store!load, Store!CatalogReads
  <2> QED BY <2>1 DEF Store!EmptyCatalog
<1>2. CASE \E url \in Urls : Discover(url)
  BY <1>2 DEF Discover, storeVars
<1>3. CASE Save
  <2>1. /\ entries' = entries /\ temp'.catalog = entries
        /\ UNCHANGED <<catalogFile, historyFiles>>
        /\ pc = "save" /\ pc' = "saving"
    BY <1>3 DEF Save, Store!BeginSave, Store!EnsureLoaded, TypeInv, ControlOK
  <2> QED BY <2>1
<1>4. CASE Saved
  BY <1>4 DEF Saved, Store!ReplaceCatalog
<1>5. CASE Finish \/ DiskError \/ Kill
  BY <1>5 DEF Finish, DiskError, Kill, Store!Kill, Store!ProcessEnds
<1>6. CASE Damage
  <2>1. /\ catalogFile' \in {catalogFile, Store!EmptyCatalog}
        /\ UNCHANGED <<historyFiles, pc>>
    BY <1>6 DEF Damage, Store!DamageCatalog, Store!DamageHistory, HistoriesAreReadable
  <2> QED BY <1>6, <2>1 DEF Damage, Store!EmptyCatalog
<1> QED BY <1>1, <1>2, <1>3, <1>4, <1>5, <1>6

LEMMA RecordInvariant ==
  ASSUME HistoriesAreReadable
  PROVE  Spec => []RecordInv
<1>1. ASSUME TypeInv, RecordInv, [Next]_vars
      PROVE  RecordInv'
  <2>1. CASE UNCHANGED vars
    BY <1>1, <2>1 DEF vars, RecordInv, OnRecord, Recorded, AboutToRecord, Running, spec_id
  <2> QED BY <1>1, <2>1, MainKeepsRecords, ProcessKeepsRecords DEF Next, Step
<1> QED BY <1>1, RecordInvInit, TypeInvariant, PTL DEF Spec

(* The catalog is never ahead of the audit trail: through kills, failed    *)
(* writes, a lost or unreadable catalog.json, ids that collide and answers *)
(* of 304 that nobody asked for, the content that a saved entry calls its  *)
(* latest is in the spec's history file.                                   *)
THEOREM CatalogIsRecorded ==
  ASSUME HistoriesAreReadable
  PROVE  Spec => []PublishedIsRecorded
<1>1. RecordInv => PublishedIsRecorded
  BY DEF RecordInv, OnRecord, PublishedIsRecorded
<1> QED BY <1>1, RecordInvariant, PTL

-----------------------------------------------------------------------------
(*                  A crash loses at most one spec's work                  *)

(* Memory and file differ in the spec that is being processed only, and a  *)
(* catalog on its way to the disk is the one in memory.                    *)
SavedInv ==
  /\ Running => \A id \in SpecIds :
       entries[id] # catalogFile[id] => pc \in InProcess /\ id = spec_id
  /\ pc = "saving" => temp.catalog = entries

LEMMA SavedInvStep ==
  ASSUME "read_catalog" \notin Faults, TypeInv, SavedInv, [Next]_vars
  PROVE  SavedInv'
<1> USE DEF SavedInv, Running, InProcess, Goto, Store!diskVars
<1>1. ASSUME pc = "fetch", pc' \in {"append", "save"}, UNCHANGED <<catalogFile, current>>,
             \/ UNCHANGED entries
             \/ \E e \in CatalogEntry : entries' = [entries EXCEPT ![spec_id] = e]
      PROVE  SavedInv'
  <2>1. \A id \in SpecIds : id # spec_id => entries'[id] = entries[id]
    BY <1>1 DEF TypeInv, TypeOK, Store!StoreTypeOK, Store!Catalogs
  <2> QED BY <1>1, <2>1 DEF spec_id
<1>2. CASE Start
  BY <1>2 DEF Start, Store!load, Store!CatalogReads
<1>3. CASE \E url \in Urls : Discover(url)
  BY <1>3 DEF Discover, storeVars
<1>4. CASE Save
  BY <1>4 DEF Save, Store!BeginSave, Store!EnsureLoaded, TypeInv, ControlOK, spec_id
<1>5. CASE Saved
  BY <1>5 DEF Saved, Store!ReplaceCatalog
<1>6. CASE Finish \/ DiskError \/ Kill
  BY <1>6 DEF Finish, DiskError, Kill
<1>7. CASE Damage
  BY <1>7 DEF Damage
<1>8. CASE FetchFails \/ \E content \in Contents : ParseRejects(content)
  <2>1. /\ record_error /\ pc = "fetch" /\ pc' = "save" /\ UNCHANGED current
    BY <1>8 DEF FetchFails, ParseRejects
  <2> QED BY <1>1, <2>1, RecordErrorTypes
<1>9. CASE FetchNotModified
  <2>1. \/ UNCHANGED entries
        \/ entries' = [entries EXCEPT ![spec_id] =
              update_catalog_entry(existing, empty_parsed_stub(existing),
                                   HashOrEmpty(existing), "unchanged", clock)]
    BY <1>9 DEF FetchNotModified, storeVars, Store!upsert, Store!EnsureLoaded,
       TypeInv, ControlOK
  <2>2. \A id \in SpecIds : id # spec_id => entries'[id] = entries[id]
    BY <2>1 DEF TypeInv, TypeOK, Store!StoreTypeOK, Store!Catalogs
  <2>3. pc = "fetch" /\ pc' = "save" /\ UNCHANGED <<catalogFile, current>>
    BY <1>9 DEF FetchNotModified, storeVars, Store!upsert
  <2> QED BY <2>2, <2>3 DEF spec_id
<1>10. CASE \E content \in Contents : ParseRaises(content)
  BY <1>10 DEF ParseRaises
<1>11. ASSUME NEW content \in Contents, ParseAccepts(content)
       PROVE  SavedInv'
  <2>1. PICK entry : entries' = [entries EXCEPT ![spec_id] = entry]
    BY <1>11 DEF ParseAccepts, Store!upsert, Store!EnsureLoaded, TypeInv, ControlOK
  <2>2. \A id \in SpecIds : id # spec_id => entries'[id] = entries[id]
    BY <2>1 DEF TypeInv, TypeOK, Store!StoreTypeOK, Store!Catalogs
  <2>3. pc = "fetch" /\ pc' \in {"append", "save"} /\ UNCHANGED <<catalogFile, current>>
    BY <1>11 DEF ParseAccepts, Store!upsert
  <2> QED BY <2>2, <2>3 DEF spec_id
<1>12. CASE AppendHistory
  BY <1>12 DEF AppendHistory, Store!BeginAppend, spec_id
<1>13. CASE HistoryAppended
  BY <1>13 DEF HistoryAppended, Store!ReplaceHistory, spec_id
<1>14. CASE UNCHANGED vars
  BY <1>14 DEF vars, spec_id
<1> QED BY <1>2, <1>3, <1>4, <1>5, <1>6, <1>7, <1>8, <1>9, <1>10, <1>11, <1>12,
           <1>13, <1>14
        DEF Next, Step, Process, process

(* Saving after every spec bounds what a crash can lose: as long as        *)
(* catalog.json is read as it was written, memory and file never differ in *)
(* more than the spec being processed.                                     *)
THEOREM CrashLosesOneSpec ==
  ASSUME "read_catalog" \notin Faults
  PROVE  Spec => []LosesAtMostOneSpec
<1>1. Init => SavedInv
  BY DEF Init, SavedInv, Running
<1>2. TypeInv /\ SavedInv /\ [Next]_vars => SavedInv'
  BY SavedInvStep
<1>3. TypeInv /\ SavedInv => LosesAtMostOneSpec
  BY NoneIsNoUrl DEF TypeInv, ControlOK, SavedInv, LosesAtMostOneSpec
<1> QED BY <1>1, <1>2, <1>3, TypeInvariant, PTL DEF Spec

-----------------------------------------------------------------------------
(*               The version signal follows from the hash                  *)

DigestsAreDistinct ==
  \A c, d \in Contents : Sha256[c] = Sha256[d] => c = d

(* An entry whose hash is that of a content has the version that the       *)
(* content names, if it names one.                                         *)
Consistent(entry) ==
  entry # None =>
    \A content \in Contents :
      /\ ParseSpec[content] # Raised
      /\ ParseSpec[content].is_valid
      /\ ParseSpec[content].version # None
      /\ entry.latest_hash = Sha256[content]
      => entry.latest_info_version = ParseSpec[content].version

VersionInv ==
  \A id \in SpecIds : /\ Consistent(entries[id])
                      /\ Consistent(catalogFile[id])
                      /\ Consistent(temp.catalog[id])

LEMMA EmptyIsConsistent ==
  /\ \A id \in SpecIds : Consistent(Store!EmptyCatalog[id])
  /\ \A id \in SpecIds : Consistent(Store!NoTemp.catalog[id])
  BY DEF Consistent, Store!EmptyCatalog, Store!NoTemp

(* An entry replaced by a consistent one leaves the invariant intact.      *)
LEMMA ConsistentUpsert ==
  ASSUME TypeInv, VersionInv, pc = "fetch", NEW entry \in CatalogEntry,
         Consistent(entry), Store!upsert(spec_id, entry)
  PROVE  VersionInv'
<1>1. /\ entries' = [entries EXCEPT ![spec_id] = entry]
      /\ UNCHANGED <<catalogFile, temp>>
  BY UpsertTypes
<1>2. \A id \in SpecIds : entries'[id] \in {entry, entries[id]}
  BY <1>1 DEF TypeInv, TypeOK, Store!StoreTypeOK, Store!Catalogs
<1> QED BY <1>1, <1>2 DEF VersionInv, Consistent

LEMMA ErrorKeepsVersions ==
  ASSUME TypeInv, VersionInv, pc = "fetch", record_error
  PROVE  VersionInv'
<1> DEFINE entry ==
      IF existing # None
      THEN [existing EXCEPT !.status = "error", !.fetched_at = clock]
      ELSE [id                  |-> BlankId,
            latest_info_version |-> None,
            latest_hash         |-> None,
            status              |-> "error",
            first_seen_at       |-> clock,
            last_updated_at     |-> 0,
            fetched_at          |-> clock]
<1>1. spec_id \in SpecIds /\ existing \in CatalogEntry \cup {None} /\ clock \in Nat
  BY SpecIdType DEF TypeInv, TypeOK, ControlOK, InProcess, existing,
     Store!StoreTypeOK, Store!Catalogs
<1>2. entry \in CatalogEntry /\ Consistent(entry)
  <2>1. CASE existing # None
    <3>1. existing \in CatalogEntry /\ Consistent(existing)
      BY <1>1, <2>1 DEF VersionInv, existing
    <3>2. entry \in CatalogEntry
      BY <1>1, <2>1, <3>1 DEF CatalogEntry, SpecStatus
    <3>3. /\ entry.latest_hash = existing.latest_hash
          /\ entry.latest_info_version = existing.latest_info_version
      BY <2>1, <3>1 DEF CatalogEntry
    <3> HIDE DEF entry
    <3> QED BY <2>1, <3>1, <3>2, <3>3 DEF Consistent
  <2>2. CASE existing = None
    <3>1. entry \in CatalogEntry
      BY <1>1, <2>2 DEF CatalogEntry, SpecStatus, BlankId
    <3>2. entry.latest_hash = None
      BY <2>2
    <3>3. \A content \in Contents : Sha256[content] # None
      BY UtilsAreFunctions, NoneIsNoValue
    <3> HIDE DEF entry
    <3> QED BY <3>1, <3>2, <3>3 DEF Consistent
  <2> QED BY <2>1, <2>2
<1>3. Store!upsert(spec_id, entry)
  BY DEF record_error
<1> HIDE DEF entry
<1> QED BY <1>2, <1>3, ConsistentUpsert

LEMMA AcceptedIsConsistent ==
  ASSUME DigestsAreDistinct, TypeInv, VersionInv,
         NEW content \in Contents, ParseAccepts(content)
  PROVE  VersionInv'
<1> DEFINE parsed == ParseSpec[content]
           hash   == Sha256[content]
           status == determine_status(parsed, existing, hash)
           entry  == IF existing = None
                     THEN make_new_catalog_entry(parsed, hash, clock)
                     ELSE update_catalog_entry(existing, parsed, hash, status, clock)
<1>1. parsed \in ParsedSpec /\ hash \in Hashes /\ status \in SpecStatus /\ clock \in Nat
  BY ParseSpecIsFunction, UtilsAreFunctions, StatusType DEF ParseAccepts, TypeInv, TypeOK
<1>2. existing \in CatalogEntry \cup {None}
  BY SpecIdType DEF ParseAccepts, TypeInv, TypeOK, ControlOK, InProcess, existing,
     Store!StoreTypeOK, Store!Catalogs
<1>3. /\ entry \in CatalogEntry
      /\ entry.latest_hash = hash
      /\ parsed.version # None => entry.latest_info_version = parsed.version
  <2>1. CASE existing = None
    BY <1>1, <2>1, NewEntryType DEF make_new_catalog_entry
  <2>2. CASE existing # None
    <3>1. existing \in CatalogEntry
      BY <1>2, <2>2
    <3>2. entry = update_catalog_entry(existing, parsed, hash, status, clock)
      BY <2>2
    <3>3. entry \in CatalogEntry
      BY <1>1, <3>1, <3>2, UpdatedEntryType
    <3>4. /\ entry.latest_hash = hash
          /\ entry.latest_info_version = OrElse(parsed.version, existing.latest_info_version)
      BY <3>1, <3>2 DEF update_catalog_entry, CatalogEntry
    <3> QED BY <3>3, <3>4 DEF OrElse
  <2> QED BY <2>1, <2>2
<1>4. Store!upsert(spec_id, entry) /\ pc = "fetch"
  BY DEF ParseAccepts
<1>5. Consistent(entry)
  <2> HIDE DEF entry
  <2> SUFFICES ASSUME NEW other \in Contents, ParseSpec[other].version # None,
                      entry.latest_hash = Sha256[other]
               PROVE  entry.latest_info_version = ParseSpec[other].version
    BY DEF Consistent
  <2>1. other = content
    BY <1>3 DEF DigestsAreDistinct
  <2> QED BY <1>3, <2>1
<1> HIDE DEF entry
<1> QED BY <1>3, <1>4, <1>5, ConsistentUpsert

LEMMA VersionInvStep ==
  ASSUME DigestsAreDistinct, TypeInv, VersionInv, [Next]_vars
  PROVE  VersionInv'
<1> USE DEF Store!diskVars
<1>1. CASE FetchFails \/ \E content \in Contents : ParseRejects(content)
  BY <1>1, ErrorKeepsVersions DEF FetchFails, ParseRejects
<1>2. CASE FetchNotModified
  <2>1. CASE existing = None
    BY <1>2, <2>1 DEF FetchNotModified, storeVars, VersionInv, Consistent
  <2>2. CASE existing # None
    <3> DEFINE entry == update_catalog_entry(existing, empty_parsed_stub(existing),
                          HashOrEmpty(existing), "unchanged", clock)
    <3>1. existing \in CatalogEntry /\ Consistent(existing) /\ clock \in Nat
      BY <1>2, <2>2, SpecIdType DEF FetchNotModified, TypeInv, TypeOK, ControlOK,
         InProcess, existing, VersionInv, Store!StoreTypeOK, Store!Catalogs
    <3>2. empty_parsed_stub(existing) \in ParsedSpec
      BY <3>1 DEF empty_parsed_stub, CatalogEntry, ParsedSpec
    <3>3. HashOrEmpty(existing) \in Hashes \cup {None, ""}
      BY <3>1 DEF HashOrEmpty, CatalogEntry
    <3>4. entry \in CatalogEntry
      BY <3>1, <3>2, <3>3, UpdatedEntryType DEF SpecStatus
    <3>5. /\ entry.latest_hash = HashOrEmpty(existing)
          /\ entry.latest_info_version = existing.latest_info_version
      BY <3>1 DEF update_catalog_entry, empty_parsed_stub, OrElse, CatalogEntry
    <3>6. \A content \in Contents : Sha256[content] # ""
      BY UtilsAreFunctions, DigestsAreNotEmpty
    <3>7. Store!upsert(spec_id, entry) /\ pc = "fetch"
      BY <1>2, <2>2 DEF FetchNotModified
    <3> HIDE DEF entry
    <3>8. Consistent(entry)
      BY <2>2, <3>1, <3>5, <3>6 DEF Consistent, HashOrEmpty
    <3> QED BY <3>4, <3>7, <3>8, ConsistentUpsert
  <2> QED BY <2>1, <2>2
<1>3. CASE \E content \in Contents : ParseAccepts(content)
  BY <1>3, AcceptedIsConsistent
<1>4. CASE \/ \E content \in Contents : ParseRaises(content)
           \/ Finish \/ DiskError \/ Kill
  BY <1>4, EmptyIsConsistent DEF ParseRaises, Finish, DiskError, Kill, Store!Kill,
     Store!ProcessEnds, VersionInv, Consistent
<1>5. CASE AppendHistory
  <2>1. temp'.catalog = Store!EmptyCatalog /\ UNCHANGED <<entries, catalogFile>>
    BY <1>5 DEF AppendHistory, Store!BeginAppend
  <2> QED BY <2>1, EmptyIsConsistent DEF VersionInv, Consistent
<1>6. CASE HistoryAppended
  BY <1>6, EmptyIsConsistent DEF HistoryAppended, Store!ReplaceHistory, VersionInv,
     Consistent
<1>7. CASE Start
  BY <1>7, EmptyIsConsistent DEF Start, Store!load, Store!CatalogReads, VersionInv,
     Consistent
<1>8. CASE Save
  <2>1. /\ entries' = entries /\ temp'.catalog = entries
        /\ UNCHANGED catalogFile
    BY <1>8 DEF Save, Store!BeginSave, Store!EnsureLoaded, TypeInv, ControlOK, Running
  <2> QED BY <2>1 DEF VersionInv, Consistent
<1>9. CASE Saved
  BY <1>9, EmptyIsConsistent DEF Saved, Store!ReplaceCatalog, VersionInv, Consistent
<1>10. CASE Damage
  BY <1>10, EmptyIsConsistent DEF Damage, Store!DamageCatalog, Store!DamageHistory,
     VersionInv, Consistent
<1>11. CASE \E url \in Urls : Discover(url)
  BY <1>11 DEF Discover, storeVars, VersionInv, Consistent
<1>12. CASE UNCHANGED vars
  BY <1>12 DEF vars, VersionInv, Consistent
<1> QED BY <1>1, <1>2, <1>3, <1>4, <1>5, <1>6, <1>7, <1>8, <1>9, <1>10, <1>11, <1>12
        DEF Next, Step, Process, process

(* The signals of determine_status are one as long as SHA-256 tells        *)
(* contents apart: whenever the version has changed, so has the hash, under*)
(* every fault of the model.                                               *)
THEOREM VersionSignalIsRedundant ==
  ASSUME DigestsAreDistinct
  PROVE  Spec => []VersionSignalIsImplied
<1>1. Init => VersionInv
  BY EmptyIsConsistent DEF Init, Store!StoreInit, VersionInv, Consistent
<1>2. TypeInv /\ VersionInv /\ [Next]_vars => VersionInv'
  BY VersionInvStep
<1>3. VersionInv => VersionSignalIsImplied
  BY DEF VersionInv, Consistent, VersionSignalIsImplied, VersionChanged, HashChanged
<1> QED BY <1>1, <1>2, <1>3, TypeInvariant, PTL DEF Spec
====
