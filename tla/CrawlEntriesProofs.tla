---- MODULE CrawlEntriesProofs ----
(***************************************************************************)
(* Proofs about the entries of the catalog: what one run of the pipeline   *)
(* may write to an entry, and what therefore holds of every entry and of   *)
(* every replacement of catalog.json.                                      *)
(***************************************************************************)
EXTENDS RunCrawlerProofs

(* Nobody answers 304 to a request that carries no validator, which is the *)
(* only kind of request that the fetcher sends.                            *)
NoUnsolicited304 == "unsolicited_304" \notin Faults

-----------------------------------------------------------------------------
(*                      What process writes to an entry                    *)

(* The new entry e that process derives from the old one, or from None.    *)
Failed(old, e) ==
  /\ e.status = "error"
  /\ IF old = None
     THEN /\ e.latest_hash = None /\ e.last_updated_at = 0
          /\ e.first_seen_at = clock /\ e.fetched_at = clock
     ELSE e = [old EXCEPT !.status = "error", !.fetched_at = clock]

IsNew(old, e) ==
  /\ e.status = "new"
  /\ old = None
  /\ e.latest_hash \in Hashes
  /\ e.first_seen_at = clock /\ e.last_updated_at = clock /\ e.fetched_at = clock

IsUpdated(old, e) ==
  /\ e.status = "updated"
  /\ old # None
  /\ e.latest_hash \in Hashes
  /\ VersionSignalIsImplied => e.latest_hash # old.latest_hash
  /\ e.first_seen_at = old.first_seen_at
  /\ e.last_updated_at = clock /\ e.fetched_at = clock

IsUnchanged(old, e) ==
  /\ e.status = "unchanged"
  /\ old # None
  /\ e.latest_hash \in Hashes
  /\ e.latest_hash = old.latest_hash
  /\ e.first_seen_at = old.first_seen_at
  /\ e.last_updated_at = old.last_updated_at
  /\ e.fetched_at = clock

Accepted(old, e) == IsNew(old, e) \/ IsUpdated(old, e) \/ IsUnchanged(old, e)

(* The record that goes with a new content, and none without it.           *)
PendingFor(e) ==
  IF e.status \in {"new", "updated"}
  THEN /\ pc' = "append"
       /\ pending' \in HistoryEntry
       /\ pending'.content_hash = e.latest_hash
       /\ pending'.fetched_at = clock
       /\ pending'.status = e.status
  ELSE pc' = "save" /\ UNCHANGED pending

(* A fetch replaces the entry of the spec and touches nothing else.        *)
Replaces(e) ==
  /\ entries' = [entries EXCEPT ![spec_id] = e]
  /\ entries'[spec_id] = e
  /\ \A id \in SpecIds : id # spec_id => entries'[id] = entries[id]
  /\ UNCHANGED <<catalogFile, historyFiles, temp, loaded, current, clock, seen>>

LEMMA ExistingType ==
  ASSUME TypeInv, pc = "fetch"
  PROVE  /\ spec_id \in SpecIds
         /\ existing \in CatalogEntry \cup {None}
         /\ clock \in Nat
         /\ spec_id \in DOMAIN entries
  BY SpecIdType DEF TypeInv, TypeOK, ControlOK, InProcess, existing,
     Store!StoreTypeOK, Store!Catalogs

LEMMA UpsertReplaces ==
  ASSUME TypeInv, pc = "fetch", NEW e \in CatalogEntry, Store!upsert(spec_id, e),
         UNCHANGED <<current, clock, seen>>
  PROVE  Replaces(e)
<1>1. /\ entries' = [entries EXCEPT ![spec_id] = e]
      /\ UNCHANGED <<catalogFile, historyFiles, temp>> /\ loaded'
  BY UpsertTypes
<1>2. loaded
  BY DEF TypeInv, ControlOK, Running
<1>3. entries \in [SpecIds -> CatalogEntry \cup {None}] /\ loaded \in BOOLEAN
      /\ loaded' \in BOOLEAN
  BY <1>1, UpsertTypes DEF TypeInv, TypeOK, Store!StoreTypeOK, Store!Catalogs
<1> QED BY <1>1, <1>2, <1>3, ExistingType DEF Replaces

(* A failed fetch, and a document that is rejected.                        *)
LEMMA FailureStep ==
  ASSUME TypeInv, pc = "fetch", record_error, UNCHANGED <<current, clock, seen>>
  PROVE  \E e \in CatalogEntry : Replaces(e) /\ Failed(existing, e)
<1> DEFINE e == IF existing # None
                THEN [existing EXCEPT !.status = "error", !.fetched_at = clock]
                ELSE [id                  |-> BlankId,
                      latest_info_version |-> None,
                      latest_hash         |-> None,
                      status              |-> "error",
                      first_seen_at       |-> clock,
                      last_updated_at     |-> 0,
                      fetched_at          |-> clock]
<1>1. existing \in CatalogEntry \cup {None} /\ clock \in Nat
  BY ExistingType
<1>2. e \in CatalogEntry /\ Failed(existing, e)
  <2>1. CASE existing # None
    <3>1. existing \in CatalogEntry
      BY <1>1, <2>1
    <3> QED BY <1>1, <2>1, <3>1 DEF CatalogEntry, SpecStatus, Failed
  <2>2. CASE existing = None
    BY <1>1, <2>2 DEF CatalogEntry, SpecStatus, BlankId, Failed
  <2> QED BY <2>1, <2>2
<1>3. Store!upsert(spec_id, e)
  BY DEF record_error
<1> HIDE DEF e
<1> QED BY <1>2, <1>3, UpsertReplaces

(* A document that is accepted.                                            *)
LEMMA AcceptStep ==
  ASSUME TypeInv, NEW content \in Contents, ParseAccepts(content), UNCHANGED seen
  PROVE  \E e \in CatalogEntry : /\ Replaces(e)
                                 /\ Accepted(existing, e)
                                 /\ PendingFor(e)
<1> DEFINE parsed == ParseSpec[content]
           hash   == Sha256[content]
           status == determine_status(parsed, existing, hash)
           e      == IF existing = None
                     THEN make_new_catalog_entry(parsed, hash, clock)
                     ELSE update_catalog_entry(existing, parsed, hash, status, clock)
           record == build_history_entry(parsed, hash, status, OldPaths, clock)
<1>1. /\ pc = "fetch" /\ parsed # Raised /\ parsed.is_valid
      /\ Store!upsert(spec_id, e)
      /\ UNCHANGED <<current, clock>>
  BY DEF ParseAccepts
<1>2. IF status \in {"new", "updated"}
      THEN pc' = "append" /\ pending' = record
      ELSE pc' = "save" /\ UNCHANGED pending
  BY DEF ParseAccepts, Goto
<1>3. parsed \in ParsedSpec /\ hash \in Hashes /\ status \in SpecStatus
  BY <1>1, ParseSpecIsFunction, UtilsAreFunctions, StatusType
<1>4. existing \in CatalogEntry \cup {None} /\ clock \in Nat /\ spec_id \in SpecIds
  BY <1>1, ExistingType
<1>5. /\ record \in HistoryEntry
      /\ record.content_hash = hash /\ record.fetched_at = clock /\ record.status = status
  BY <1>3, <1>4, HistoryEntryType DEF build_history_entry
<1>6. e \in CatalogEntry /\ Accepted(existing, e)
      /\ e.latest_hash = hash /\ e.status = status
  <2>1. CASE existing = None
    <3>1. status = "new"
      BY <1>1, <2>1 DEF determine_status
    <3>2. e = make_new_catalog_entry(parsed, hash, clock)
      BY <2>1
    <3> HIDE DEF e, parsed, hash, status
    <3> QED BY <1>3, <1>4, <2>1, <3>1, <3>2, NewEntryType
            DEF make_new_catalog_entry, Accepted, IsNew
  <2>2. CASE existing # None
    <3>1. existing \in CatalogEntry
      BY <1>4, <2>2
    <3>2. e = update_catalog_entry(existing, parsed, hash, status, clock)
      BY <2>2
    <3>3. e \in CatalogEntry
      BY <1>3, <1>4, <3>1, <3>2, UpdatedEntryType
    <3>4. /\ e.latest_hash = hash /\ e.status = status /\ e.fetched_at = clock
          /\ e.first_seen_at = existing.first_seen_at
          /\ e.last_updated_at = IF status \in {"new", "updated"} THEN clock
                                 ELSE existing.last_updated_at
      <4> HIDE DEF e, parsed, hash, status
      <4> QED BY <3>1, <3>2 DEF update_catalog_entry, CatalogEntry
    <3>5. status = IF \/ existing.latest_hash # hash
                      \/ VersionChanged(existing, parsed)
                   THEN "updated" ELSE "unchanged"
      BY <1>1, <2>2 DEF determine_status, HashChanged
    <3>6. VersionSignalIsImplied /\ VersionChanged(existing, parsed)
            => existing.latest_hash # hash
      BY <1>1, <1>4, <2>2 DEF VersionSignalIsImplied, HashChanged, existing
    <3> HIDE DEF e, parsed, hash, status
    <3>7. CASE status = "updated"
      BY <1>3, <2>2, <3>3, <3>4, <3>5, <3>6, <3>7 DEF Accepted, IsUpdated
    <3>8. CASE status = "unchanged"
      BY <1>3, <2>2, <3>3, <3>4, <3>5, <3>8 DEF Accepted, IsUnchanged
    <3> QED BY <3>5, <3>7, <3>8
  <2> QED BY <2>1, <2>2
<1>7. Replaces(e)
  <2> HIDE DEF e
  <2> QED BY <1>1, <1>6, UpsertReplaces
<1>8. PendingFor(e)
  <2> HIDE DEF e, hash, status, record
  <2> QED BY <1>2, <1>5, <1>6 DEF PendingFor
<1> HIDE DEF e
<1> QED BY <1>6, <1>7, <1>8

(* What the pipeline does with the answer to a fetch: it dies in the       *)
(* parser, or one entry is rewritten and, with a new content, a record is  *)
(* ready to be appended.                                                   *)
Died == /\ pc' = "dead"
        /\ Store!ProcessEnds
        /\ current' = None
        /\ UNCHANGED <<pending, clock, seen>>

Rewritten == \E e \in CatalogEntry :
  /\ Replaces(e)
  /\ Failed(existing, e) \/ Accepted(existing, e)
  /\ PendingFor(e)

LEMMA FetchStep ==
  ASSUME NoUnsolicited304, TypeInv, Process, pc = "fetch"
  PROVE  Died \/ Rewritten
<1> USE DEF Goto
<1>1. CASE FetchFails
  <2>1. PICK e \in CatalogEntry : Replaces(e) /\ Failed(existing, e)
    BY <1>1, FailureStep DEF FetchFails, Process
  <2>2. PendingFor(e)
    BY <1>1, <2>1 DEF FetchFails, Failed, PendingFor
  <2> QED BY <2>1, <2>2 DEF Rewritten
<1>2. ASSUME NEW content \in Contents, ParseRaises(content)
      PROVE  Died
  BY <1>2 DEF ParseRaises, Died, Process
<1>3. ASSUME NEW content \in Contents, ParseRejects(content)
      PROVE  Rewritten
  <2>1. PICK e \in CatalogEntry : Replaces(e) /\ Failed(existing, e)
    BY <1>3, FailureStep DEF ParseRejects, Process
  <2>2. PendingFor(e)
    BY <1>3, <2>1 DEF ParseRejects, Failed, PendingFor
  <2> QED BY <2>1, <2>2 DEF Rewritten
<1>4. ASSUME NEW content \in Contents, ParseAccepts(content)
      PROVE  Rewritten
  BY <1>4, AcceptStep DEF Rewritten, Process
<1>5. ~FetchNotModified /\ ~AppendHistory /\ ~HistoryAppended
  BY DEF FetchNotModified, AppendHistory, HistoryAppended, NoUnsolicited304
<1> QED BY <1>1, <1>2, <1>3, <1>4, <1>5 DEF Process, process

(* Every other step moves whole catalogs about, or loses them.             *)
LEMMA OtherSteps ==
  ASSUME TypeInv, [Next]_vars, ~(pc = "fetch" /\ Process)
  PROVE  /\ entries' \in {entries, catalogFile, Store!EmptyCatalog}
         /\ catalogFile' \in {catalogFile, temp.catalog, Store!EmptyCatalog}
         /\ temp'.catalog \in {temp.catalog, entries, Store!EmptyCatalog}
         /\ clock' \in {clock, clock + 1}
<1> USE DEF Goto, Store!diskVars, Store!NoTemp
<1>1. CASE Start
  BY <1>1 DEF Start, Store!load, Store!CatalogReads
<1>2. CASE \E url \in Urls : Discover(url)
  BY <1>2 DEF Discover, storeVars
<1>3. CASE AppendHistory \/ HistoryAppended
  BY <1>3 DEF AppendHistory, HistoryAppended, Store!BeginAppend, Store!ReplaceHistory
<1>4. CASE Save
  BY <1>4 DEF Save, Store!BeginSave, Store!EnsureLoaded, TypeInv, ControlOK, Running
<1>5. CASE Saved
  BY <1>5 DEF Saved, Store!ReplaceCatalog
<1>6. CASE Finish \/ DiskError \/ Kill
  BY <1>6 DEF Finish, DiskError, Kill, Store!Kill, Store!ProcessEnds
<1>7. CASE Damage
  BY <1>7 DEF Damage, Store!DamageCatalog, Store!DamageHistory
<1>8. CASE UNCHANGED vars
  BY <1>8 DEF vars
<1>9. Process => AppendHistory \/ HistoryAppended
  BY DEF Process, process, FetchFails, FetchNotModified, ParseRaises, ParseRejects,
     ParseAccepts
<1> QED BY <1>1, <1>2, <1>3, <1>4, <1>5, <1>6, <1>7, <1>8, <1>9 DEF Next, Step

-----------------------------------------------------------------------------
(*                     The entries tell one story                          *)

NotBlank(e) == e.latest_hash # ""

WellFormed(e) == e # None => Coherent(e) /\ NotBlank(e)

EntryInv ==
  /\ \A id \in SpecIds : /\ WellFormed(entries[id])
                         /\ WellFormed(catalogFile[id])
                         /\ WellFormed(temp.catalog[id])
  /\ Running => clock # 0

LEMMA EmptyIsWellFormed ==
  \A id \in SpecIds : /\ WellFormed(Store!EmptyCatalog[id])
                      /\ WellFormed(Store!NoTemp.catalog[id])
  BY DEF WellFormed, Store!EmptyCatalog, Store!NoTemp

LEMMA TimesAreNumbers ==
  ASSUME NEW e \in CatalogEntry
  PROVE  e.first_seen_at \in Nat /\ e.last_updated_at \in Nat /\ e.fetched_at \in Nat
  BY DEF CatalogEntry

(* An entry of a spec that has none yet.                                   *)
LEMMA FirstEntryIsCoherent ==
  ASSUME NEW e \in CatalogEntry, clock \in Nat, clock # 0,
         Failed(None, e) \/ IsNew(None, e)
  PROVE  Coherent(e) /\ NotBlank(e)
<1>1. CASE IsNew(None, e)
  <2>1. e.latest_hash # None /\ NotBlank(e)
    BY <1>1, NoneIsNoValue, DigestsAreNotEmpty DEF IsNew, NotBlank
  <2>2. /\ e.first_seen_at = clock /\ e.last_updated_at = clock
        /\ e.fetched_at = clock
    BY <1>1 DEF IsNew
  <2> QED BY <2>1, <2>2 DEF Coherent
<1>2. CASE Failed(None, e)
  <2>1. /\ e.latest_hash = None /\ e.status = "error" /\ e.last_updated_at = 0
        /\ e.first_seen_at = clock /\ e.fetched_at = clock
    BY <1>2 DEF Failed
  <2>2. NotBlank(e)
    BY <2>1, NoneIsNoValue DEF NotBlank
  <2> QED BY <2>1, <2>2 DEF Coherent
<1> QED BY <1>1, <1>2

(* An entry that takes the place of a coherent one.                        *)
LEMMA NextEntryIsCoherent ==
  ASSUME NEW old \in CatalogEntry, NEW e \in CatalogEntry, clock \in Nat, clock # 0,
         old # None, Failed(old, e) \/ IsUpdated(old, e) \/ IsUnchanged(old, e),
         Coherent(old), NotBlank(old)
  PROVE  Coherent(e) /\ NotBlank(e)
<1>1. /\ old.first_seen_at \in Nat /\ old.last_updated_at \in Nat
      /\ old.fetched_at \in Nat
  BY TimesAreNumbers
<1>2. CASE Failed(old, e)
  <2>1. /\ e.status = "error" /\ e.fetched_at = clock
        /\ e.latest_hash = old.latest_hash
        /\ e.first_seen_at = old.first_seen_at
        /\ e.last_updated_at = old.last_updated_at
    BY <1>2 DEF Failed, CatalogEntry
  <2>2. NotBlank(e)
    BY <2>1 DEF NotBlank
  <2> QED BY <1>1, <2>1, <2>2 DEF Coherent
<1>3. CASE IsUpdated(old, e)
  <2>1. /\ e.status = "updated" /\ e.latest_hash \in Hashes
        /\ e.fetched_at = clock /\ e.last_updated_at = clock
        /\ e.first_seen_at = old.first_seen_at
    BY <1>3 DEF IsUpdated
  <2>2. e.latest_hash # None /\ NotBlank(e)
    BY <2>1, NoneIsNoValue, DigestsAreNotEmpty DEF NotBlank
  <2> QED BY <1>1, <2>1, <2>2 DEF Coherent
<1>4. CASE IsUnchanged(old, e)
  <2>1. /\ e.status = "unchanged" /\ e.latest_hash \in Hashes
        /\ e.latest_hash = old.latest_hash
        /\ e.fetched_at = clock /\ e.last_updated_at = old.last_updated_at
        /\ e.first_seen_at = old.first_seen_at
    BY <1>4 DEF IsUnchanged
  <2>2. e.latest_hash # None
    BY <2>1, NoneIsNoValue
  <2>3. NotBlank(e)
    BY <2>1 DEF NotBlank
  <2> QED BY <1>1, <2>1, <2>2, <2>3 DEF Coherent
<1> QED BY <1>2, <1>3, <1>4

(* What process writes to a well-formed entry is well formed.              *)
LEMMA WrittenIsWellFormed ==
  ASSUME NEW old \in CatalogEntry \cup {None}, NEW e \in CatalogEntry,
         clock \in Nat, clock # 0, WellFormed(old), Failed(old, e) \/ Accepted(old, e)
  PROVE  Coherent(e) /\ NotBlank(e)
<1>1. CASE old = None
  BY <1>1, FirstEntryIsCoherent DEF Accepted, IsUpdated, IsUnchanged
<1>2. CASE old # None
  BY <1>2, NextEntryIsCoherent DEF Accepted, IsNew, WellFormed
<1> QED BY <1>1, <1>2

(* The passing of time leaves an entry well formed.                        *)
LEMMA ClockKeepsWellFormed ==
  ASSUME NEW e \in CatalogEntry \cup {None}, WellFormed(e), clock \in Nat,
         clock' \in {clock, clock + 1}
  PROVE  WellFormed(e)'
<1>1. ASSUME e \in CatalogEntry, Coherent(e)
      PROVE  Coherent(e)'
  <2>1. e.fetched_at \in Nat
    BY <1>1, TimesAreNumbers
  <2> QED BY <1>1, <2>1 DEF Coherent
<1> QED BY <1>1 DEF WellFormed, NotBlank

LEMMA EntryInvStep ==
  ASSUME NoUnsolicited304, TypeInv, TypeInv', EntryInv, [Next]_vars
  PROVE  EntryInv'
<1>1. /\ entries \in [SpecIds -> CatalogEntry \cup {None}]
      /\ catalogFile \in [SpecIds -> CatalogEntry \cup {None}]
      /\ temp.catalog \in [SpecIds -> CatalogEntry \cup {None}]
      /\ clock \in Nat
  BY DEF TypeInv, TypeOK, Store!StoreTypeOK, Store!Catalogs
<1>2. CASE pc = "fetch" /\ Process
  <2>1. CASE Died
    BY <2>1, EmptyIsWellFormed
       DEF Died, Store!ProcessEnds, Store!diskVars, EntryInv, Running, WellFormed, Coherent
  <2>2. CASE Rewritten
    <3>1. PICK e \in CatalogEntry : /\ Replaces(e)
                                    /\ Failed(existing, e) \/ Accepted(existing, e)
      BY <2>2 DEF Rewritten
    <3>2. WellFormed(existing) /\ existing \in CatalogEntry \cup {None}
          /\ clock \in Nat /\ clock # 0 /\ spec_id \in SpecIds
      BY <1>2, ExistingType DEF EntryInv, Running, existing
    <3>3. WellFormed(e)
      BY <3>1, <3>2, WrittenIsWellFormed DEF WellFormed
    <3>4. clock' \in {clock, clock + 1} /\ e \in CatalogEntry \cup {None}
      BY <3>1 DEF Replaces
    <3>5. WellFormed(e)'
      BY <3>2, <3>3, <3>4, ClockKeepsWellFormed
    <3>6. \A id \in SpecIds : WellFormed(entries[id])' /\ WellFormed(catalogFile[id])'
                              /\ WellFormed(temp.catalog[id])'
      <4> SUFFICES ASSUME NEW id \in SpecIds
                   PROVE  /\ WellFormed(entries[id])'
                          /\ WellFormed(catalogFile[id])'
                          /\ WellFormed(temp.catalog[id])'
        OBVIOUS
      <4>1. entries'[id] \in {e, entries[id]} /\ UNCHANGED <<catalogFile, temp>>
        BY <3>1, <3>2 DEF Replaces
      <4>2. /\ WellFormed(entries[id]) /\ WellFormed(catalogFile[id])
            /\ WellFormed(temp.catalog[id])
        BY DEF EntryInv
      <4> QED BY <1>1, <3>2, <3>4, <3>5, <4>1, <4>2, ClockKeepsWellFormed DEF WellFormed
    <3> QED BY <3>1, <3>2, <3>6 DEF Replaces, EntryInv
  <2> QED BY <1>2, <2>1, <2>2, FetchStep
<1>3. CASE ~(pc = "fetch" /\ Process)
  <2>1. /\ entries' \in {entries, catalogFile, Store!EmptyCatalog}
        /\ catalogFile' \in {catalogFile, temp.catalog, Store!EmptyCatalog}
        /\ temp'.catalog \in {temp.catalog, entries, Store!EmptyCatalog}
        /\ clock' \in {clock, clock + 1}
    BY <1>3, OtherSteps
  <2>2. \A id \in SpecIds : /\ WellFormed(entries[id])'
                            /\ WellFormed(catalogFile[id])'
                            /\ WellFormed(temp.catalog[id])'
    <3> SUFFICES ASSUME NEW id \in SpecIds
                 PROVE  /\ WellFormed(entries[id])'
                        /\ WellFormed(catalogFile[id])'
                        /\ WellFormed(temp.catalog[id])'
      OBVIOUS
    <3> DEFINE Old == {entries[id], catalogFile[id], temp.catalog[id], None}
    <3>1. entries'[id] \in Old /\ catalogFile'[id] \in Old /\ temp'.catalog[id] \in Old
      BY <2>1 DEF Store!EmptyCatalog
    <3>2. \A e \in Old : e \in CatalogEntry \cup {None} /\ WellFormed(e)
      BY <1>1 DEF EntryInv, WellFormed
    <3>3. ASSUME NEW e \in Old
          PROVE  WellFormed(e)'
      BY <1>1, <2>1, <3>2, ClockKeepsWellFormed
    <3> QED BY <3>1, <3>3 DEF WellFormed, Coherent
  <2>3. Running' => clock' # 0
    BY <1>1, <2>1, <1>3 DEF EntryInv, Running, Next, Step, Start, Damage, Process, vars,
       Discover, Save, Saved, Finish, DiskError, Kill, process, AppendHistory,
       HistoryAppended, FetchFails, FetchNotModified, ParseRaises, ParseRejects,
       ParseAccepts, Goto
  <2> QED BY <2>2, <2>3 DEF EntryInv
<1> QED BY <1>2, <1>3

LEMMA EntryInvariant ==
  ASSUME NoUnsolicited304
  PROVE  Spec => []EntryInv
<1>1. Init => EntryInv
  BY EmptyIsWellFormed DEF Init, Store!StoreInit, EntryInv, Running, WellFormed
<1>2. TypeInv /\ TypeInv' /\ EntryInv /\ [Next]_vars => EntryInv'
  BY EntryInvStep
<1> QED BY <1>1, <1>2, TypeInvariant, PTL DEF Spec

(* Whatever sequence of successes, failures, crashes, lost files and       *)
(* colliding ids led to it, the fields of an entry tell one story.         *)
THEOREM EntriesTellOneStory ==
  ASSUME NoUnsolicited304
  PROVE  Spec => []EntriesAreCoherent
<1>1. EntryInv => EntriesAreCoherent
  BY DEF EntryInv, WellFormed, EntriesAreCoherent
<1> QED BY <1>1, EntryInvariant, PTL

-----------------------------------------------------------------------------
(*               What is on its way to the disk is in memory               *)

SavingInv == pc = "saving" => temp.catalog = entries

LEMMA SavingInvStep ==
  ASSUME TypeInv, SavingInv, [Next]_vars
  PROVE  SavingInv'
<1> USE DEF SavingInv, Goto
<1>1. CASE Save
  BY <1>1 DEF Save, Store!BeginSave
<1>2. CASE Process
  BY <1>2 DEF Process, process, FetchFails, FetchNotModified, ParseRaises,
     ParseRejects, ParseAccepts, AppendHistory, HistoryAppended
<1>3. CASE Start \/ Saved \/ Finish \/ DiskError \/ Kill \/ \E url \in Urls : Discover(url)
  BY <1>3 DEF Start, Saved, Finish, DiskError, Kill, Discover
<1>4. CASE Damage
  BY <1>4 DEF Damage, Running
<1>5. CASE UNCHANGED vars
  BY <1>5 DEF vars
<1> QED BY <1>1, <1>2, <1>3, <1>4, <1>5 DEF Next, Step

LEMMA SavingInvariant == Spec => []SavingInv
<1>1. Init => SavingInv
  BY DEF Init, SavingInv
<1>2. TypeInv /\ SavingInv /\ [Next]_vars => SavingInv'
  BY SavingInvStep
<1> QED BY <1>1, <1>2, TypeInvariant, PTL DEF Spec

(* Only the replacement at the end of a save, and damage between two runs, *)
(* change catalog.json.                                                    *)
LEMMA CatalogChanges ==
  ASSUME [Next]_vars
  PROVE  \/ UNCHANGED catalogFile
         \/ Saved
         \/ Damage /\ ~loaded /\ catalogFile' = Store!EmptyCatalog
<1> USE DEF Store!diskVars
<1>1. CASE Process
  BY <1>1 DEF Process, process, FetchFails, FetchNotModified, ParseRaises, record_error,
     ParseRejects, ParseAccepts, AppendHistory, HistoryAppended, Store!upsert, storeVars,
     Store!ProcessEnds, Store!BeginAppend, Store!ReplaceHistory
<1>2. CASE Start \/ Save \/ Finish \/ DiskError \/ Kill \/ \E url \in Urls : Discover(url)
  BY <1>2 DEF Start, Save, Finish, DiskError, Kill, Discover, Store!load, storeVars,
     Store!BeginSave, Store!Kill, Store!ProcessEnds
<1>3. CASE Damage
  BY <1>3 DEF Damage, Store!DamageCatalog, Store!DamageHistory
<1>4. CASE UNCHANGED vars
  BY <1>4 DEF vars
<1> QED BY <1>1, <1>2, <1>3, <1>4 DEF Next, Step

(* Under every fault of the model, a run replaces catalog.json by the      *)
(* catalog in its memory or leaves it alone.                               *)
THEOREM CatalogIsWhole == Spec => CatalogIsReplacedWhole
<1>1. ASSUME TypeInv, SavingInv, [Next]_vars
      PROVE  loaded => catalogFile' \in {catalogFile, entries}
  <2>1. CASE Saved
    BY <1>1, <2>1 DEF Saved, Store!ReplaceCatalog, SavingInv
  <2> QED BY <1>1, <2>1, CatalogChanges
<1>2. TypeInv /\ SavingInv /\ [Next]_vars
        => [loaded => catalogFile' \in {catalogFile, entries}]_vars
  BY <1>1
<1> QED BY <1>2, TypeInvariant, SavingInvariant, PTL DEF Spec, CatalogIsReplacedWhole

-----------------------------------------------------------------------------
(*                          Entries move forward                           *)

(* Memory is ahead of the file, never behind it.                           *)
ForwardInv ==
  /\ Running => \A id \in SpecIds :
       entries[id] # None /\ catalogFile[id] # None
         => MovesForward(catalogFile[id], entries[id])
  /\ pc \in {"discover", "fetch"} => entries = catalogFile

LEMMA StandingStillIsForward ==
  ASSUME NEW e \in CatalogEntry
  PROVE  MovesForward(e, e) /\ MovesForward(e, e)'
<1>1. e.status = "error" =>
        e = [e EXCEPT !.status = "error", !.fetched_at = e.fetched_at]
  BY DEF CatalogEntry
<1>2. e.last_updated_at >= e.last_updated_at /\ e.fetched_at >= e.fetched_at
  BY TimesAreNumbers
<1> QED BY <1>1, <1>2 DEF MovesForward

LEMMA WritingIsForward ==
  ASSUME NEW old \in CatalogEntry, NEW e \in CatalogEntry, clock \in Nat,
         old # None, Coherent(old), Failed(old, e) \/ Accepted(old, e)
  PROVE  MovesForward(old, e)
<1>1. /\ old.first_seen_at \in Nat /\ old.last_updated_at \in Nat
      /\ old.fetched_at \in Nat
  BY TimesAreNumbers
<1>2. old.fetched_at <= clock /\ old.last_updated_at <= clock
  BY <1>1 DEF Coherent
<1>3. CASE Failed(old, e)
  <2>1. e = [old EXCEPT !.status = "error", !.fetched_at = clock]
    BY <1>3 DEF Failed
  <2>2. /\ e.fetched_at = clock
        /\ e.latest_hash = old.latest_hash
        /\ e.first_seen_at = old.first_seen_at
        /\ e.last_updated_at = old.last_updated_at
    BY <2>1 DEF CatalogEntry
  <2> QED BY <1>1, <1>2, <2>1, <2>2 DEF MovesForward
<1>4. CASE IsUpdated(old, e)
  <2>1. /\ e.status # "error" /\ e.fetched_at = clock /\ e.last_updated_at = clock
        /\ e.first_seen_at = old.first_seen_at
    BY <1>4 DEF IsUpdated
  <2> QED BY <1>1, <1>2, <2>1 DEF MovesForward
<1>5. CASE IsUnchanged(old, e)
  <2>1. /\ e.status # "error" /\ e.fetched_at = clock
        /\ e.last_updated_at = old.last_updated_at
        /\ e.latest_hash = old.latest_hash
        /\ e.first_seen_at = old.first_seen_at
    BY <1>5 DEF IsUnchanged
  <2> QED BY <1>1, <1>2, <2>1 DEF MovesForward
<1> QED BY <1>3, <1>4, <1>5 DEF Accepted, IsNew

(* The steps that leave both catalogs and the time alone.                  *)
LEMMA BetweenFetchAndSave ==
  ASSUME TypeInv, AppendHistory \/ HistoryAppended \/ Save
  PROVE  /\ UNCHANGED <<entries, catalogFile, clock, current>>
         /\ pc' \in {"appending", "save", "saving"}
         /\ Running
<1>1. CASE AppendHistory \/ HistoryAppended
  BY <1>1 DEF AppendHistory, HistoryAppended, Store!BeginAppend, Store!ReplaceHistory,
     Store!diskVars, Goto, Running
<1>2. CASE Save
  BY <1>2 DEF Save, Store!BeginSave, Store!EnsureLoaded, Store!diskVars, Goto, Running,
     TypeInv, ControlOK
<1> QED BY <1>1, <1>2

LEMMA ForwardInvStep ==
  ASSUME NoUnsolicited304, "read_catalog" \notin Faults,
         TypeInv, EntryInv, SavingInv, ForwardInv, [Next]_vars
  PROVE  ForwardInv'
<1>1. /\ entries \in [SpecIds -> CatalogEntry \cup {None}]
      /\ catalogFile \in [SpecIds -> CatalogEntry \cup {None}]
  BY DEF TypeInv, TypeOK, Store!StoreTypeOK, Store!Catalogs
<1>2. ASSUME entries' = catalogFile', catalogFile' \in {catalogFile, entries}
      PROVE  ForwardInv'
  <2>1. ASSUME NEW id \in SpecIds, entries'[id] # None
        PROVE  MovesForward(catalogFile[id], entries[id])'
    <3>1. PICK e \in CatalogEntry : entries'[id] = e /\ catalogFile'[id] = e
      BY <1>1, <1>2, <2>1
    <3>2. MovesForward(e, e)'
      BY StandingStillIsForward
    <3> QED BY <3>1, <3>2 DEF MovesForward
  <2> QED BY <1>2, <2>1 DEF ForwardInv
<1>3. CASE Process /\ pc = "fetch"
  <2>1. CASE Died
    BY <2>1 DEF Died, ForwardInv, Running
  <2>2. CASE Rewritten
    <3>1. PICK e \in CatalogEntry : /\ Replaces(e)
                                    /\ Failed(existing, e) \/ Accepted(existing, e)
                                    /\ PendingFor(e)
      BY <2>2 DEF Rewritten
    <3>2. /\ spec_id \in SpecIds /\ clock \in Nat
          /\ existing \in CatalogEntry \cup {None}
          /\ existing # None => Coherent(existing)
          /\ existing = catalogFile[spec_id]
      BY <1>3, ExistingType DEF EntryInv, WellFormed, existing, ForwardInv
    <3>3. existing # None => MovesForward(existing, e)
      BY <3>1, <3>2, WritingIsForward
    <3>4. \A id \in SpecIds : entries[id] # None => MovesForward(entries[id], entries[id])
      BY <1>1, StandingStillIsForward
    <3>5. /\ UNCHANGED <<catalogFile, clock>> /\ pc' \in {"append", "save"}
          /\ \A id \in SpecIds : entries'[id] = IF id = spec_id THEN e ELSE entries[id]
      BY <3>1 DEF Replaces, PendingFor
    <3>6. entries = catalogFile
      BY <1>3 DEF ForwardInv
    <3>7. ASSUME NEW id \in SpecIds, catalogFile[id] # None, entries'[id] # None
          PROVE  MovesForward(catalogFile[id], entries'[id])
      BY <3>2, <3>3, <3>4, <3>5, <3>6, <3>7
    <3> QED BY <3>5, <3>7 DEF ForwardInv, MovesForward
  <2> QED BY <1>3, <2>1, <2>2, FetchStep
<1>4. CASE AppendHistory \/ HistoryAppended \/ Save
  BY <1>4, BetweenFetchAndSave DEF ForwardInv, MovesForward
<1>5. CASE Start
  BY <1>2, <1>5 DEF Start, Store!load, Store!CatalogReads, Store!diskVars
<1>6. CASE \E url \in Urls : Discover(url)
  BY <1>6 DEF Discover, storeVars, Goto, ForwardInv, Running, MovesForward
<1>7. CASE Saved
  BY <1>2, <1>7 DEF Saved, Store!ReplaceCatalog, SavingInv
<1>8. CASE Finish \/ DiskError \/ Kill \/ Damage
  BY <1>8 DEF Finish, DiskError, Kill, Damage, Goto, ForwardInv, Running
<1>9. CASE UNCHANGED vars
  BY <1>9 DEF vars, ForwardInv, Running, MovesForward
<1>10. Process => pc = "fetch" \/ AppendHistory \/ HistoryAppended
  BY DEF Process, process, FetchFails, FetchNotModified, ParseRaises, ParseRejects,
     ParseAccepts
<1> QED BY <1>3, <1>4, <1>5, <1>6, <1>7, <1>8, <1>9, <1>10 DEF Next, Step

LEMMA ForwardInvariant ==
  ASSUME NoUnsolicited304, "read_catalog" \notin Faults
  PROVE  Spec => []ForwardInv
<1>1. Init => ForwardInv
  BY DEF Init, ForwardInv, Running
<1>2. TypeInv /\ EntryInv /\ SavingInv /\ ForwardInv /\ [Next]_vars => ForwardInv'
  BY ForwardInvStep
<1> QED BY <1>1, <1>2, TypeInvariant, EntryInvariant, SavingInvariant, PTL DEF Spec

(* As long as catalog.json is read as it was written, no save takes an     *)
(* entry back: failures keep what is known, times do not go back, and a    *)
(* content changes in the run that says so.                                *)
THEOREM SavesMoveForward ==
  ASSUME NoUnsolicited304, "read_catalog" \notin Faults
  PROVE  Spec => EntriesMoveForward
<1> DEFINE Forward == \A id \in SpecIds :
             catalogFile[id] # None /\ catalogFile'[id] # None
               => MovesForward(catalogFile[id], catalogFile'[id])
<1>1. ASSUME TypeInv, SavingInv, ForwardInv, [Next]_vars
      PROVE  Forward
  <2>1. catalogFile \in [SpecIds -> CatalogEntry \cup {None}]
    BY <1>1 DEF TypeInv, TypeOK, Store!StoreTypeOK, Store!Catalogs
  <2>2. CASE UNCHANGED catalogFile
    BY <2>1, <2>2, StandingStillIsForward
  <2>3. CASE Saved
    BY <1>1, <2>3 DEF Saved, Store!ReplaceCatalog, SavingInv, ForwardInv, Running
  <2>4. CASE catalogFile' = Store!EmptyCatalog
    BY <2>4 DEF Store!EmptyCatalog
  <2> QED BY <1>1, <2>2, <2>3, <2>4, CatalogChanges
<1>2. TypeInv /\ SavingInv /\ ForwardInv /\ [Next]_vars => [Forward]_vars
  BY <1>1
<1> QED BY <1>2, TypeInvariant, SavingInvariant, ForwardInvariant, PTL
        DEF Spec, EntriesMoveForward
====
