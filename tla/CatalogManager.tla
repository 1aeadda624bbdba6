---- MODULE CatalogManager ----
(***************************************************************************)
(* JSON persistence (crawler/catalog.py): the in-memory catalog, the file  *)
(* catalog.json and one history sidecar per spec.                          *)
(*                                                                         *)
(* Every write is the same protocol: a temporary file in the target's      *)
(* directory receives the whole new content, then os.replace() puts it in  *)
(* the target's place.  The two halves are separate actions, because the   *)
(* process can be killed between them.  An abandoned temporary file has a  *)
(* name that no code reads, so it is not part of the state.                *)
(*                                                                         *)
(* A file that does not parse is answered like a missing one (the except   *)
(* clauses of load and append_history), so both have the empty content     *)
(* here, and damage to a file is the loss of its content.                  *)
(***************************************************************************)
EXTENDS Naturals, Sequences

CONSTANTS
  SpecIds,      \* keys of the catalog, names of the sidecars
  Entry,        \* what the catalog maps a spec id to
  Record,       \* what a history file lists
  CatalogPath,  \* the file catalog.json
  None,
  Faults,       \* what the environment may do, a subset of StoreFaults or more
  MaxRecords    \* bound on the length of a history file in StoreNext

(* kill: the process dies.  write: an OSError while writing.  read_...: an *)
(* OSError while reading a file that exists.  damage_...: somebody leaves  *)
(* a file that does not parse (a merge conflict, an edit) between runs.    *)
StoreFaults == {"kill", "write", "read_catalog", "read_history",
                "damage_catalog", "damage_history"}

ASSUME PathsAreDistinct == CatalogPath \notin SpecIds /\ None \notin SpecIds
                                                    /\ None # CatalogPath
ASSUME NoneIsNoEntry == None \notin Entry
(* A file that is there can be read.                                       *)
FilesAreReadable == Faults \cap {"read_catalog", "read_history"} = {}

ASSUME MaxRecordsIsNat == MaxRecords \in Nat

VARIABLES
  entries,       \* _entries, the in-memory catalog
  loaded,        \* _loaded
  catalogFile,   \* the content of catalog.json
  historyFiles,  \* the content of history/{spec_id}.json
  temp           \* the temporary file being written and its target

diskVars  == <<catalogFile, historyFiles>>
storeVars == <<entries, loaded, catalogFile, historyFiles, temp>>

Catalogs     == [SpecIds -> Entry \cup {None}]
EmptyCatalog == [id \in SpecIds |-> None]
NoTemp       == [path |-> None, catalog |-> EmptyCatalog, history |-> <<>>]

StoreInit ==
  /\ entries = EmptyCatalog
  /\ loaded = FALSE
  /\ catalogFile = EmptyCatalog
  /\ historyFiles = [id \in SpecIds |-> <<>>]
  /\ temp = NoTemp

StoreTypeOK ==
  /\ entries \in Catalogs
  /\ loaded \in BOOLEAN
  /\ catalogFile \in Catalogs
  /\ historyFiles \in [SpecIds -> Seq(Record)]
  /\ temp \in [path    : SpecIds \cup {CatalogPath, None},
               catalog : Catalogs,
               history : Seq(Record)]

-----------------------------------------------------------------------------
(* Reading.  Both readers answer a failed read with an empty result.       *)

CatalogReads ==
  {catalogFile} \cup (IF "read_catalog" \in Faults THEN {EmptyCatalog} ELSE {})

HistoryReads(id) ==
  {historyFiles[id]} \cup (IF "read_history" \in Faults THEN {<<>>} ELSE {})

load ==
  /\ entries' \in CatalogReads
  /\ loaded' = TRUE
  /\ UNCHANGED <<diskVars, temp>>

(* Suffixed with a double underscore: mutants, see Versioning.             *)
EnsureLoaded__Never == {entries}

(* The catalog that an operation works on: _ensure_loaded() comes first.   *)
EnsureLoaded == IF loaded THEN {entries} ELSE CatalogReads

upsert(id, entry) ==
  /\ \E opened \in EnsureLoaded : entries' = [opened EXCEPT ![id] = entry]
  /\ loaded' = TRUE
  /\ UNCHANGED <<diskVars, temp>>

-----------------------------------------------------------------------------
(* Writing: append_history and save, each up to the os.replace().          *)

BeginAppend__Overwrites(id, record) ==
  /\ temp.path = None
  /\ temp' = [path |-> id, catalog |-> EmptyCatalog, history |-> <<record>>]
  /\ UNCHANGED <<diskVars, entries, loaded>>

BeginAppend__NewestFirst(id, record) ==
  /\ temp.path = None
  /\ \E old \in HistoryReads(id) :
       temp' = [path |-> id, catalog |-> EmptyCatalog,
                history |-> <<record>> \o old]
  /\ UNCHANGED <<diskVars, entries, loaded>>

BeginAppend(id, record) ==
  /\ temp.path = None
  /\ \E old \in HistoryReads(id) :
       temp' = [path |-> id, catalog |-> EmptyCatalog,
                history |-> Append(old, record)]
  /\ UNCHANGED <<diskVars, entries, loaded>>

BeginSave__InPlace ==
  /\ temp.path = None
  /\ entries' \in EnsureLoaded
  /\ loaded' = TRUE
  /\ temp' = [path |-> CatalogPath, catalog |-> entries', history |-> <<>>]
  /\ catalogFile' = EmptyCatalog
  /\ UNCHANGED historyFiles

BeginSave ==
  /\ temp.path = None
  /\ entries' \in EnsureLoaded
  /\ loaded' = TRUE
  /\ temp' = [path |-> CatalogPath, catalog |-> entries', history |-> <<>>]
  /\ UNCHANGED diskVars

ReplaceHistory ==
  /\ temp.path \in SpecIds
  /\ historyFiles' = [historyFiles EXCEPT ![temp.path] = temp.history]
  /\ temp' = NoTemp
  /\ UNCHANGED <<catalogFile, entries, loaded>>

ReplaceCatalog ==
  /\ temp.path = CatalogPath
  /\ catalogFile' = temp.catalog
  /\ temp' = NoTemp
  /\ UNCHANGED <<historyFiles, entries, loaded>>

(* An OSError while writing: the temporary file is unlinked and the        *)
(* exception re-raised; the manager itself stays usable.                   *)
WriteError ==
  /\ "write" \in Faults
  /\ temp.path # None
  /\ temp' = NoTemp
  /\ UNCHANGED <<diskVars, entries, loaded>>

(* The process is gone and its memory with it.                             *)
ProcessEnds ==
  /\ entries' = EmptyCatalog
  /\ loaded' = FALSE
  /\ temp' = NoTemp
  /\ UNCHANGED diskVars

Kill == "kill" \in Faults /\ ProcessEnds

Idle == temp.path = None

(* While no process runs, a file is left in a state that does not parse.   *)
DamageCatalog ==
  /\ "damage_catalog" \in Faults
  /\ Idle /\ ~loaded
  /\ catalogFile' = EmptyCatalog
  /\ UNCHANGED <<entries, loaded, historyFiles, temp>>

DamageHistory(id) ==
  /\ "damage_history" \in Faults
  /\ Idle /\ ~loaded
  /\ historyFiles' = [historyFiles EXCEPT ![id] = <<>>]
  /\ UNCHANGED <<entries, loaded, catalogFile, temp>>

-----------------------------------------------------------------------------
(* The manager in the hands of an arbitrary single-threaded caller; nobody *)
(* else touches its files.                                                 *)
StoreNext ==
  \/ Idle /\ load
  \/ \E id \in SpecIds, e \in Entry : Idle /\ upsert(id, e)
  \/ \E id \in SpecIds, r \in Record :
       Len(historyFiles[id]) < MaxRecords /\ BeginAppend(id, r)
  \/ BeginSave
  \/ ReplaceHistory
  \/ ReplaceCatalog
  \/ WriteError
  \/ Kill

StoreSpec == StoreInit /\ [][StoreNext]_storeVars

-----------------------------------------------------------------------------
(* The audit trail of a spec is append-only: whatever happens to the       *)
(* process, a record that has reached a history file stays there, at its   *)
(* place (catalog.py:12-13).                                               *)
IsPrefixOf(s, t) == Len(s) <= Len(t) /\ \A i \in DOMAIN s : s[i] = t[i]

HistoryIsAppendOnly ==
  [][\A id \in SpecIds : IsPrefixOf(historyFiles[id], historyFiles'[id])]_storeVars

(* The protocol of temporary files and os.replace() makes the two kinds of *)
(* write atomic: to its caller the manager is the durable store, as long   *)
(* as files are there to be read (catalog.py:5-7 "atomic writes").         *)
Durable == INSTANCE DurableStore WITH
             view    <- IF loaded THEN entries ELSE catalogFile,
             catalog <- catalogFile,
             trail   <- historyFiles

ImplementsDurableStore == Durable!AbsSpec

(* Saving never drops a spec: a key that catalog.json holds is there after *)
(* every later save, unless the file stopped being readable                *)
(* (catalog.py:59-122).                                                    *)
NoEntryIsDropped ==
  [][\A id \in SpecIds : catalogFile[id] # None => catalogFile'[id] # None]_storeVars
====
