---- MODULE SpecUpdater ----
(***************************************************************************)
(* The pipeline for one URL (crawler/updater.py, SpecUpdater.process):     *)
(* fetch, parse, classify, update the catalog in memory, append to the     *)
(* history file, count.  The pipeline is one sequential function; it is    *)
(* cut at the points where it leaves something behind or may not come back:*)
(* the answer of the fetch, and the two halves of the history write.       *)
(*                                                                         *)
(* The environment decides what a fetch brings: any content, a failure     *)
(* after all retries, or - only from an intermediary that sends 304 to a   *)
(* request that carries no validator - "not modified".                     *)
(***************************************************************************)
EXTENDS Versioning

CONSTANTS
  Urls,         \* raw URLs
  SpecIds,      \* identifiers of specs
  MakeSpecId,   \* make_spec_id; not assumed to be injective
  Contents,     \* what the body of an answer may be
  Sha256,       \* sha256_of_bytes
  ParseSpec,    \* parse_spec: a parsed spec, or Raised
  Raised,       \* the outcome of a call that does not return
  CatalogPath,
  Faults,
  MaxRecords

ASSUME UtilsAreFunctions == /\ MakeSpecId \in [Urls -> SpecIds]
                            /\ Sha256 \in [Contents -> Hashes]
ASSUME ParseSpecIsFunction == ParseSpec \in [Contents -> ParsedSpec \cup {Raised}]
ASSUME RaisedIsNoValue == Raised \notin ParsedSpec
ASSUME FilesAreDistinct == CatalogPath \notin SpecIds /\ None \notin SpecIds
                                                  /\ None # CatalogPath
ASSUME NoneIsNoUrl == None \notin Urls

VARIABLES
  entries, loaded, catalogFile, historyFiles, temp,
  pc,        \* where the one thread of the crawler is
  current,   \* raw_url of the call to process, or None
  pending,   \* the history entry that process has built, or None
  stats,     \* the CrawlStats of the run
  clock      \* the current time, in runs

Store == INSTANCE CatalogManager WITH Entry <- CatalogEntry, Record <- HistoryEntry

storeVars == <<entries, loaded, catalogFile, historyFiles, temp>>

CrawlStats == {"total_discovered", "total_fetched", "total_parsed", "new_specs",
               "updated_specs", "unchanged_specs", "error_specs"}

Count(fields) ==
  stats' = [f \in CrawlStats |-> IF f \in fields THEN stats[f] + 1 ELSE stats[f]]

Goto(label) == pc' = label

spec_id  == MakeSpecId[current]
existing == entries[spec_id]

(* hasattr(existing, "raw_paths"): CatalogEntry declares no such field, so *)
(* the paths of the previous crawl are never there to compare with.        *)
OldPaths == None

-----------------------------------------------------------------------------
(* Suffixed with a double underscore: mutants, see Versioning.             *)
record_error__Overwrites ==
  Store!upsert(spec_id,
    [id                  |-> BlankId,
     latest_info_version |-> None,
     latest_hash         |-> None,
     status              |-> "error",
     first_seen_at       |-> clock,
     last_updated_at     |-> 0,
     fetched_at          |-> clock])

(* _record_error: keep what is known, note the failure.                    *)
record_error ==
  Store!upsert(spec_id,
    IF existing # None
    THEN [existing EXCEPT !.status = "error", !.fetched_at = clock]
    ELSE [id                  |-> BlankId,
          latest_info_version |-> None,
          latest_hash         |-> None,
          status              |-> "error",
          first_seen_at       |-> clock,
          last_updated_at     |-> 0,
          fetched_at          |-> clock])

(* _empty_parsed_stub: what a 304 says the document still is.              *)
empty_parsed_stub(entry) ==
  [is_valid |-> TRUE, version |-> entry.latest_info_version, raw_paths |-> {}]

(* existing.latest_hash or ""                                              *)
HashOrEmpty(entry) == IF entry.latest_hash = None THEN "" ELSE entry.latest_hash

FetchFails__Uncounted ==
  /\ pc = "fetch"
  /\ record_error
  /\ Count({"total_fetched"})
  /\ Goto("save")
  /\ UNCHANGED <<current, pending, clock>>

FetchFails__Unrecorded ==
  /\ pc = "fetch"
  /\ Count({"total_fetched", "error_specs"})
  /\ Goto("save")
  /\ UNCHANGED <<storeVars, current, pending, clock>>

FetchFails ==
  /\ pc = "fetch"
  /\ record_error
  /\ Count({"total_fetched", "error_specs"})
  /\ Goto("save")
  /\ UNCHANGED <<current, pending, clock>>

FetchNotModified ==
  /\ pc = "fetch"
  /\ "unsolicited_304" \in Faults
  /\ IF existing # None
     THEN Store!upsert(spec_id,
            update_catalog_entry(existing, empty_parsed_stub(existing),
                                 HashOrEmpty(existing), "unchanged", clock))
     ELSE UNCHANGED storeVars
  /\ Count({"total_fetched", "unchanged_specs"})
  /\ Goto("save")
  /\ UNCHANGED <<current, pending, clock>>

(* parse_spec does not return: the exception leaves process and then main. *)
ParseRaises(content) ==
  /\ pc = "fetch"
  /\ ParseSpec[content] = Raised
  /\ Store!ProcessEnds
  /\ Count({"total_fetched"})
  /\ Goto("dead")
  /\ current' = None
  /\ UNCHANGED <<pending, clock>>

ParseRejects(content) ==
  /\ pc = "fetch"
  /\ ParseSpec[content] # Raised
  /\ ~ParseSpec[content].is_valid
  /\ record_error
  /\ Count({"total_fetched", "total_parsed", "error_specs"})
  /\ Goto("save")
  /\ UNCHANGED <<current, pending, clock>>

ParseAccepts(content) ==
  LET parsed       == ParseSpec[content]
      content_hash == Sha256[content]
      status       == determine_status(parsed, existing, content_hash)
  IN
  /\ pc = "fetch"
  /\ parsed # Raised
  /\ parsed.is_valid
  /\ Store!upsert(spec_id,
       IF existing = None
       THEN make_new_catalog_entry(parsed, content_hash, clock)
       ELSE update_catalog_entry(existing, parsed, content_hash, status, clock))
  /\ IF status \in {"new", "updated"}
     THEN /\ pending' = build_history_entry(parsed, content_hash, status,
                                            OldPaths, clock)
          /\ Count({"total_fetched", "total_parsed"})
          /\ Goto("append")
     ELSE /\ Count({"total_fetched", "total_parsed", "unchanged_specs"})
          /\ Goto("save")
          /\ UNCHANGED pending
  /\ UNCHANGED <<current, clock>>

AppendHistory__NewOnly ==
  /\ pc = "append"
  /\ IF pending.status = "new"
     THEN Store!BeginAppend(spec_id, pending) /\ Goto("appending")
     ELSE UNCHANGED storeVars /\ Goto("save")
  /\ UNCHANGED <<current, pending, stats, clock>>

(* append_history(history), the bookkeeping after it, and the return.      *)
AppendHistory ==
  /\ pc = "append"
  /\ Store!BeginAppend(spec_id, pending)
  /\ Goto("appending")
  /\ UNCHANGED <<current, pending, stats, clock>>

HistoryAppended ==
  /\ pc = "appending"
  /\ Store!ReplaceHistory
  /\ Count({IF pending.status = "new" THEN "new_specs" ELSE "updated_specs"})
  /\ pending' = None
  /\ Goto("save")
  /\ UNCHANGED <<current, clock>>

process ==
  \/ FetchFails
  \/ FetchNotModified
  \/ \E content \in Contents :
       ParseRaises(content) \/ ParseRejects(content) \/ ParseAccepts(content)
  \/ AppendHistory
  \/ HistoryAppended
====
