---- MODULE Models ----
(***************************************************************************)
(* The shared vocabulary of the crawler (crawler/models.py): the records   *)
(* that the parser produces, the catalog stores and the history files      *)
(* accumulate.                                                             *)
(*                                                                         *)
(* What is kept of a record is what the crawler decides with.  Fields that *)
(* are copied over wholesale on every crawl (description, servers, tags,   *)
(* counts, the version family) are left out; info.version stands for the   *)
(* fields that are MERGED with the previous value (title, description,     *)
(* info.version).  A timestamp is the number of the run that took it, and  *)
(* 0 is the empty string the model defaults to.                            *)
(***************************************************************************)
EXTENDS Naturals, Sequences, FiniteSets

CONSTANTS
  Hashes,     \* SHA-256 digests of raw bytes
  Versions,   \* values of info.version
  Paths,      \* keys of a document's paths object
  None        \* Python's None

ASSUME NoneIsNoValue == None \notin Hashes \cup Versions \cup {""}
ASSUME DigestsAreNotEmpty == "" \notin Hashes

(* The statuses a crawl assigns; ACTIVE, STALE and INVALID are declared by *)
(* SpecStatus and never used.                                              *)
SpecStatus == {"new", "updated", "unchanged", "error"}

ParsedSpec == [is_valid  : BOOLEAN,
               version   : Versions \cup {None},
               raw_paths : SUBSET Paths]

PathDiff == [added : SUBSET Paths, removed : SUBSET Paths]

HistoryEntry == [fetched_at   : Nat,
                 content_hash : Hashes,
                 info_version : Versions \cup {None},
                 status       : SpecStatus,
                 path_diff    : PathDiff \cup {None}]

(* The human-readable id of an entry is either the model's default or the  *)
(* one that make_human_id derives from the URL.                            *)
BlankId == ""
HumanId == "github:owner/repo/filename"

CatalogEntry == [id                  : {BlankId, HumanId},
                 latest_info_version : Versions \cup {None},
                 latest_hash         : Hashes \cup {None, ""},
                 status              : SpecStatus,
                 first_seen_at       : Nat,
                 last_updated_at     : Nat,
                 fetched_at          : Nat]

ASSUME NoneIsNoRecord == None \notin CatalogEntry \cup HistoryEntry
====
