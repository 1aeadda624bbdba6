---- MODULE Versioning ----
(***************************************************************************)
(* Change detection and the construction of records                        *)
(* (crawler/versioning.py).  The module is stateless in the code and is a  *)
(* module of operators here; Stamp arguments are utc_now_iso() values.     *)
(***************************************************************************)
EXTENDS Models

(* Operators with a suffix after a double underscore are mutants: how the  *)
(* definition that follows could plausibly be wrong.  No specification uses*)
(* them; README.md says which property notices each.                       *)
OrElse__KeepsOld(a, b) == IF b = None THEN a ELSE b

(* Python's  a or b  for a value that is a non-empty string or None.       *)
OrElse(a, b) == IF a = None THEN b ELSE a

(* The two signals of determine_status.                                    *)
HashChanged(existing, new_hash) == existing.latest_hash # new_hash

VersionChanged(existing, parsed) ==
  /\ existing.latest_info_version # parsed.version
  /\ parsed.version # None

determine_status__VersionOnly(parsed, existing, new_hash) ==
  IF ~parsed.is_valid THEN "error"
  ELSE IF existing = None THEN "new"
  ELSE IF VersionChanged(existing, parsed) THEN "updated" ELSE "unchanged"

determine_status(parsed, existing, new_hash) ==
  IF ~parsed.is_valid THEN "error"
  ELSE IF existing = None THEN "new"
  ELSE IF HashChanged(existing, new_hash) \/ VersionChanged(existing, parsed)
       THEN "updated"
       ELSE "unchanged"

compute_path_diff(old_paths, new_paths) ==
  [added |-> new_paths \ old_paths, removed |-> old_paths \ new_paths]

build_history_entry(parsed, content_hash, status, old_paths, stamp) ==
  [fetched_at   |-> stamp,
   content_hash |-> content_hash,
   info_version |-> parsed.version,
   status       |-> status,
   path_diff    |-> IF status = "updated" /\ old_paths # None
                    THEN compute_path_diff(old_paths, parsed.raw_paths)
                    ELSE None]

update_catalog_entry__NoUpdateTime(entry, parsed, content_hash, status, stamp) ==
  [entry EXCEPT
     !.latest_info_version = OrElse(parsed.version, @),
     !.latest_hash         = content_hash,
     !.status              = status,
     !.fetched_at          = stamp]

update_catalog_entry__KeepsHash(entry, parsed, content_hash, status, stamp) ==
  [entry EXCEPT
     !.latest_info_version = OrElse(parsed.version, @),
     !.status              = status,
     !.fetched_at          = stamp,
     !.last_updated_at     = IF status \in {"new", "updated"} THEN stamp ELSE @]

update_catalog_entry__Swapped(entry, parsed, content_hash, status, stamp) ==
  [entry EXCEPT
     !.latest_info_version = OrElse(parsed.version, @),
     !.latest_hash         = status,
     !.status              = content_hash,
     !.fetched_at          = stamp]

update_catalog_entry(entry, parsed, content_hash, status, stamp) ==
  [entry EXCEPT
     !.latest_info_version = OrElse(parsed.version, @),
     !.latest_hash         = content_hash,
     !.status              = status,
     !.fetched_at          = stamp,
     !.last_updated_at     = IF status \in {"new", "updated"} THEN stamp ELSE @]

make_new_catalog_entry(parsed, content_hash, stamp) ==
  [id                  |-> HumanId,
   latest_info_version |-> parsed.version,
   latest_hash         |-> content_hash,
   status              |-> "new",
   first_seen_at       |-> stamp,
   last_updated_at     |-> stamp,
   fetched_at          |-> stamp]
====
