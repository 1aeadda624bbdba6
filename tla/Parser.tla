---- MODULE Parser ----
(***************************************************************************)
(* The parser (crawler/parser.py): raw bytes to a ParsedSpec, as operators.*)
(*                                                                         *)
(* The bytes are what the two loaders make of them, and a document is the  *)
(* shape of the fields that parse_spec reads.  A value is known by its     *)
(* shape: null (or absent), empty (any falsy value: "", 0, [], {}), text,  *)
(* number (any other scalar), list, mapping.  A string is known by its     *)
(* identity; "" is one that is blank after strip().                        *)
(*                                                                         *)
(* An exception that the code lets through is the value Raised: the        *)
(* AttributeError of info.get, the TypeError of iterating over a number,   *)
(* the ValidationError of ParsedSpec on a path key that is no string, and  *)
(* whatever a loader raises that is not the error it is guarded against    *)
(* (the ValueError of a YAML timestamp such as 2024-13-01, or of a JSON    *)
(* integer with thousands of digits).                                      *)
(***************************************************************************)
EXTENDS Models

CONSTANT Raised

ASSUME RaisedIsNoParsedSpec == Raised \notin ParsedSpec
ASSUME VersionsAreNotBlank == "" \notin Versions

Shapes == {"null", "empty", "text", "number", "list", "mapping"}

Document == [version_key  : SUBSET {"openapi", "swagger"},
             info         : Shapes,
             info_version : Versions \cup {None, ""},
             servers      : Shapes,
             has_host     : BOOLEAN,
             schemes      : Shapes,
             tags         : Shapes,
             paths        : Shapes,
             path_keys    : SUBSET Paths,
             other_keys   : BOOLEAN]  \* paths has a key that is no string

(* A loader returns a mapping, another value, null, or fails in one of two *)
(* ways: with the exception that _load_document expects, or with another.  *)
LoaderOutcomes == {"mapping", "other", "null", "error", "unexpected_error"}

RawContent == [yaml : LoaderOutcomes, json : LoaderOutcomes, doc : Document]

-----------------------------------------------------------------------------
(* Python's  value or default, and the two uses a value may not stand.     *)
Truthy(shape)   == shape \notin {"null", "empty"}
Iterable(shape) == shape \in {"text", "list", "mapping"}

HasGet(shape) == shape = "mapping"

(* for x in (value or []): a mapping yields its keys, a text its letters.  *)
LoopRaises(shape) == Truthy(shape) /\ ~Iterable(shape)

_safe_str(value) == IF value = "" THEN None ELSE value

_detect_version(doc) ==
  IF "openapi" \in doc.version_key THEN "openapi_3"
  ELSE IF "swagger" \in doc.version_key THEN "swagger_2" ELSE "unknown"

_extract_servers_raises(doc, openapi_version) ==
  \/ openapi_version = "openapi_3" /\ LoopRaises(doc.servers)
  \/ openapi_version = "swagger_2" /\ doc.has_host /\ LoopRaises(doc.schemes)

_extract_tags_raises(doc) == LoopRaises(doc.tags)

_extract_paths(doc) == IF doc.paths = "mapping" THEN doc.path_keys ELSE {}

ParsedSpecRaises(doc) == doc.paths = "mapping" /\ doc.other_keys

(* Suffixed with a double underscore: mutants, see Versioning.             *)
InfoRaises__NoDefault(doc) == ~HasGet(doc.info)

InfoRaises(doc) == Truthy(doc.info) /\ ~HasGet(doc.info)

_extract_fields(doc) ==
  IF \/ InfoRaises(doc)
     \/ _extract_servers_raises(doc, _detect_version(doc))
     \/ _extract_tags_raises(doc)
     \/ ParsedSpecRaises(doc)
  THEN Raised
  ELSE [is_valid  |-> TRUE,
        version   |-> IF doc.info = "mapping" THEN _safe_str(doc.info_version)
                                              ELSE None,
        raw_paths |-> _extract_paths(doc)]

(* YAML first; strict JSON when YAML fails as expected.                    *)
_load_document(raw) ==
  IF raw.yaml # "error" THEN raw.yaml
  ELSE IF raw.json # "error" THEN raw.json ELSE "null"

Rejected == [is_valid |-> FALSE, version |-> None, raw_paths |-> {}]

parse_spec__NoMappingCheck(raw) ==
  LET loaded == _load_document(raw) IN
  CASE loaded = "unexpected_error"     -> Raised
    [] loaded = "null"                 -> Rejected
    [] loaded \in {"mapping", "other"} -> _extract_fields(raw.doc)

parse_spec(raw) ==
  LET loaded == _load_document(raw) IN
  CASE loaded = "unexpected_error"  -> Raised
    [] loaded \in {"null", "other"} -> Rejected
    [] loaded = "mapping"           -> _extract_fields(raw.doc)

-----------------------------------------------------------------------------
(* What the fields look like in a document that follows the OpenAPI or the *)
(* Swagger schema, every field being optional.                             *)
WellShaped(doc) ==
  /\ doc.info \in {"null", "empty", "mapping"}
  /\ {doc.servers, doc.schemes, doc.tags} \subseteq {"null", "empty", "list"}
  /\ doc.paths \in {"null", "empty", "mapping"}
  /\ ~doc.other_keys

(* The bytes hold a mapping, according to the first loader that copes.     *)
HoldsMapping(raw) ==
  "mapping" = IF raw.yaml = "error" THEN raw.json ELSE raw.yaml

(* Every document that follows a schema is accepted, with the version it   *)
(* names and all of its paths, whatever optional fields it leaves out      *)
(* (parser.py:101-129).                                                    *)
AcceptsWellShaped(raw) ==
  HoldsMapping(raw) /\ WellShaped(raw.doc) =>
    /\ parse_spec(raw) # Raised
    /\ parse_spec(raw).is_valid
    /\ raw.doc.info = "mapping" /\ raw.doc.info_version \in Versions
         => parse_spec(raw).version = raw.doc.info_version
    /\ raw.doc.paths = "mapping" => parse_spec(raw).raw_paths = raw.doc.path_keys

(* A parse that returns tells a mapping from what is none, and a version   *)
(* it returns is never blank (parser.py:53-66, 200-212).                   *)
RejectsNonMappings(raw) ==
  parse_spec(raw) # Raised =>
    /\ parse_spec(raw) \in ParsedSpec
    /\ parse_spec(raw).is_valid <=> HoldsMapping(raw)
====
