---- MODULE ParserProofs ----
(***************************************************************************)
(* Proofs about the parser, for every input: whatever the loaders make of  *)
(* the bytes, and whatever the fields of the document look like.           *)
(***************************************************************************)
EXTENDS MCParser, TLAPS

LEMMA OutcomesOfParsing ==
  ASSUME NEW input \in RawContent
  PROVE  /\ HoldsMapping(input) => parse_spec(input) = _extract_fields(input.doc)
         /\ ~HoldsMapping(input) => parse_spec(input) \in {Raised, Rejected}
<1>1. input.yaml \in LoaderOutcomes /\ input.json \in LoaderOutcomes
  BY DEF RawContent
<1>2. _load_document(input) \in LoaderOutcomes \ {"error"}
  BY <1>1 DEF _load_document, LoaderOutcomes
<1>3. HoldsMapping(input) <=> _load_document(input) = "mapping"
  BY <1>1 DEF _load_document, HoldsMapping
<1> QED BY <1>2, <1>3 DEF parse_spec, LoaderOutcomes

(* The fields that are extracted have their types.                         *)
LEMMA ExtractedFields ==
  ASSUME NEW doc \in Document, _extract_fields(doc) # Raised
  PROVE  /\ _extract_fields(doc) =
              [is_valid  |-> TRUE,
               version   |-> IF doc.info = "mapping" THEN _safe_str(doc.info_version)
                                                     ELSE None,
               raw_paths |-> _extract_paths(doc)]
         /\ _extract_fields(doc) \in ParsedSpec
         /\ _extract_fields(doc).is_valid
<1> DEFINE version   == IF doc.info = "mapping" THEN _safe_str(doc.info_version) ELSE None
           raw_paths == _extract_paths(doc)
<1>1. _extract_fields(doc) = [is_valid |-> TRUE, version |-> version, raw_paths |-> raw_paths]
  BY DEF _extract_fields
<1>2. version \in Versions \cup {None}
  BY DEF Document, _safe_str
<1>3. raw_paths \in SUBSET Paths
  BY DEF Document, _extract_paths
<1> HIDE DEF version, raw_paths
<1>4. _extract_fields(doc) \in ParsedSpec
  BY <1>1, <1>2, <1>3 DEF ParsedSpec
<1>5. _extract_fields(doc).is_valid
  BY <1>1
<1> USE DEF version, raw_paths
<1> QED BY <1>1, <1>4, <1>5

(* A document that follows a schema gets past every loop and every access. *)
LEMMA WellShapedRaisesNothing ==
  ASSUME NEW doc \in Document, WellShaped(doc)
  PROVE  /\ ~InfoRaises(doc)
         /\ ~_extract_servers_raises(doc, _detect_version(doc))
         /\ ~_extract_tags_raises(doc)
         /\ ~ParsedSpecRaises(doc)
<1>1. /\ doc.info \in {"null", "empty", "mapping"}
      /\ doc.servers \in {"null", "empty", "list"}
      /\ doc.schemes \in {"null", "empty", "list"}
      /\ doc.tags \in {"null", "empty", "list"}
      /\ ~doc.other_keys
  BY DEF WellShaped
<1>2. ~LoopRaises(doc.servers) /\ ~LoopRaises(doc.schemes) /\ ~LoopRaises(doc.tags)
  BY <1>1 DEF LoopRaises, Truthy, Iterable
<1> QED BY <1>1, <1>2 DEF InfoRaises, Truthy, HasGet, _extract_servers_raises,
        _extract_tags_raises, ParsedSpecRaises

(* Every document that follows the OpenAPI or the Swagger schema is        *)
(* accepted, with the version it names and all of its paths, whatever      *)
(* optional fields it leaves out.                                          *)
THEOREM SchemaIsEnough ==
  ASSUME raw \in RawContent
  PROVE  ParserAcceptsWellShaped
<1> SUFFICES ASSUME HoldsMapping(raw), WellShaped(raw.doc)
             PROVE  /\ parse_spec(raw) # Raised
                    /\ parse_spec(raw).is_valid
                    /\ raw.doc.info = "mapping" /\ raw.doc.info_version \in Versions
                         => parse_spec(raw).version = raw.doc.info_version
                    /\ raw.doc.paths = "mapping"
                         => parse_spec(raw).raw_paths = raw.doc.path_keys
  BY DEF ParserAcceptsWellShaped, AcceptsWellShaped
<1> DEFINE doc == raw.doc
<1>1. doc \in Document
  BY DEF RawContent
<1>2. parse_spec(raw) = _extract_fields(doc)
  BY OutcomesOfParsing
<1> HIDE DEF doc
<1>3. _extract_fields(doc) # Raised
  <2> DEFINE version   == IF doc.info = "mapping" THEN _safe_str(doc.info_version) ELSE None
             raw_paths == _extract_paths(doc)
             spec      == [is_valid |-> TRUE, version |-> version, raw_paths |-> raw_paths]
  <2>1. WellShaped(doc)
    BY DEF doc
  <2>2. _extract_fields(doc) = spec
    BY <1>1, <2>1, WellShapedRaisesNothing DEF _extract_fields
  <2>3. version \in Versions \cup {None} /\ raw_paths \in SUBSET Paths
    BY <1>1 DEF Document, _safe_str, _extract_paths
  <2>4. spec \in ParsedSpec
    <3> HIDE DEF version, raw_paths
    <3> QED BY <2>3 DEF ParsedSpec
  <2> QED BY <2>2, <2>4, RaisedIsNoParsedSpec
<1>4. _extract_fields(doc).is_valid
  BY <1>1, <1>3, ExtractedFields
<1>5. /\ _extract_fields(doc).version =
           IF doc.info = "mapping" THEN _safe_str(doc.info_version) ELSE None
      /\ _extract_fields(doc).raw_paths = _extract_paths(doc)
  <2> DEFINE version   == IF doc.info = "mapping" THEN _safe_str(doc.info_version) ELSE None
             raw_paths == _extract_paths(doc)
  <2>1. _extract_fields(doc) = [is_valid |-> TRUE, version |-> version, raw_paths |-> raw_paths]
    BY <1>1, <1>3, ExtractedFields
  <2> HIDE DEF version, raw_paths
  <2>2. _extract_fields(doc).version = version /\ _extract_fields(doc).raw_paths = raw_paths
    BY <2>1
  <2> QED BY <2>2 DEF version, raw_paths
<1>6. doc.info = "mapping" /\ doc.info_version \in Versions
        => _extract_fields(doc).version = doc.info_version
  BY <1>5, VersionsAreNotBlank DEF _safe_str
<1>7. doc.paths = "mapping" => _extract_fields(doc).raw_paths = doc.path_keys
  BY <1>5 DEF _extract_paths
<1> USE DEF doc
<1> QED BY <1>2, <1>3, <1>4, <1>6, <1>7

(* A parse that returns tells a mapping from what is none, and what it     *)
(* returns is a spec whose version is never blank.                         *)
THEOREM OnlyMappingsAreSpecs ==
  ASSUME raw \in RawContent
  PROVE  ParserRejectsNonMappings
<1> SUFFICES ASSUME parse_spec(raw) # Raised
             PROVE  /\ parse_spec(raw) \in ParsedSpec
                    /\ parse_spec(raw).is_valid <=> HoldsMapping(raw)
  BY DEF ParserRejectsNonMappings, RejectsNonMappings
<1>1. raw.doc \in Document
  BY DEF RawContent
<1>2. CASE HoldsMapping(raw)
  <2>1. parse_spec(raw) = _extract_fields(raw.doc)
    BY <1>2, OutcomesOfParsing
  <2> QED BY <1>1, <1>2, <2>1, ExtractedFields
<1>3. CASE ~HoldsMapping(raw)
  <2>1. parse_spec(raw) = Rejected
    BY <1>3, OutcomesOfParsing
  <2> QED BY <1>3, <2>1 DEF Rejected, ParsedSpec
<1> QED BY <1>2, <1>3
====
