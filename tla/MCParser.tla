---- MODULE MCParser ----
(***************************************************************************)
(* parse_spec on every shape of input, one after another: a bounded check  *)
(* of the parser's operators against what they are for.                    *)
(***************************************************************************)
EXTENDS Parser

CONSTANTS v1, p1, p2

VARIABLE raw

(* The shapes that the code can tell apart in a field it iterates over.    *)
FieldShapes == {"null", "number", "list", "mapping"}

MCDocument ==
  {doc \in [version_key  : SUBSET {"openapi", "swagger"},
            info         : Shapes,
            info_version : {None, "", v1},
            servers      : FieldShapes,
            has_host     : BOOLEAN,
            schemes      : FieldShapes,
            tags         : {"empty", "text", "number"},
            paths        : {"null", "list", "mapping"},
            path_keys    : {{p1}, {p1, p2}},
            other_keys   : BOOLEAN] :
     doc.paths # "mapping" => doc.path_keys = {p1} /\ ~doc.other_keys}

(* How the bytes decode matters, and their content with it, only when the  *)
(* document is read at all.                                                *)
Loaders == {l \in [yaml : LoaderOutcomes, json : LoaderOutcomes] :
              l.yaml # "error" => l.json = "null"}

ParseInit ==
  \E doc \in MCDocument, l \in Loaders :
    /\ ~HoldsMapping(l) => ~doc.has_host /\ doc.info = "mapping"
    /\ l.yaml = "error" => ~doc.other_keys   \* JSON keys are strings
    /\ raw = [yaml |-> l.yaml, json |-> l.json, doc |-> doc]

ParseNext == UNCHANGED raw

ParserAcceptsWellShaped  == AcceptsWellShaped(raw)
ParserRejectsNonMappings == RejectsNonMappings(raw)
====
