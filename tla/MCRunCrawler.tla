---- MODULE MCRunCrawler ----
(***************************************************************************)
(* Small instances of RunCrawler: two URLs and a handful of documents - two*)
(* that name different versions, one that names none, one that the parser  *)
(* rejects, one on which the parser raises.                                *)
(***************************************************************************)
EXTENDS RunCrawler, TLC

CONSTANTS u1, u2, s1, s2, h1, h2, h3, h4, h5, v1, v2, p1, p2

MCDistinctIds == u1 :> s1 @@ u2 :> s2
MCSameId      == u1 :> s1 @@ u2 :> s1

AllContents  == {"one", "two", "bare", "rejected", "poison"}
GoodContents == {"one", "bare", "rejected"}

DigestOf == "one" :> h1 @@ "two" :> h2 @@ "bare" :> h3
            @@ "rejected" :> h4 @@ "poison" :> h5

MCSha256 == [c \in Contents |-> DigestOf[c]]

P == INSTANCE Parser

(* A document as an editor would write it, and what the five contents hold *)
Written == [version_key |-> {"openapi"}, info |-> "mapping", info_version |-> None,
            servers |-> "list", has_host |-> FALSE, schemes |-> "null",
            tags |-> "null", paths |-> "mapping", path_keys |-> {p1, p2},
            other_keys |-> FALSE]

Yaml(doc) == [yaml |-> "mapping", json |-> "error", doc |-> doc]

RawOf ==
  "one"      :> Yaml([Written EXCEPT !.info_version = v1, !.path_keys = {p1}]) @@
  "two"      :> Yaml([Written EXCEPT !.info_version = v2, !.path_keys = {p2}]) @@
  "bare"     :> Yaml(Written) @@
  "rejected" :> [yaml |-> "error", json |-> "error", doc |-> Written] @@
  "poison"   :> Yaml([Written EXCEPT !.tags = "number"])

MCParseSpec == [c \in Contents |-> P!parse_spec(RawOf[c])]
====
