---- MODULE MCDiscoveredCrawl ----
(***************************************************************************)
(* A small instance of DiscoveredCrawl with the documents of MCRunCrawler: *)
(* two files that two queries find on pages of up to two items, one of     *)
(* them at a URL that is no blob page and stays as it is.                  *)
(***************************************************************************)
EXTENDS DiscoveredCrawl, MCRunCrawler, Integers

CONSTANTS malformed, null_repository

OnGitHub  == [site |-> "github", repository |-> "a", view |-> "blob", rest |-> "x"]
Elsewhere == [site |-> "other", repository |-> "a", view |-> "none", rest |-> "x"]

MCHtmlUrls == {OnGitHub, Elsewhere}
RawOnGitHub  == to_raw_github_url(OnGitHub)
RawElsewhere == to_raw_github_url(Elsewhere)
MCUrls == {RawOnGitHub, RawElsewhere}

(* An empty page, one that the cap cuts off, and the two kinds of broken   *)
(* item, before a result that may be a repetition.                         *)
MCPages == {<<>>, <<Elsewhere, OnGitHub>>, <<OnGitHub, Elsewhere>>, <<malformed, Elsewhere>>,
            <<null_repository, OnGitHub>>}

MCResets == {-1, 3}
MCRetryAfters == {5}
====
