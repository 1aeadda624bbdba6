---- MODULE DiscoveredCrawl ----
(***************************************************************************)
(* The crawl with the code search that feeds it: main's loop draws its     *)
(* URLs from discover().  The search is suspended while a result is        *)
(* processed and saved, and goes on when the loop comes back.  This is the *)
(* undisturbed process; RunCrawler has what kills it.                      *)
(***************************************************************************)
EXTENDS RunCrawler, GitHubUrls, GitHubSearch

(* Two pages of GitHub are two files, and have two raw URLs.               *)
ASSUME HtmlUrlsAreUrls == HtmlUrls \subseteq Url
ASSUME RawUrlsAreUrls == \A u \in HtmlUrls : to_raw_github_url(u) \in Urls
ASSUME RawUrlsAreDistinct ==
  \A u, v \in HtmlUrls : to_raw_github_url(u) = to_raw_github_url(v) => u = v

discoveredVars == <<vars, searchVars>>

DiscoveredInit == Init /\ SearchInit

DiscoveredStart == Start /\ Begin

(* The next result reaches the loop.                                       *)
NextResult ==
  \E html_url \in HtmlUrls :
    Yield(html_url) /\ Discover(to_raw_github_url(html_url))

(* The search at work, until it has a result or comes to its end.          *)
Searching == pc = "discover" /\ Advance /\ UNCHANGED vars

(* The pipeline at work on a result, the search waiting.                   *)
Crawling == (Process \/ Save \/ Saved) /\ UNCHANGED searchVars

DiscoveredFinish == Finish /\ at = "done" /\ UNCHANGED searchVars

DiscoveredStep == NextResult \/ Searching \/ Crawling \/ DiscoveredFinish

DiscoveredNext == DiscoveredStart \/ DiscoveredStep

(* As for the crawl alone: requests of finite answers end, and so do sleeps.*)
DiscoveredSpec == /\ DiscoveredInit /\ [][DiscoveredNext]_discoveredVars
                  /\ WF_discoveredVars(DiscoveredStep)

DiscoveredTypeOK == TypeOK /\ SearchTypeOK

-----------------------------------------------------------------------------
(* "callers never process the same file twice even when it appears in      *)
(* multiple queries" (github_search.py:10-11): with this search, the crawl *)
(* is one of those that RunCrawler describes.                              *)
ImplementsRunCrawler == Spec

(* A run that ends has crawled every result that its queries brought       *)
(* within their caps, and no other: each has an entry with the time of     *)
(* this run in the saved catalog, however the answers repeat or fail       *)
(* (run_crawler.py:110-125, github_search.py:113-126, 171-195).            *)
CrawledNow(url) ==
  LET entry == catalogFile[MakeSpecId[url]]
  IN  entry # None /\ entry.fetched_at = clock

EveryResultIsCrawled ==
  pc = "exited" =>
    /\ seen = {to_raw_github_url(u) : u \in due}
    /\ \A url \in seen : CrawledNow(url)

(* A run that has started comes to its end: the search follows finitely    *)
(* many pages, whatever is on them (github_search.py:171-209).             *)
CrawlEnds == pc = "discover" ~> pc \in {"exited", "dead"}
====
